------------------------- MODULE Relationships_proofs -------------------------
(***************************************************************************)
(* Theorems about relationships, their members and the order of these, for *)
(* any number of memories, relationships and overlapping requests,         *)
(* whatever fails.                                                         *)
(***************************************************************************)
EXTENDS Relationships, FiniteSetTheorems, FunctionTheorems, SequenceTheorems, WellFoundedInduction,
        TLAPS

-----------------------------------------------------------------------------
(* Natural numbers                                                         *)

LEMMA LeastNumber ==
  ASSUME NEW S \in SUBSET Nat, S # {}
  PROVE  \E x \in S : \A y \in S : x <= y
<1> DEFINE Less == {p \in Nat \X Nat : p[1] < p[2]}
<1>1. IsWellFoundedOn(Less, Nat)
  BY NatLessThanWellFounded DEF OpToRel
<1>2. \A x, y \in Nat : <<y, x>> \in Less <=> y < x
  OBVIOUS
<1> HIDE DEF Less
<1>3. PICK x \in S : \A y \in S : ~ (<<y, x>> \in Less)
  BY <1>1, WFMin
<1>4. \A y \in S : ~ (y < x)
  BY <1>2, <1>3
<1>5. QED  BY <1>4

LEMMA GreatestNumber ==
  ASSUME NEW S \in SUBSET Nat, S # {}, NEW n \in Nat, \A x \in S : x <= n
  PROVE  \E x \in S : \A y \in S : y <= x
<1> DEFINE Below == {k \in Nat : n - k \in S}
<1>1. Below \in SUBSET Nat /\ Below # {}
  <2>1. PICK x \in S : TRUE
    OBVIOUS
  <2>2. x \in Nat /\ n - x \in Nat /\ n - (n - x) = x
    BY <2>1
  <2>3. QED  BY <2>1, <2>2
<1>2. \A y \in S : n - y \in Below
  OBVIOUS
<1>3. \A k \in Below : n - k \in S
  OBVIOUS
<1> HIDE DEF Below
<1>4. PICK k \in Below : \A l \in Below : k <= l
  BY <1>1, LeastNumber
<1>5. n - k \in S /\ k \in Nat
  BY <1>1, <1>3, <1>4
<1>6. \A y \in S : y <= n - k
  BY <1>2, <1>4, <1>5
<1>7. QED  BY <1>5, <1>6

-----------------------------------------------------------------------------
(* Positions.  What the operators on orders return.                        *)

LEMMA LastPlace ==
  ASSUME NEW S, NEW ids \in Seq(S), NEW m \in ToSet(ids)
  PROVE  LET last == LastOf(ids, m) IN
         /\ last \in DOMAIN ids /\ ids[last] = m
         /\ \A i \in DOMAIN ids : ids[i] = m => i <= last
<1> DEFINE I == {i \in 1..Len(ids) : ids[i] = m}
<1>1. Len(ids) \in Nat /\ DOMAIN ids = 1..Len(ids)
  BY LenProperties
<1>2. I \in SUBSET Nat /\ I # {} /\ \A i \in I : i <= Len(ids)
  BY <1>1 DEF ToSet
<1>3. LastOf(ids, m) = CHOOSE x \in I : \A y \in I : x >= y
  BY <1>2 DEF LastOf, SelectLastInSeq, Max
<1>4. \A x \in I : x \in DOMAIN ids /\ ids[x] = m
  BY <1>1
<1>5. \A i \in DOMAIN ids : ids[i] = m => i \in I
  BY <1>1
<1> HIDE DEF I
<1>6. PICK x \in I : \A y \in I : y <= x
  BY <1>1, <1>2, GreatestNumber
<1>7. \A y \in I : x >= y
  BY <1>2, <1>6
<1> DEFINE last == CHOOSE z \in I : \A y \in I : z >= y
<1>8. last \in I /\ \A y \in I : last >= y
  BY <1>6, <1>7
<1> HIDE DEF last
<1>9. last \in DOMAIN ids /\ ids[last] = m /\ \A i \in DOMAIN ids : ids[i] = m => i <= last
  BY <1>1, <1>4, <1>5, <1>8
<1>10. QED  BY <1>3, <1>9 DEF last

\* The default order: every id has a position, its last one, and no two share one.
LEMMA DefaultOrderIs ==
  ASSUME NEW S, NEW ids \in Seq(S)
  PROVE  LET order == DefaultOrder(ids) IN
         /\ order \in [ToSet(ids) -> Nat]
         /\ DOMAIN order = ToSet(ids)
         /\ \A m \in ToSet(ids) :
              /\ order[m] + 1 \in DOMAIN ids /\ ids[order[m] + 1] = m
              /\ \A i \in DOMAIN ids : ids[i] = m => i <= order[m] + 1
         /\ IsInjective(order)
<1> DEFINE order == DefaultOrder(ids)
           last(m) == LastOf(ids, m)
<1>1. Len(ids) \in Nat /\ DOMAIN ids = 1..Len(ids)
  BY LenProperties
<1>2. order = [m \in ToSet(ids) |-> last(m) - 1]
  BY DEF DefaultOrder
<1>3. \A m \in ToSet(ids) : /\ last(m) \in DOMAIN ids /\ ids[last(m)] = m
                            /\ \A i \in DOMAIN ids : ids[i] = m => i <= last(m)
  BY LastPlace
<1> HIDE DEF last, order
<1>4. \A m \in ToSet(ids) : last(m) \in Nat /\ last(m) - 1 \in Nat /\ order[m] = last(m) - 1
  BY <1>1, <1>2, <1>3
<1>5. \A m \in ToSet(ids) : order[m] \in Nat /\ order[m] + 1 = last(m)
  BY <1>4
<1>6. order \in [ToSet(ids) -> Nat] /\ DOMAIN order = ToSet(ids)
  BY <1>2, <1>4
<1>7. IsInjective(order)
  <2> SUFFICES ASSUME NEW a \in ToSet(ids), NEW b \in ToSet(ids), order[a] = order[b] PROVE a = b
    BY <1>6 DEF IsInjective
  <2>1. last(a) = last(b)
    BY <1>5
  <2>2. QED  BY <1>3, <2>1
<1>8. QED  BY <1>3, <1>5, <1>6, <1>7 DEF order

-----------------------------------------------------------------------------
(* The members of an order by position.  Members that share no position    *)
(* have different numbers of others ahead of them, and these numbers are   *)
(* as many as the members: so there is one for each place.                 *)

LEMMA AheadGrows ==
  ASSUME NEW S, IsFiniteSet(S), NEW order \in [S -> Nat], NEW a \in S, NEW b \in S
  PROVE  /\ Cardinality(Ahead(order, a)) \in 0..(Cardinality(S) - 1)
         /\ order[a] < order[b] => Cardinality(Ahead(order, a)) < Cardinality(Ahead(order, b))
<1>1. /\ Ahead(order, a) = {x \in S : order[x] < order[a]}
      /\ Ahead(order, b) = {x \in S : order[x] < order[b]}
  BY DEF Ahead
<1> DEFINE A == Ahead(order, a)
           B == Ahead(order, b)
<1>2. A \in SUBSET S /\ B \in SUBSET S /\ a \notin A
  BY <1>1
<1>3. order[a] < order[b] => A \in SUBSET B /\ a \in B
  BY <1>1
<1> HIDE DEF A, B
<1>4. /\ IsFiniteSet(A) /\ IsFiniteSet(B) /\ Cardinality(A) <= Cardinality(S)
      /\ Cardinality(S) = Cardinality(A) => S = A
  BY <1>2, FS_Subset
<1>5. Cardinality(A) \in Nat /\ Cardinality(B) \in Nat /\ Cardinality(S) \in Nat
  BY <1>4, FS_CardinalityType
<1>6. Cardinality(A) # Cardinality(S)
  BY <1>2, <1>4
<1>7. ASSUME order[a] < order[b] PROVE Cardinality(A) < Cardinality(B)
  <2>1. /\ Cardinality(A) <= Cardinality(B)
        /\ Cardinality(B) = Cardinality(A) => B = A
    BY <1>3, <1>4, <1>7, FS_Subset
  <2>2. Cardinality(A) # Cardinality(B)
    BY <1>2, <1>3, <1>7, <2>1
  <2>3. QED  BY <1>5, <2>1, <2>2
<1>8. Cardinality(A) \in 0..(Cardinality(S) - 1)
  BY <1>4, <1>5, <1>6
<1>9. QED  BY <1>7, <1>8 DEF A, B

LEMMA OrderedIs ==
  ASSUME NEW S, IsFiniteSet(S), NEW order \in [S -> Nat], IsInjective(order)
  PROVE  LET by == Ordered(order) IN
         /\ by \in [1..Cardinality(S) -> S] /\ DOMAIN by = 1..Cardinality(S)
         /\ Cardinality(S) \in Nat
         /\ by \in Seq(S) /\ Len(by) = Cardinality(S)
         /\ ToSet(by) = S
         /\ \A i, j \in DOMAIN by : order[by[i]] < order[by[j]] <=> i < j
         /\ \A i, j \in DOMAIN by : by[i] = by[j] => i = j
         /\ \A i \in DOMAIN by : Cardinality(Ahead(order, by[i])) = i - 1
<1> DEFINE n == Cardinality(S)
           ahead(m) == Cardinality(Ahead(order, m))
           rank == [m \in S |-> ahead(m) + 1]
           by == [i \in 1..n |-> CHOOSE m \in S : ahead(m) = i - 1]
<1>1. n \in Nat
  BY FS_CardinalityType
<1>2. IsFiniteSet(1..n) /\ Cardinality(1..n) = n
  BY <1>1, FS_Interval
<1>3. \A a, b \in S : ahead(a) \in 0..(n - 1) /\ (order[a] < order[b] => ahead(a) < ahead(b))
  BY AheadGrows
<1>4. Ordered(order) = by
  BY DEF Ordered
<1> HIDE DEF n, ahead
<1>5. \A a, b \in S : order[a] = order[b] => a = b
  BY DEF IsInjective
<1>6. \A a, b \in S : ahead(a) = ahead(b) => a = b
  <2> SUFFICES ASSUME NEW a \in S, NEW b \in S, ahead(a) = ahead(b) PROVE a = b
    OBVIOUS
  <2>1. order[a] \in Nat /\ order[b] \in Nat /\ ahead(a) \in Nat /\ ahead(b) \in Nat
    BY <1>1, <1>3
  <2>2. ~ (order[a] < order[b]) /\ ~ (order[b] < order[a])
    BY <1>3, <2>1
  <2>3. QED  BY <1>5, <2>1, <2>2
<1>7. rank \in [S -> 1..n] /\ \A m \in S : rank[m] = ahead(m) + 1
  BY <1>1, <1>3
<1>8. \A a, b \in S : rank[a] = rank[b] => a = b
  BY <1>1, <1>3, <1>6, <1>7
<1> HIDE DEF rank
<1>9. rank \in Injection(S, 1..n)
  BY <1>7, <1>8, Fun_IsInj
<1>10. rank \in Surjection(S, 1..n)
  BY <1>2, <1>9, FS_Injection DEF n
<1>11. \A i \in 1..n : \E m \in S : rank[m] = i
  BY <1>10, Fun_SurjectionProperties
<1>12. \A i \in 1..n : by[i] \in S /\ ahead(by[i]) = i - 1
  <2> SUFFICES ASSUME NEW i \in 1..n PROVE by[i] \in S /\ ahead(by[i]) = i - 1
    OBVIOUS
  <2>1. PICK m \in S : rank[m] = i
    BY <1>11
  <2>2. ahead(m) = i - 1
    BY <1>1, <1>3, <1>7, <2>1
  <2>3. by[i] = CHOOSE x \in S : ahead(x) = i - 1
    OBVIOUS
  <2>4. QED  BY <2>2, <2>3
<1>13. by \in [1..n -> S] /\ DOMAIN by = 1..n
  BY <1>12
<1> HIDE DEF by
<1>14. by \in Seq(S) /\ Len(by) = n
  BY <1>1, <1>13
<1>15. \A i, j \in 1..n : order[by[i]] < order[by[j]] <=> i < j
  <2> SUFFICES ASSUME NEW i \in 1..n, NEW j \in 1..n
               PROVE  order[by[i]] < order[by[j]] <=> i < j
    OBVIOUS
  <2>1. by[i] \in S /\ by[j] \in S /\ ahead(by[i]) = i - 1 /\ ahead(by[j]) = j - 1
    BY <1>12
  <2>2. order[by[i]] \in Nat /\ order[by[j]] \in Nat /\ i \in Int /\ j \in Int
    BY <1>1, <2>1
  <2>3. order[by[i]] < order[by[j]] => i - 1 < j - 1
    BY <1>3, <2>1
  <2>4. order[by[j]] < order[by[i]] => j - 1 < i - 1
    BY <1>3, <2>1
  <2>5. order[by[i]] = order[by[j]] => i - 1 = j - 1
    BY <1>5, <2>1
  <2>6. QED  BY <2>2, <2>3, <2>4, <2>5
<1>16. \A i, j \in 1..n : by[i] = by[j] => i = j
  <2> SUFFICES ASSUME NEW i \in 1..n, NEW j \in 1..n, by[i] = by[j] PROVE i = j
    OBVIOUS
  <2>1. i - 1 = j - 1 /\ i \in Int /\ j \in Int
    BY <1>1, <1>12
  <2>2. QED  BY <2>1
<1>17. \A m \in S : \E i \in 1..n : by[i] = m
  <2> SUFFICES ASSUME NEW m \in S PROVE \E i \in 1..n : by[i] = m
    OBVIOUS
  <2>1. rank[m] \in 1..n /\ ahead(m) = rank[m] - 1
    BY <1>1, <1>3, <1>7
  <2>2. by[rank[m]] \in S /\ ahead(by[rank[m]]) = rank[m] - 1
    BY <1>12, <2>1
  <2>3. by[rank[m]] = m
    BY <1>6, <2>1, <2>2
  <2>4. QED  BY <2>1, <2>3
<1>18. ToSet(by) = S
  BY <1>13, <1>17 DEF ToSet
<1>19. QED
  BY <1>1, <1>4, <1>12, <1>13, <1>14, <1>15, <1>16, <1>18 DEF n, ahead

\* What is left of a sequence keeps its order.
LEMMA WithoutIs ==
  ASSUME NEW S, NEW ids \in Seq(S), NEW gone
  PROVE  LET left == Without(ids, gone) IN
         /\ left \in Seq(S)
         /\ ToSet(left) = ToSet(ids) \ gone
         /\ \E at \in [DOMAIN left -> DOMAIN ids] :
              /\ \A k \in DOMAIN left : left[k] = ids[at[k]]
              /\ \A k, l \in DOMAIN left : at[k] < at[l] <=> k < l
              /\ \A k, l \in DOMAIN left : at[k] = at[l] => k = l
<1> DEFINE K == {i \in DOMAIN ids : ids[i] \notin gone}
           place == [i \in K |-> i]
           at == Ordered(place)
           left == [k \in DOMAIN at |-> ids[at[k]]]
<1>1. Len(ids) \in Nat /\ DOMAIN ids = 1..Len(ids) /\ \A i \in DOMAIN ids : ids[i] \in S
  BY LenProperties, ElementOfSeq
<1>2. K \in SUBSET DOMAIN ids
  OBVIOUS
<1>3. \A i \in DOMAIN ids : i \in K <=> ids[i] \notin gone
  OBVIOUS
<1>4. Without(ids, gone) = left
  BY DEF Without
<1> HIDE DEF K
<1>5. IsFiniteSet(1..Len(ids))
  BY <1>1, FS_Interval
<1>6. IsFiniteSet(K)
  BY <1>1, <1>2, <1>5, FS_Subset
<1>7. place \in [K -> Nat] /\ IsInjective(place) /\ \A i \in K : place[i] = i
  BY <1>1, <1>2 DEF IsInjective
<1> HIDE DEF place
<1>8. /\ at \in [1..Cardinality(K) -> K] /\ DOMAIN at = 1..Cardinality(K) /\ Cardinality(K) \in Nat
      /\ ToSet(at) = K
      /\ \A k, l \in DOMAIN at : place[at[k]] < place[at[l]] <=> k < l
      /\ \A k, l \in DOMAIN at : at[k] = at[l] => k = l
  BY <1>6, <1>7, OrderedIs
<1> HIDE DEF at
<1>9. \A k, l \in DOMAIN at : at[k] < at[l] <=> k < l
  BY <1>7, <1>8
<1>10. /\ left \in [1..Cardinality(K) -> S] /\ DOMAIN left = DOMAIN at
       /\ \A k \in DOMAIN left : left[k] = ids[at[k]]
  BY <1>1, <1>2, <1>8
<1> HIDE DEF left
<1>11. left \in Seq(S)
  BY <1>8, <1>10
<1>12. at \in [DOMAIN left -> DOMAIN ids]
  BY <1>2, <1>8, <1>10
<1>13. ToSet(left) = ToSet(ids) \ gone
  <2>1. ASSUME NEW x \in ToSet(left) PROVE x \in ToSet(ids) /\ x \notin gone
    <3>1. PICK k \in DOMAIN left : x = left[k]
      BY DEF ToSet
    <3>2. at[k] \in K /\ x = ids[at[k]]
      BY <1>8, <1>10, <3>1
    <3>3. QED  BY <1>2, <1>3, <3>2 DEF ToSet
  <2>2. ASSUME NEW x \in ToSet(ids), x \notin gone PROVE x \in ToSet(left)
    <3>1. PICK i \in DOMAIN ids : x = ids[i]
      BY DEF ToSet
    <3>2. i \in ToSet(at)
      BY <1>3, <1>8, <2>2, <3>1
    <3>3. PICK k \in DOMAIN at : i = at[k]
      BY <3>2 DEF ToSet
    <3>4. QED  BY <1>10, <3>1, <3>3 DEF ToSet
  <2>3. QED  BY <2>1, <2>2
<1>14. \E to \in [DOMAIN left -> DOMAIN ids] :
         /\ \A k \in DOMAIN left : left[k] = ids[to[k]]
         /\ \A k, l \in DOMAIN left : to[k] < to[l] <=> k < l
         /\ \A k, l \in DOMAIN left : to[k] = to[l] => k = l
  BY <1>8, <1>9, <1>10, <1>12
<1>15. QED  BY <1>4, <1>11, <1>13, <1>14

\* A list without repetitions has as many members as places.
LEMMA ListCardinality ==
  ASSUME NEW S, NEW ids \in Seq(S)
  PROVE  /\ IsFiniteSet(ToSet(ids)) /\ Cardinality(ToSet(ids)) \in Nat
         /\ IsInjective(ids) => Cardinality(ToSet(ids)) = Len(ids)
<1>1. Len(ids) \in Nat /\ DOMAIN ids = 1..Len(ids) /\ ids \in [1..Len(ids) -> S]
  BY LenProperties
<1>2. ids \in [1..Len(ids) -> ToSet(ids)] /\ \A x \in ToSet(ids) : \E i \in 1..Len(ids) : ids[i] = x
  BY <1>1 DEF ToSet
<1>3. ids \in Surjection(1..Len(ids), ToSet(ids))
  BY <1>2, Fun_IsSurj
<1>4. IsFiniteSet(1..Len(ids)) /\ Cardinality(1..Len(ids)) = Len(ids)
  BY <1>1, FS_Interval
<1>5. IsFiniteSet(ToSet(ids))
  BY <1>3, <1>4, FS_Surjection
<1>6. ASSUME IsInjective(ids) PROVE Cardinality(ToSet(ids)) = Len(ids)
  <2>1. \A a, b \in 1..Len(ids) : ids[a] = ids[b] => a = b
    BY <1>1, <1>6 DEF IsInjective
  <2>2. ids \in Injection(1..Len(ids), ToSet(ids))
    BY <1>2, <2>1, Fun_IsInj
  <2>3. QED  BY <1>3, <1>4, <2>2, FS_Surjection
<1>7. QED  BY <1>5, <1>6, FS_CardinalityType

LEMMA InsertedIs ==
  ASSUME NEW S, NEW rest \in Seq(S), NEW m \in S, NEW k \in 0..Len(rest)
  PROVE  LET new == InsertAt(rest, k + 1, m) IN
         /\ new \in [1..(Len(rest) + 1) -> S]
         /\ new[k + 1] = m
         /\ \A i \in 1..Len(rest) : new[IF i <= k THEN i ELSE i + 1] = rest[i]
         /\ ToSet(new) = ToSet(rest) \cup {m}
<1> DEFINE low == SubSeq(rest, 1, k)
           high == SubSeq(rest, k + 1, Len(rest))
           one == <<m>>
           start == low \o one
           new == start \o high
           n == Len(rest)
<1>1. n \in Nat /\ DOMAIN rest = 1..n /\ k \in Nat /\ k <= n /\ \A i \in 1..n : rest[i] \in S
  BY LenProperties, ElementOfSeq
<1>2. InsertAt(rest, k + 1, m) = new
  <2>1. (k + 1) - 1 = k
    BY <1>1
  <2>2. QED  BY <2>1 DEF InsertAt
<1>3. low \in Seq(S) /\ Len(low) = k /\ \A i \in 1..k : low[i] = rest[i]
  <2>1. 1 \in Int /\ k \in Int /\ \A i \in 1..k : rest[i] \in S
    BY <1>1
  <2>2. /\ low \in Seq(S) /\ Len(low) = (IF 1 <= k THEN k - 1 + 1 ELSE 0)
        /\ \A i \in 1..(k - 1 + 1) : low[i] = rest[1 + i - 1]
    BY <2>1, SubSeqProperties
  <2>3. QED  BY <1>1, <2>2
<1>4. high \in Seq(S) /\ Len(high) = n - k /\ \A i \in 1..(n - k) : high[i] = rest[k + i]
  <2>1. k + 1 \in Int /\ n \in Int /\ \A i \in (k + 1)..n : rest[i] \in S
    BY <1>1
  <2>2. /\ high \in Seq(S) /\ Len(high) = (IF k + 1 <= n THEN n - (k + 1) + 1 ELSE 0)
        /\ \A i \in 1..(n - (k + 1) + 1) : high[i] = rest[k + 1 + i - 1]
    BY <2>1, SubSeqProperties
  <2>3. n - (k + 1) + 1 = n - k /\ \A i \in 1..(n - k) : k + 1 + i - 1 = k + i
    BY <1>1
  <2> HIDE DEF high
  <2>4. Len(high) = n - k
    <3>1. n \in Nat /\ k \in Nat /\ k <= n
      BY <1>1
    <3>2. Len(high) = IF k + 1 <= n THEN n - (k + 1) + 1 ELSE 0
      BY <2>2
    <3> HIDE DEF n
    <3>3. QED  BY <3>1, <3>2
  <2>5. ASSUME NEW i \in 1..(n - k) PROVE high[i] = rest[k + i]
    BY <2>2, <2>3
  <2>6. QED  BY <2>2, <2>4, <2>5
<1> HIDE DEF low, high
<1>5. one \in Seq(S) /\ Len(one) = 1 /\ one[1] = m
  OBVIOUS
<1> HIDE DEF one
<1>6. /\ start \in Seq(S) /\ Len(start) = k + 1
      /\ \A i \in 1..(k + 1) : start[i] = IF i <= k THEN low[i] ELSE one[i - k]
  <2>1. /\ start \in Seq(S) /\ Len(start) = Len(low) + Len(one)
        /\ \A i \in 1..(Len(low) + Len(one)) :
             start[i] = IF i <= Len(low) THEN low[i] ELSE one[i - Len(low)]
    BY <1>3, <1>5, ConcatProperties
  <2> HIDE DEF start
  <2>2. QED  BY <1>3, <1>5, <2>1
<1> HIDE DEF start
<1>7. /\ new \in Seq(S) /\ Len(new) = (k + 1) + (n - k)
      /\ \A i \in 1..((k + 1) + (n - k)) :
           new[i] = IF i <= k + 1 THEN start[i] ELSE high[i - (k + 1)]
  <2>1. /\ new \in Seq(S) /\ Len(new) = Len(start) + Len(high)
        /\ \A i \in 1..(Len(start) + Len(high)) :
             new[i] = IF i <= Len(start) THEN start[i] ELSE high[i - Len(start)]
    BY <1>4, <1>6, ConcatProperties
  <2> HIDE DEF new
  <2>2. QED  BY <1>4, <1>6, <2>1
<1>8. (k + 1) + (n - k) = n + 1
  BY <1>1
<1> HIDE DEF new
<1>9. new[k + 1] = m
  <2>1. k + 1 \in 1..(n + 1) /\ k + 1 \in 1..(k + 1) /\ ~ (k + 1 <= k) /\ k + 1 - k = 1
        /\ k + 1 <= k + 1
    BY <1>1
  <2>2. new[k + 1] = start[k + 1]
    BY <1>7, <1>8, <2>1
  <2>3. start[k + 1] = one[k + 1 - k]
    BY <1>6, <2>1
  <2>4. QED  BY <1>5, <2>1, <2>2, <2>3
<1>10. ASSUME NEW i \in 1..n PROVE new[IF i <= k THEN i ELSE i + 1] = rest[i]
  <2>1. CASE i <= k
    <3>1. i \in 1..k /\ i \in 1..(k + 1) /\ i \in 1..(n + 1) /\ i <= k + 1
      BY <1>1, <2>1
    <3>2. new[i] = start[i]
      BY <1>7, <1>8, <3>1
    <3>3. start[i] = low[i]
      BY <1>6, <2>1, <3>1
    <3>4. QED  BY <1>3, <2>1, <3>1, <3>2, <3>3
  <2>2. CASE ~ (i <= k)
    <3>1. /\ i + 1 \in 1..(n + 1) /\ ~ (i + 1 <= k + 1) /\ i + 1 - (k + 1) = i - k
          /\ i - k \in 1..(n - k) /\ k + (i - k) = i
      BY <1>1, <2>2
    <3>2. new[i + 1] = high[i - k]
      BY <1>7, <1>8, <3>1
    <3>3. high[i - k] = rest[i]
      BY <1>4, <3>1
    <3>4. QED  BY <2>2, <3>2, <3>3
  <2>3. QED  BY <2>1, <2>2
<1>11. ToSet(new) = ToSet(rest) \cup {m}
  <2>1. DOMAIN new = 1..(n + 1)
    BY <1>7, <1>8, LenProperties
  <2>2. ASSUME NEW x \in ToSet(rest) PROVE x \in ToSet(new)
    <3>1. PICK i \in 1..n : x = rest[i]
      BY <1>1 DEF ToSet
    <3>2. (IF i <= k THEN i ELSE i + 1) \in 1..(n + 1)
      BY <1>1
    <3>3. QED  BY <1>10, <2>1, <3>1, <3>2 DEF ToSet
  <2>3. m \in ToSet(new)
    <3>1. k + 1 \in 1..(n + 1)
      BY <1>1
    <3>2. QED  BY <1>9, <2>1, <3>1 DEF ToSet
  <2>4. ASSUME NEW x \in ToSet(new) PROVE x \in ToSet(rest) \cup {m}
    <3>1. PICK j \in 1..(n + 1) : x = new[j]
      BY <2>1 DEF ToSet
    <3>2. CASE j <= k
      <4>1. j \in 1..n /\ (IF j <= k THEN j ELSE j + 1) = j
        BY <1>1, <3>2
      <4>2. x = rest[j]
        BY <1>10, <3>1, <4>1
      <4>3. QED  BY <1>1, <4>1, <4>2 DEF ToSet
    <3>3. CASE j = k + 1
      BY <1>9, <3>1, <3>3
    <3>4. CASE j > k + 1
      <4>1. j - 1 \in 1..n /\ (IF j - 1 <= k THEN j - 1 ELSE j - 1 + 1) = j
        BY <1>1, <3>4
      <4>2. x = rest[j - 1]
        BY <1>10, <3>1, <4>1
      <4>3. QED  BY <1>1, <4>1, <4>2 DEF ToSet
    <3>5. QED  BY <1>1, <3>2, <3>3, <3>4
  <2>5. QED  BY <2>2, <2>3, <2>4
<1>12. new \in [1..(n + 1) -> S]
  BY <1>7, <1>8, LenProperties
<1>13. QED  BY <1>2, <1>9, <1>10, <1>11, <1>12

-----------------------------------------------------------------------------
(* What the reorderings do to an order of a finite set of members.         *)

OrderOn(S) == {order \in [S -> Nat] : IsInjective(order)}

\* A list without repetitions gives each id the position it stands at.
LEMMA ListedOrder ==
  ASSUME NEW S, NEW ids \in Seq(S), \A i, j \in DOMAIN ids : ids[i] = ids[j] => i = j
  PROVE  \A i \in DOMAIN ids : DefaultOrder(ids)[ids[i]] = i - 1
<1> DEFINE order == DefaultOrder(ids)
<1>1. Len(ids) \in Nat /\ DOMAIN ids = 1..Len(ids)
  BY LenProperties
<1>2. \A m \in ToSet(ids) : order[m] \in Nat /\ order[m] + 1 \in DOMAIN ids /\ ids[order[m] + 1] = m
  BY DefaultOrderIs
<1> HIDE DEF order
<1>3. SUFFICES ASSUME NEW i \in DOMAIN ids PROVE order[ids[i]] = i - 1
  BY DEF order
<1>4. ids[i] \in ToSet(ids)
  BY DEF ToSet
<1>5. order[ids[i]] \in Nat /\ order[ids[i]] + 1 = i
  BY <1>2, <1>4
<1>6. QED  BY <1>5

LEMMA CompactIs ==
  ASSUME NEW S, IsFiniteSet(S), NEW order \in OrderOn(S)
  PROVE  LET new == CompactOrder(order) IN
         /\ new \in OrderOn(S)
         /\ \A m \in S : new[m] = Cardinality(Ahead(order, m))
         /\ SameBut(order, new, {})
<1> DEFINE by == Ordered(order)
           new == DefaultOrder(by)
<1>1. order \in [S -> Nat] /\ IsInjective(order) /\ DOMAIN order = S
  BY DEF OrderOn
<1>2. /\ by \in Seq(S) /\ ToSet(by) = S
      /\ DOMAIN by = 1..Cardinality(S) /\ Cardinality(S) \in Nat
      /\ \A i, j \in DOMAIN by : order[by[i]] < order[by[j]] <=> i < j
      /\ \A i, j \in DOMAIN by : by[i] = by[j] => i = j
      /\ \A i \in DOMAIN by : Cardinality(Ahead(order, by[i])) = i - 1
  BY <1>1, OrderedIs
<1> HIDE DEF by
<1>3. new \in [S -> Nat] /\ IsInjective(new)
  BY <1>2, DefaultOrderIs
<1>4. \A i \in DOMAIN by : new[by[i]] = i - 1
  BY <1>2, ListedOrder
<1>5. CompactOrder(order) = new
  BY DEF CompactOrder, by
<1> HIDE DEF new
<1>6. \A m \in S : \E i \in DOMAIN by : m = by[i]
  BY <1>2 DEF ToSet
<1>7. \A m \in S : new[m] = Cardinality(Ahead(order, m))
  BY <1>2, <1>4, <1>6
<1>8. ASSUME NEW a \in S, NEW b \in S PROVE order[a] < order[b] <=> new[a] < new[b]
  <2>1. PICK i \in DOMAIN by : a = by[i]
    BY <1>6
  <2>2. PICK j \in DOMAIN by : b = by[j]
    BY <1>6
  <2>3. new[a] = i - 1 /\ new[b] = j - 1 /\ (order[a] < order[b] <=> i < j)
    BY <1>2, <1>4, <2>1, <2>2
  <2>4. i \in Int /\ j \in Int
    BY <1>2
  <2>5. QED  BY <2>3, <2>4
<1>9. QED  BY <1>1, <1>3, <1>5, <1>7, <1>8 DEF OrderOn, SameBut, Before

\* Without gaps, a position is the number of members that have a lower one.
LEMMA DenseAhead ==
  ASSUME NEW S, IsFiniteSet(S), NEW order \in OrderOn(S), Dense(order), NEW m \in S
  PROVE  order[m] = Cardinality(Ahead(order, m)) /\ order[m] < Cardinality(S)
<1> DEFINE A == Ahead(order, m)
           low == 0..(order[m] - 1)
           place == [a \in A |-> order[a]]
<1>1. order \in [S -> Nat] /\ DOMAIN order = S /\ \A a, b \in S : order[a] = order[b] => a = b
  BY DEF OrderOn, IsInjective
<1>2. A = {a \in S : order[a] < order[m]}
  BY <1>1 DEF Ahead
<1>3. order[m] \in Nat /\ Cardinality(S) \in Nat
  BY <1>1, FS_CardinalityType
<1>4. {order[a] : a \in S} = 0..(Cardinality(S) - 1)
  BY <1>1 DEF Dense, Positions
<1>5. order[m] \in 0..(Cardinality(S) - 1)
  BY <1>4
<1>6. IsFiniteSet(low) /\ Cardinality(low) = order[m]
  <2>1. 0 \in Int /\ order[m] - 1 \in Int
    BY <1>3
  <2>2. /\ IsFiniteSet(low)
        /\ Cardinality(low) = (IF 0 > order[m] - 1 THEN 0 ELSE order[m] - 1 - 0 + 1)
    BY <2>1, FS_Interval
  <2> HIDE DEF low
  <2>3. QED  BY <1>3, <2>2
<1>7. A \in SUBSET S
  BY <1>2
<1>8. \A a \in A : order[a] \in Nat /\ order[a] < order[m]
  BY <1>1, <1>2
<1>9. place \in [A -> low] /\ \A a \in A : place[a] = order[a]
  BY <1>3, <1>8
<1>10. \A i \in low : \E a \in A : place[a] = i
  <2> SUFFICES ASSUME NEW i \in low PROVE \E a \in A : place[a] = i
    OBVIOUS
  <2>1. i \in 0..(Cardinality(S) - 1) /\ i < order[m]
    BY <1>3, <1>5
  <2>2. PICK a \in S : order[a] = i
    BY <1>4, <2>1
  <2>3. a \in A
    BY <1>2, <2>1, <2>2
  <2>4. QED  BY <1>9, <2>2, <2>3
<1> HIDE DEF place, A, low
<1>11. \A a, b \in A : place[a] = place[b] => a = b
  BY <1>1, <1>7, <1>9
<1>12. place \in Surjection(A, low) /\ place \in Injection(A, low)
  BY <1>9, <1>10, <1>11, Fun_IsSurj, Fun_IsInj
<1>13. IsFiniteSet(A)
  BY <1>7, FS_Subset
<1>14. Cardinality(A) = Cardinality(low)
  BY <1>12, <1>13, FS_Surjection
<1>15. QED  BY <1>3, <1>5, <1>6, <1>14 DEF A

\* What is left when one member is taken out, by position.
LEMMA RestIs ==
  ASSUME NEW S, IsFiniteSet(S), NEW order \in OrderOn(S), NEW m \in S
  PROVE  LET rest == Without(Ordered(order), {m}) IN
         /\ rest \in Seq(S) /\ ToSet(rest) = S \ {m}
         /\ Len(rest) = Cardinality(S) - 1 /\ Len(rest) \in Nat /\ DOMAIN rest = 1..Len(rest)
         /\ \A i, j \in DOMAIN rest : rest[i] = rest[j] => i = j
         /\ \A i, j \in DOMAIN rest : order[rest[i]] < order[rest[j]] <=> i < j
<1> DEFINE by == Ordered(order)
           gone == {m}
           rest == Without(by, gone)
<1>1. order \in [S -> Nat] /\ IsInjective(order)
  BY DEF OrderOn
<1>2. /\ by \in Seq(S) /\ ToSet(by) = S /\ DOMAIN by = 1..Cardinality(S)
      /\ \A i, j \in DOMAIN by : order[by[i]] < order[by[j]] <=> i < j
      /\ \A i, j \in DOMAIN by : by[i] = by[j] => i = j
  BY <1>1, OrderedIs
<1> HIDE DEF by, gone
<1>3. /\ rest \in Seq(S) /\ ToSet(rest) = S \ gone
      /\ \E at \in [DOMAIN rest -> DOMAIN by] :
           /\ \A k \in DOMAIN rest : rest[k] = by[at[k]]
           /\ \A k, l \in DOMAIN rest : at[k] < at[l] <=> k < l
           /\ \A k, l \in DOMAIN rest : at[k] = at[l] => k = l
  <2>1. by \in Seq(S)
    BY <1>2
  <2>2. /\ rest \in Seq(S) /\ ToSet(rest) = ToSet(by) \ gone
        /\ \E at \in [DOMAIN rest -> DOMAIN by] :
             /\ \A k \in DOMAIN rest : rest[k] = by[at[k]]
             /\ \A k, l \in DOMAIN rest : at[k] < at[l] <=> k < l
             /\ \A k, l \in DOMAIN rest : at[k] = at[l] => k = l
    BY <2>1, WithoutIs, ZenonT(30)
  <2>3. QED  BY <1>2, <2>2
<1> HIDE DEF rest
<1>4. PICK at \in [DOMAIN rest -> DOMAIN by] :
           /\ \A k \in DOMAIN rest : rest[k] = by[at[k]]
           /\ \A k, l \in DOMAIN rest : at[k] < at[l] <=> k < l
           /\ \A k, l \in DOMAIN rest : at[k] = at[l] => k = l
  BY <1>3
<1>5. \A k \in DOMAIN rest : at[k] \in DOMAIN by
  BY <1>4
<1>6. \A i, j \in DOMAIN rest : rest[i] = rest[j] => i = j
  BY <1>2, <1>4, <1>5
<1>7. \A i, j \in DOMAIN rest : order[rest[i]] < order[rest[j]] <=> i < j
  BY <1>2, <1>4, <1>5
<1>8. Len(rest) \in Nat /\ DOMAIN rest = 1..Len(rest)
  BY <1>3, LenProperties
<1>9. Cardinality(ToSet(rest)) = Len(rest)
  <2>1. IsInjective(rest)
    BY <1>6 DEF IsInjective
  <2>2. QED  BY <1>3, <2>1, ListCardinality
<1>10. Cardinality(S \ {m}) = Cardinality(S) - 1
  BY FS_RemoveElement
<1>11. QED  BY <1>3, <1>6, <1>7, <1>8, <1>9, <1>10 DEF rest, by, gone

LEMMA ReinsertIs ==
  ASSUME NEW S, IsFiniteSet(S), NEW order \in OrderOn(S), NEW m \in S,
         NEW k \in 0..Len(Without(Ordered(order), {m}))
  PROVE  LET rest == Without(Ordered(order), {m})
             new == DefaultOrder(InsertAt(rest, k + 1, m)) IN
         /\ new \in OrderOn(S)
         /\ new[m] = k
         /\ \A i \in DOMAIN rest : new[rest[i]] = IF i <= k THEN i - 1 ELSE i
         /\ SameBut(order, new, {m})
<1> DEFINE rest == Without(Ordered(order), {m})
           list == InsertAt(rest, k + 1, m)
           new == DefaultOrder(list)
           n == Len(rest)
           to(i) == IF i <= k THEN i ELSE i + 1
<1>1. /\ rest \in Seq(S) /\ ToSet(rest) = S \ {m} /\ n \in Nat /\ DOMAIN rest = 1..n
      /\ \A i, j \in DOMAIN rest : rest[i] = rest[j] => i = j
      /\ \A i, j \in DOMAIN rest : order[rest[i]] < order[rest[j]] <=> i < j
  BY RestIs
<1>2. k \in 0..Len(rest)
  OBVIOUS
<1> HIDE DEF rest
<1>3. /\ list \in Seq(S) /\ Len(list) = n + 1 /\ list[k + 1] = m
      /\ \A i \in 1..n : list[to(i)] = rest[i]
      /\ ToSet(list) = ToSet(rest) \cup {m}
  <2>1. rest \in Seq(S)
    BY <1>1
  <2>2. /\ list \in [1..(n + 1) -> S] /\ list[k + 1] = m
        /\ \A i \in 1..n : list[to(i)] = rest[i]
        /\ ToSet(list) = ToSet(rest) \cup {m}
    <3>1. list \in [1..(Len(rest) + 1) -> S]
      BY <1>2, <2>1, InsertedIs
    <3>2. list[k + 1] = m
      BY <1>2, <2>1, InsertedIs
    <3>3. \A i \in 1..Len(rest) : list[IF i <= k THEN i ELSE i + 1] = rest[i]
      BY <1>2, <2>1, InsertedIs
    <3>4. ToSet(list) = ToSet(rest) \cup {m}
      BY <1>2, <2>1, InsertedIs
    <3>5. QED  BY <3>1, <3>2, <3>3, <3>4
  <2> HIDE DEF list, to
  <2>3. list \in Seq(S) /\ Len(list) = n + 1
    BY <1>1, <2>2
  <2>4. QED  BY <2>2, <2>3
<1>4. k \in Nat /\ k <= n
  BY <1>1, <1>2
<1> HIDE DEF list
<1>5. DOMAIN list = 1..(n + 1)
  BY <1>3, LenProperties
<1>6. ToSet(list) = S
  BY <1>1, <1>3
<1>7. \A i \in 1..n : to(i) \in 1..(n + 1) /\ to(i) # k + 1
  BY <1>1, <1>4
<1>8. \A j \in 1..(n + 1) : j # k + 1 => \E i \in 1..n : j = to(i)
  <2> SUFFICES ASSUME NEW j \in 1..(n + 1), j # k + 1 PROVE \E i \in 1..n : j = to(i)
    OBVIOUS
  <2>1. CASE j <= k
    <3>1. j \in 1..n /\ to(j) = j
      BY <1>1, <1>4, <2>1
    <3>2. QED  BY <3>1
  <2>2. CASE ~ (j <= k)
    <3>1. j - 1 \in 1..n /\ to(j - 1) = j
      BY <1>1, <1>4, <2>2
    <3>2. QED  BY <3>1
  <2>3. QED  BY <2>1, <2>2
<1>9. \A i \in 1..n : rest[i] # m
  BY <1>1 DEF ToSet
<1>10. \A i, j \in 1..n : i < j <=> to(i) < to(j)
  BY <1>1, <1>4
<1>11. \A i \in 1..n : to(i) - 1 = IF i <= k THEN i - 1 ELSE i
  BY <1>1, <1>4
<1> HIDE DEF to
<1>12. \A i, j \in DOMAIN list : list[i] = list[j] => i = j
  <2> SUFFICES ASSUME NEW i \in 1..(n + 1), NEW j \in 1..(n + 1), list[i] = list[j] PROVE i = j
    BY <1>5
  <2>1. CASE i = k + 1 /\ j = k + 1
    BY <2>1
  <2>2. CASE i = k + 1 /\ j # k + 1
    BY <1>3, <1>8, <1>9, <2>2
  <2>3. CASE i # k + 1 /\ j = k + 1
    BY <1>3, <1>8, <1>9, <2>3
  <2>4. CASE i # k + 1 /\ j # k + 1
    <3>1. PICK a \in 1..n : i = to(a)
      BY <1>8, <2>4
    <3>2. PICK b \in 1..n : j = to(b)
      BY <1>8, <2>4
    <3>3. rest[a] = rest[b]
      BY <1>3, <3>1, <3>2
    <3>4. QED  BY <1>1, <3>1, <3>2, <3>3
  <2>5. QED  BY <2>1, <2>2, <2>3, <2>4
<1>13. \A i \in DOMAIN list : new[list[i]] = i - 1
  BY <1>3, <1>12, ListedOrder
<1>14. new \in [S -> Nat] /\ IsInjective(new)
  BY <1>3, <1>6, DefaultOrderIs
<1> HIDE DEF new
<1>15. new[m] = k
  <2>1. k + 1 \in 1..(n + 1) /\ k + 1 - 1 = k
    BY <1>1, <1>4
  <2>2. QED  BY <1>3, <1>5, <1>13, <2>1
<1>16. \A i \in 1..n : new[rest[i]] = to(i) - 1
  BY <1>3, <1>5, <1>7, <1>13
<1>17. SameBut(order, new, {m})
  <2>1. DOMAIN order = S
    BY DEF OrderOn
  <2> SUFFICES ASSUME NEW a \in S \ {m}, NEW b \in S \ {m}
               PROVE  order[a] < order[b] <=> new[a] < new[b]
    BY <2>1 DEF SameBut, Before
  <2>2. PICK i \in 1..n : a = rest[i]
    BY <1>1 DEF ToSet
  <2>3. PICK j \in 1..n : b = rest[j]
    BY <1>1 DEF ToSet
  <2>4. order[a] < order[b] <=> i < j
    BY <1>1, <2>2, <2>3
  <2>5. new[a] = to(i) - 1 /\ new[b] = to(j) - 1
    BY <1>16, <2>2, <2>3
  <2>6. to(i) \in Int /\ to(j) \in Int
    BY <1>1, <1>7
  <2>7. QED  BY <1>10, <2>4, <2>5, <2>6
<1>18. \A i \in DOMAIN rest : new[rest[i]] = IF i <= k THEN i - 1 ELSE i
  BY <1>1, <1>11, <1>16
<1>19. new \in OrderOn(S)
  BY <1>14 DEF OrderOn
<1>20. QED  BY <1>15, <1>17, <1>18, <1>19 DEF new, list, rest

\* The number that is meant when an index is past the end.
LEMMA ClippedIndex ==
  ASSUME NEW i \in Nat, NEW n \in Nat, n > 0
  PROVE  (CHOOSE j \in {i, n - 1} : j <= i /\ j < n) = IF i < n - 1 THEN i ELSE n - 1
<1>1. CASE i < n - 1
  <2>1. i <= i /\ i < n /\ ~ (n - 1 <= i)
    BY <1>1
  <2>2. QED  BY <1>1, <2>1
<1>2. CASE ~ (i < n - 1)
  <2>1. n - 1 <= i /\ n - 1 < n
    BY <1>2
  <2>2. \A j \in {i, n - 1} : (j <= i /\ j < n) => j = n - 1
    BY <1>2
  <2>3. QED  BY <1>2, <2>1, <2>2
<1>3. QED  BY <1>1, <1>2

LEMMA MoveToIndexIs ==
  ASSUME NEW S, IsFiniteSet(S), NEW order \in OrderOn(S), NEW m \in S, NEW index \in Nat
  PROVE  LET new == MoveToIndex(order, m, index)
             last == Cardinality(S) - 1 IN
         /\ new \in OrderOn(S)
         /\ SameBut(order, new, {m})
         /\ Dense(order) => new[m] = IF index < last THEN index ELSE last
<1> DEFINE rest == Without(Ordered(order), {m})
           k == IF index < Len(rest) THEN index ELSE Len(rest)
           moved == DefaultOrder(InsertAt(rest, k + 1, m))
           compact == CompactOrder(order)
<1>1. Len(rest) \in Nat /\ Len(rest) = Cardinality(S) - 1
  BY RestIs
<1>2. k \in 0..Len(rest)
  BY <1>1
<1>3. moved \in OrderOn(S) /\ moved[m] = k /\ SameBut(order, moved, {m})
  BY <1>2, ReinsertIs
<1>4. compact \in OrderOn(S) /\ compact[m] = Cardinality(Ahead(order, m)) /\ SameBut(order, compact, {})
  BY CompactIs
<1>5. SameBut(order, compact, {m})
  BY <1>4 DEF SameBut
<1>6. MoveToIndex(order, m, index) = IF order[m] = index THEN compact ELSE moved
  BY DEF MoveToIndex, Reinsert
<1> HIDE DEF compact, moved
<1>7. CASE order[m] = index
  <2>1. ASSUME Dense(order) PROVE compact[m] = index /\ index < Cardinality(S)
    BY <1>4, <1>7, <2>1, DenseAhead
  <2>2. ASSUME Dense(order) PROVE compact[m] = IF index < Cardinality(S) - 1 THEN index ELSE Cardinality(S) - 1
    <3>1. Cardinality(S) \in Nat
      BY FS_CardinalityType
    <3>2. QED  BY <2>1, <2>2, <3>1
  <2>3. QED  BY <1>1, <1>4, <1>5, <1>6, <1>7, <2>2
<1>8. CASE order[m] # index
  BY <1>1, <1>3, <1>6, <1>8
<1>9. QED  BY <1>7, <1>8

LEMMA MoveNextToIs ==
  ASSUME NEW S, IsFiniteSet(S), NEW order \in OrderOn(S), NEW m \in S, NEW other \in S
  PROVE  LET before == MoveBefore(order, m, other)
             after == MoveAfter(order, m, other) IN
         /\ before \in OrderOn(S) /\ after \in OrderOn(S)
         /\ SameBut(order, before, {m}) /\ SameBut(order, after, {m})
         /\ m # other => Adjacent(before, m, other) /\ Adjacent(after, other, m)
<1> DEFINE rest == Without(Ordered(order), {m})
           compact == CompactOrder(order)
           before == MoveBefore(order, m, other)
           after == MoveAfter(order, m, other)
           f == FirstOf(rest, other)
<1>1. compact \in OrderOn(S) /\ SameBut(order, compact, {})
  BY CompactIs
<1>2. SameBut(order, compact, {m})
  BY <1>1 DEF SameBut
<1>3. CASE m = other
  <2>1. before = compact /\ after = compact
    BY <1>3 DEF MoveBefore, MoveAfter
  <2> HIDE DEF compact, before, after
  <2>2. QED  BY <1>1, <1>2, <1>3, <2>1 DEF before, after
<1>4. CASE m # other
  <2>1. /\ ToSet(rest) = S \ {m} /\ Len(rest) \in Nat /\ DOMAIN rest = 1..Len(rest)
        /\ \A i, j \in DOMAIN rest : rest[i] = rest[j] => i = j
    BY RestIs
  <2> DEFINE to(k) == DefaultOrder(InsertAt(rest, k + 1, m))
  <2>2. \A k \in 0..Len(rest) :
          /\ to(k) \in OrderOn(S) /\ to(k)[m] = k /\ SameBut(order, to(k), {m})
          /\ \A i \in DOMAIN rest : to(k)[rest[i]] = IF i <= k THEN i - 1 ELSE i
    BY ReinsertIs
  <2>3. f \in DOMAIN rest /\ rest[f] = other
    <3> HIDE DEF rest
    <3> DEFINE I == {i \in 1..Len(rest) : rest[i] = other}
    <3>1. PICK i \in DOMAIN rest : rest[i] = other
      BY <1>4, <2>1 DEF ToSet
    <3>2. I = {i}
      BY <2>1, <3>1
    <3>3. f = CHOOSE x \in I : \A y \in I : x <= y
      BY <3>2 DEF FirstOf, SelectInSeq, Min
    <3>4. i <= i
      BY <2>1, <3>1
    <3> HIDE DEF I
    <3>5. f = i
      BY <3>2, <3>3, <3>4
    <3>6. QED  BY <3>1, <3>5
  <2>4. before = to(f - 1) /\ after = to(f)
    BY <1>4 DEF MoveBefore, MoveAfter, Reinsert
  <2> HIDE DEF f, rest, to
  <2>5. f \in Nat /\ f - 1 \in 0..Len(rest) /\ f \in 0..Len(rest) /\ ~ (f <= f - 1) /\ f <= f
    BY <2>1, <2>3
  <2>6. /\ to(f - 1)[m] = f - 1 /\ to(f - 1)[other] = f
        /\ to(f)[m] = f /\ to(f)[other] = f - 1
    BY <2>2, <2>3, <2>5
  <2>7. before[other] = before[m] + 1 /\ after[m] = after[other] + 1
    BY <2>4, <2>5, <2>6
  <2>8. before \in OrderOn(S) /\ after \in OrderOn(S)
    BY <2>2, <2>4, <2>5
  <2>9. /\ DOMAIN before = S /\ \A c \in S : before[c] \in Nat
        /\ DOMAIN after = S /\ \A c \in S : after[c] \in Nat
    BY <2>8 DEF OrderOn
  <2>10. Adjacent(before, m, other) /\ Adjacent(after, other, m)
    BY <2>7, <2>9 DEF Adjacent, Before
  <2>11. QED  BY <2>2, <2>4, <2>5, <2>8, <2>10
<1>5. QED  BY <1>3, <1>4

LEMMA SwapIs ==
  ASSUME NEW S, NEW order \in OrderOn(S), NEW m \in S, NEW other \in S
  PROVE  LET new == Swap(order, m, other) IN
         /\ new \in OrderOn(S)
         /\ SameBut(order, new, {m, other})
         /\ new[m] = order[other] /\ new[other] = order[m]
<1> DEFINE new == Swap(order, m, other)
<1>1. order \in [S -> Nat] /\ DOMAIN order = S /\ \A a, b \in S : order[a] = order[b] => a = b
  BY DEF OrderOn, IsInjective
<1>2. new \in [S -> Nat] /\ DOMAIN new = S
  BY <1>1 DEF Swap
<1>3. \A a \in S : new[a] = IF a = other THEN order[m] ELSE IF a = m THEN order[other] ELSE order[a]
  BY <1>1 DEF Swap
<1> HIDE DEF new
<1>4. \A a, b \in S : new[a] = new[b] => a = b
  BY <1>1, <1>3
<1>5. SameBut(order, new, {m, other})
  BY <1>1, <1>3 DEF SameBut, Before
<1>6. new[m] = order[other] /\ new[other] = order[m]
  BY <1>3
<1>7. QED  BY <1>2, <1>4, <1>5, <1>6 DEF new, OrderOn, IsInjective

\* Whoever has an order, the reordering he asks for gives him one, and it is the
\* one that is meant.
LEMMA ReorderIs ==
  ASSUME NEW S, IsFiniteSet(S), NEW ids, NEW order, NEW max \in Nat,
         NEW op \in Operations(ToSet(ids), max),
         WorkingOrder(order, ids) \in OrderOn(S),
         Permitted(WorkingOrder(order, ids), ids, op)
  PROVE  LET new == ApplyReorder(order, ids, op) IN
         /\ new \in OrderOn(IF op.type = "set_order" THEN ToSet(ids) ELSE S)
         /\ Meant(WorkingOrder(order, ids), new, op)
<1> DEFINE from == WorkingOrder(order, ids)
           new == ApplyReorder(order, ids, op)
<1>1. from \in OrderOn(S) /\ Permitted(from, ids, op) /\ DOMAIN from = S
  BY DEF OrderOn
<1> HIDE DEF from
<1>2. CASE op \in [type : {"move_to_index"}, memory : ToSet(ids), index : 0..max]
  <2>1. op.type = "move_to_index" /\ op.index \in Nat
    BY <1>2
  <2>2. op.memory \in S
    BY <1>1, <2>1 DEF Permitted
  <2>3. new = MoveToIndex(from, op.memory, op.index)
    BY <2>1 DEF ApplyReorder, from
  <2> DEFINE n == Cardinality(S)
  <2> HIDE DEF new
  <2>4. /\ new \in OrderOn(S) /\ SameBut(from, new, {op.memory})
        /\ Dense(from) => new[op.memory] = IF op.index < n - 1 THEN op.index ELSE n - 1
    <3>1. new \in OrderOn(S)
      BY <1>1, <2>1, <2>2, <2>3, MoveToIndexIs
    <3>2. SameBut(from, new, {op.memory})
      BY <1>1, <2>1, <2>2, <2>3, MoveToIndexIs
    <3>3. Dense(from) => new[op.memory] = IF op.index < n - 1 THEN op.index ELSE n - 1
      BY <1>1, <2>1, <2>2, <2>3, MoveToIndexIs
    <3>4. QED  BY <3>1, <3>2, <3>3
  <2>5. n \in Nat /\ n > 0
    BY <2>2, FS_CardinalityType, FS_EmptySet
  <2>6. (CHOOSE j \in {op.index, n - 1} : j <= op.index /\ j < n)
          = IF op.index < n - 1 THEN op.index ELSE n - 1
    BY <2>1, <2>5, ClippedIndex
  <2>7. Meant(from, new, op)
    BY <1>1, <2>1, <2>4, <2>6 DEF Meant
  <2>8. QED  BY <2>1, <2>4, <2>7 DEF new, from
<1>3. CASE op \in [type : {"swap", "move_before", "move_after"}, memory : ToSet(ids), other : ToSet(ids)]
  <2>1. op.type \in {"swap", "move_before", "move_after"}
    BY <1>3
  <2>2. op.memory \in S /\ op.other \in S
    BY <1>1, <2>1 DEF Permitted
  <2>3. CASE op.type = "swap"
    <3>1. new = Swap(from, op.memory, op.other)
      BY <2>3 DEF ApplyReorder, from
    <3> HIDE DEF new
    <3>2. /\ new \in OrderOn(S) /\ SameBut(from, new, {op.memory, op.other})
          /\ new[op.memory] = from[op.other] /\ new[op.other] = from[op.memory]
      BY <1>1, <2>2, <3>1, SwapIs
    <3>3. QED  BY <2>3, <3>2 DEF Meant, new, from
  <2>4. CASE op.type = "move_before"
    <3>1. new = MoveBefore(from, op.memory, op.other)
      BY <2>4 DEF ApplyReorder, from
    <3> HIDE DEF new
    <3>2. /\ new \in OrderOn(S) /\ SameBut(from, new, {op.memory})
          /\ op.memory # op.other => Adjacent(new, op.memory, op.other)
      BY <1>1, <2>2, <3>1, MoveNextToIs
    <3>3. QED  BY <2>4, <3>2 DEF Meant, new, from
  <2>5. CASE op.type = "move_after"
    <3>1. new = MoveAfter(from, op.memory, op.other)
      BY <2>5 DEF ApplyReorder, from
    <3> HIDE DEF new
    <3>2. /\ new \in OrderOn(S) /\ SameBut(from, new, {op.memory})
          /\ op.memory # op.other => Adjacent(new, op.other, op.memory)
      BY <1>1, <2>2, <3>1, MoveNextToIs
    <3>3. QED  BY <2>5, <3>2 DEF Meant, new, from
  <2>6. QED  BY <2>1, <2>3, <2>4, <2>5
<1>4. CASE op \in [type : {"set_order"}, ids : SeqOf(ToSet(ids), max)]
  <2>1. op.type = "set_order" /\ op.ids \in SeqOf(ToSet(ids), max)
    BY <1>4
  <2>2. op.ids \in Seq(ToSet(ids)) /\ ToSet(op.ids) = ToSet(ids)
    <3>1. PICK n \in 0..max : op.ids \in [1..n -> ToSet(ids)]
      BY <2>1 DEF SeqOf
    <3>2. QED  BY <1>1, <2>1, <3>1 DEF Permitted
  <2>3. new = DefaultOrder(op.ids)
    BY <2>1 DEF ApplyReorder
  <2> HIDE DEF new
  <2>4. /\ new \in [ToSet(op.ids) -> Nat] /\ IsInjective(new)
        /\ \A m \in ToSet(op.ids) :
             /\ new[m] + 1 \in DOMAIN op.ids /\ op.ids[new[m] + 1] = m
             /\ \A i \in DOMAIN op.ids : op.ids[i] = m => i <= new[m] + 1
    BY <2>2, <2>3, DefaultOrderIs
  <2>5. Len(op.ids) \in Nat /\ DOMAIN op.ids = 1..Len(op.ids)
    BY <2>2, LenProperties
  <2>6. ASSUME NEW i \in DOMAIN op.ids, NEW j \in DOMAIN op.ids, i < j, op.ids[i] # op.ids[j],
               \A k \in DOMAIN op.ids : k > i => op.ids[k] # op.ids[i]
        PROVE  Before(new, op.ids[i], op.ids[j])
    <3>1. op.ids[i] \in ToSet(op.ids) /\ op.ids[j] \in ToSet(op.ids)
      BY DEF ToSet
    <3>2. new[op.ids[i]] \in Nat /\ new[op.ids[j]] \in Nat
      BY <2>4, <3>1
    <3>3. new[op.ids[i]] + 1 <= i
      BY <2>4, <2>5, <2>6, <3>1, <3>2
    <3>4. j <= new[op.ids[j]] + 1
      BY <2>4, <3>1
    <3>5. QED  BY <2>5, <2>6, <3>2, <3>3, <3>4 DEF Before
  <2>7. Meant(from, new, op)
    BY <2>1, <2>6 DEF Meant
  <2>8. QED  BY <2>1, <2>2, <2>4, <2>7 DEF OrderOn, new, from
<1>5. QED  BY <1>2, <1>3, <1>4 DEF Operations

-----------------------------------------------------------------------------
(* The documents of a relationship: what is made of one that is in order   *)
(* is in order.                                                            *)

LEMMA ListOf ==
  ASSUME NEW S, NEW n \in Nat, NEW ids \in SeqOf(S, n)
  PROVE  ids \in Seq(S) /\ Len(ids) <= n
<1>1. PICK k \in 0..n : ids \in [1..k -> S]
  BY DEF SeqOf
<1>2. QED  BY <1>1

LEMMA EmptyOrder ==
  /\ Unordered \in OrderOn({})
  /\ \A S : \A order \in OrderOn(S) : order = Unordered <=> S = {}
<1>1. DOMAIN Unordered = {}
  BY DEF Unordered
<1>2. Unordered \in [{} -> Nat]
  BY DEF Unordered
<1>3. Unordered \in OrderOn({})
  BY <1>1, <1>2 DEF OrderOn, IsInjective
<1>4. ASSUME NEW S, NEW order \in OrderOn(S) PROVE order = Unordered <=> S = {}
  <2>1. order \in [S -> Nat] /\ DOMAIN order = S
    BY DEF OrderOn
  <2>2. ASSUME S = {} PROVE order = Unordered
    BY <1>2, <2>1, <2>2
  <2>3. QED  BY <1>1, <2>1, <2>2
<1>5. QED  BY <1>3, <1>4

LEMMA WorkingOrderIs ==
  ASSUME NEW S, NEW ids \in Seq(S), NEW R, NEW order \in OrderOn(R)
  PROVE  /\ order = Unordered => WorkingOrder(order, ids) \in OrderOn(ToSet(ids))
         /\ order # Unordered => WorkingOrder(order, ids) \in OrderOn(R)
<1>1. DefaultOrder(ids) \in OrderOn(ToSet(ids))
  BY DefaultOrderIs DEF OrderOn
<1>2. QED  BY <1>1 DEF WorkingOrder

\* New members come after all there are.
LEMMA ExtendedIs ==
  ASSUME NEW R, IsFiniteSet(R), NEW order \in OrderOn(R), NEW S, NEW ids \in Seq(S)
  PROVE  Extended(order, ids) \in OrderOn(R \cup ToSet(ids))
<1> DEFINE P == Positions(order)
           highest == CHOOSE p \in P : \A q \in P : q <= p
           top == IF order = Unordered THEN -1 ELSE highest
           last(m) == LastOf(ids, m)
           new == [m \in R \cup ToSet(ids) |-> IF m \in ToSet(ids) THEN top + last(m) ELSE order[m]]
<1>1. order \in [R -> Nat] /\ DOMAIN order = R /\ \A a, b \in R : order[a] = order[b] => a = b
  BY DEF OrderOn, IsInjective
<1>2. Extended(order, ids) = new
  BY <1>1 DEF Extended
<1>3. \A m \in ToSet(ids) : last(m) \in Nat \ {0} /\ ids[last(m)] = m
  <2>1. \A m \in ToSet(ids) : last(m) \in DOMAIN ids /\ ids[last(m)] = m
    BY LastPlace
  <2>2. Len(ids) \in Nat /\ DOMAIN ids = 1..Len(ids)
    BY LenProperties
  <2> HIDE DEF last
  <2>3. QED  BY <2>1, <2>2
<1>4. top \in Int /\ top >= -1 /\ \A m \in R : order[m] <= top
  <2>1. CASE order = Unordered
    <3>1. R = {}
      BY <2>1, EmptyOrder
    <3>2. QED  BY <2>1, <3>1
  <2>2. CASE order # Unordered
    <3>1. R # {}
      BY <2>2, EmptyOrder
    <3>2. P = {order[m] : m \in R}
      BY <1>1 DEF Positions
    <3>3. P \in SUBSET Nat /\ P # {} /\ \A m \in R : order[m] \in P
      BY <1>1, <3>1, <3>2
    <3> HIDE DEF P
    <3> DEFINE by == Ordered(order)
               n == Cardinality(R)
    <3>4. /\ by \in [1..n -> R] /\ DOMAIN by = 1..n /\ n \in Nat /\ ToSet(by) = R
          /\ \A i, j \in DOMAIN by : order[by[i]] < order[by[j]] <=> i < j
      BY <1>1, OrderedIs DEF OrderOn
    <3>5. n > 0
      BY <3>1, <3>4, FS_EmptySet
    <3> HIDE DEF by, n
    <3>6. ASSUME NEW m \in R PROVE order[m] <= order[by[n]]
      <4>1. PICK i \in 1..n : m = by[i]
        BY <3>4 DEF ToSet
      <4>2. n \in 1..n /\ ~ (n < i)
        BY <3>4, <3>5
      <4>3. by[n] \in R /\ ~ (order[by[n]] < order[m])
        BY <3>4, <4>1, <4>2
      <4>4. QED  BY <1>1, <4>3
    <3>7. by[n] \in R
      BY <3>4, <3>5
    <3>8. order[by[n]] \in P /\ \A q \in P : q <= order[by[n]]
      BY <3>2, <3>3, <3>6, <3>7
    <3>9. highest \in P /\ \A q \in P : q <= highest
      BY <3>8
    <3>10. top = highest
      BY <2>2
    <3> HIDE DEF highest, top
    <3>11. highest \in Nat /\ \A m \in R : order[m] <= highest
      BY <3>3, <3>9
    <3>12. QED  BY <3>10, <3>11
  <2>3. QED  BY <2>1, <2>2
<1> HIDE DEF top, last
<1>5. \A m \in ToSet(ids) : new[m] = top + last(m) /\ new[m] \in Nat /\ new[m] > top
  BY <1>3, <1>4
<1>6. \A m \in R : m \notin ToSet(ids) => new[m] = order[m] /\ new[m] \in Nat /\ new[m] <= top
  BY <1>1, <1>4
<1>7. new \in [R \cup ToSet(ids) -> Nat] /\ DOMAIN new = R \cup ToSet(ids)
  BY <1>5, <1>6
<1> HIDE DEF new
<1>8. ASSUME NEW a \in R \cup ToSet(ids), NEW b \in R \cup ToSet(ids), new[a] = new[b] PROVE a = b
  <2>1. CASE a \in ToSet(ids) /\ b \in ToSet(ids)
    <3>1. last(a) = last(b)
      BY <1>3, <1>4, <1>5, <1>8, <2>1
    <3>2. QED  BY <1>3, <2>1, <3>1
  <2>2. CASE a \notin ToSet(ids) /\ b \notin ToSet(ids)
    BY <1>1, <1>6, <1>8, <2>2
  <2>3. CASE a \in ToSet(ids) /\ b \notin ToSet(ids)
    BY <1>4, <1>5, <1>6, <1>8, <2>3
  <2>4. CASE a \notin ToSet(ids) /\ b \in ToSet(ids)
    BY <1>4, <1>5, <1>6, <1>8, <2>4
  <2>5. QED  BY <2>1, <2>2, <2>3, <2>4
<1>9. QED  BY <1>2, <1>7, <1>8 DEF OrderOn, IsInjective

LEMMA ReducedIs ==
  ASSUME NEW R, IsFiniteSet(R), NEW order \in OrderOn(R), NEW gone
  PROVE  Reduced(order, gone) \in OrderOn(R \ gone)
<1> DEFINE left == [m \in R \ gone |-> order[m]]
<1>1. order \in [R -> Nat] /\ DOMAIN order = R /\ \A a, b \in R : order[a] = order[b] => a = b
  BY DEF OrderOn, IsInjective
<1>2. left \in OrderOn(R \ gone)
  BY <1>1 DEF OrderOn, IsInjective
<1>3. IsFiniteSet(R \ gone)
  BY FS_Difference
<1>4. Reduced(order, gone) = IF gone = {} THEN order ELSE CompactOrder(left)
  BY <1>1 DEF Reduced
<1> HIDE DEF left
<1>5. CompactOrder(left) \in OrderOn(R \ gone)
  BY <1>2, <1>3, CompactIs
<1>6. gone = {} => order \in OrderOn(R \ gone)
  OBVIOUS
<1>7. QED  BY <1>4, <1>5, <1>6

\* One list after another, some left out.
LEMMA JoinedIs ==
  ASSUME NEW S, NEW ids \in Seq(S), NEW more \in Seq(S), NEW gone
  PROVE  LET all == Without(ids \o more, gone) IN
         /\ all \in Seq(S)
         /\ ToSet(all) = (ToSet(ids) \cup ToSet(more)) \ gone
         /\ (IsInjective(ids) /\ IsInjective(more) /\ ToSet(ids) \cap ToSet(more) = {})
              => IsInjective(all)
<1> DEFINE join == ids \o more
           all == Without(join, gone)
           n == Len(ids)
           l == Len(more)
<1>1. n \in Nat /\ l \in Nat /\ DOMAIN ids = 1..n /\ DOMAIN more = 1..l
  BY LenProperties
<1>2. /\ join \in Seq(S) /\ Len(join) = n + l
      /\ \A i \in 1..(n + l) : join[i] = IF i <= n THEN ids[i] ELSE more[i - n]
  BY ConcatProperties
<1> HIDE DEF join
<1>3. DOMAIN join = 1..(n + l)
  BY <1>2, LenProperties
<1>4. \A i \in 1..n : i \in 1..(n + l) /\ join[i] = ids[i]
  BY <1>1, <1>2
<1>5. \A i \in 1..l : n + i \in 1..(n + l) /\ join[n + i] = more[i]
  <2> SUFFICES ASSUME NEW i \in 1..l PROVE n + i \in 1..(n + l) /\ join[n + i] = more[i]
    OBVIOUS
  <2>1. n + i \in 1..(n + l) /\ ~ (n + i <= n) /\ n + i - n = i
    BY <1>1
  <2>2. QED  BY <1>2, <2>1
<1>6. \A i \in 1..(n + l) : i \in 1..n \/ (i - n \in 1..l /\ n + (i - n) = i)
  BY <1>1
<1>7. ToSet(join) = ToSet(ids) \cup ToSet(more)
  <2>1. ASSUME NEW x \in ToSet(join) PROVE x \in ToSet(ids) \cup ToSet(more)
    <3>1. PICK i \in 1..(n + l) : x = join[i]
      BY <1>3 DEF ToSet
    <3>2. QED  BY <1>1, <1>4, <1>5, <1>6, <3>1 DEF ToSet
  <2>2. ASSUME NEW x \in ToSet(ids) PROVE x \in ToSet(join)
    BY <1>1, <1>3, <1>4 DEF ToSet
  <2>3. ASSUME NEW x \in ToSet(more) PROVE x \in ToSet(join)
    BY <1>1, <1>3, <1>5 DEF ToSet
  <2>4. QED  BY <2>1, <2>2, <2>3
<1>8. /\ all \in Seq(S) /\ ToSet(all) = ToSet(join) \ gone
      /\ \E at \in [DOMAIN all -> DOMAIN join] :
           /\ \A k \in DOMAIN all : all[k] = join[at[k]]
           /\ \A a, b \in DOMAIN all : at[a] < at[b] <=> a < b
           /\ \A a, b \in DOMAIN all : at[a] = at[b] => a = b
  BY <1>2, WithoutIs, ZenonT(30)
<1> HIDE DEF all
<1>9. ASSUME IsInjective(ids), IsInjective(more), ToSet(ids) \cap ToSet(more) = {}
      PROVE  IsInjective(all)
  <2>1. \A i \in 1..n : join[i] \in ToSet(ids)
    BY <1>1, <1>4 DEF ToSet
  <2>2. \A i \in 1..l : join[n + i] \in ToSet(more)
    BY <1>1, <1>5 DEF ToSet
  <2>3. ASSUME NEW i \in 1..(n + l), NEW j \in 1..(n + l), join[i] = join[j] PROVE i = j
    <3>1. CASE i \in 1..n /\ j \in 1..n
      BY <1>1, <1>4, <1>9, <2>3, <3>1 DEF IsInjective
    <3>2. CASE i \notin 1..n /\ j \notin 1..n
      <4>1. i - n \in 1..l /\ n + (i - n) = i /\ j - n \in 1..l /\ n + (j - n) = j
        BY <1>6, <3>2
      <4>2. more[i - n] = more[j - n]
        BY <1>5, <2>3, <4>1
      <4>3. i - n = j - n
        BY <1>1, <1>9, <4>1, <4>2 DEF IsInjective
      <4>4. QED  BY <4>1, <4>3
    <3>3. CASE i \in 1..n /\ j \notin 1..n
      BY <1>6, <1>9, <2>1, <2>2, <2>3, <3>3
    <3>4. CASE i \notin 1..n /\ j \in 1..n
      BY <1>6, <1>9, <2>1, <2>2, <2>3, <3>4
    <3>5. QED  BY <3>1, <3>2, <3>3, <3>4
  <2>4. PICK at \in [DOMAIN all -> DOMAIN join] :
           /\ \A k \in DOMAIN all : all[k] = join[at[k]]
           /\ \A a, b \in DOMAIN all : at[a] = at[b] => a = b
    BY <1>8
  <2>5. QED  BY <1>3, <2>3, <2>4 DEF IsInjective
<1>10. QED  BY <1>7, <1>8, <1>9 DEF all, join

Doc(doc) == IsRelationship(doc) /\ IsInjective(doc.order)

\* What a relationship promises while nothing that lists its members overlaps.
Sound(doc) ==
  /\ IsInjective(doc.related)
  /\ doc.order = Unordered \/ DOMAIN doc.order = ToSet(doc.related)
  /\ doc.count = Cardinality(ToSet(doc.related))

LEMMA DocFields ==
  ASSUME NEW doc, Doc(doc)
  PROVE  /\ doc.exists \in BOOLEAN /\ doc.related \in Seq(Memories) /\ doc.count \in Nat
         /\ doc.version \in Nat
         /\ doc.order \in OrderOn(DOMAIN doc.order) /\ DOMAIN doc.order \subseteq Memories
         /\ IsFiniteSet(DOMAIN doc.order) /\ IsFiniteSet(ToSet(doc.related))
         /\ ToSet(doc.related) \subseteq Memories
         /\ doc = [exists |-> doc.exists, related |-> doc.related, count |-> doc.count,
                   order |-> doc.order, version |-> doc.version]
<1>1. doc \in [exists : BOOLEAN, related : Seq(Memories), count : Nat, order : {doc.order},
               version : Nat]
  BY DEF Doc, IsRelationship
<1>2. doc.order \in OrderOn(DOMAIN doc.order) /\ DOMAIN doc.order \subseteq Memories
  BY DEF Doc, IsRelationship, OrderOn
<1>3. IsFiniteSet(DOMAIN doc.order)
  BY <1>2, ConstantsAssumption, FS_Subset DEF ConstantsAssumption
<1>4. doc.related \in Seq(Memories)
  BY <1>1
<1>5. IsFiniteSet(ToSet(doc.related))
  BY <1>4, ListCardinality
<1>6. ToSet(doc.related) \subseteq Memories
  <2>1. \A i \in DOMAIN doc.related : doc.related[i] \in Memories
    BY <1>4, ElementOfSeq, LenProperties
  <2>2. QED  BY <2>1 DEF ToSet
<1>7. QED  BY <1>1, <1>2, <1>3, <1>5, <1>6

LEMMA DocMade ==
  ASSUME NEW exists \in BOOLEAN, NEW related \in Seq(Memories), NEW count \in Nat,
         NEW R \in SUBSET Memories, NEW order \in OrderOn(R), NEW version \in Nat
  PROVE  Doc([exists |-> exists, related |-> related, count |-> count, order |-> order,
              version |-> version])
<1>1. order \in [R -> Nat] /\ DOMAIN order = R /\ IsInjective(order)
  BY DEF OrderOn
<1>2. QED  BY <1>1 DEF Doc, IsRelationship

LEMMA AbsentIs == Doc(Absent) /\ Sound(Absent) /\ ToSet(Absent.related) = {}
<1>1. Unordered \in OrderOn({}) /\ << >> \in Seq(Memories)
  BY EmptyOrder
<1>2. Doc(Absent)
  BY <1>1, DocMade DEF Absent
<1>3. ToSet(<<>>) = {} /\ IsInjective(<<>>)
  BY DEF ToSet, IsInjective
<1>4. Cardinality({}) = 0
  BY FS_EmptySet
<1>5. QED  BY <1>2, <1>3, <1>4 DEF Absent, Sound

LEMMA FreshIs ==
  ASSUME NEW ids \in Members
  PROVE  /\ Doc(Fresh(ids)) /\ Sound(Fresh(ids))
         /\ Doc([Fresh(ids) EXCEPT !.order = Unordered])
         /\ Sound([Fresh(ids) EXCEPT !.order = Unordered])
         /\ Fresh(ids).version = 1 /\ [Fresh(ids) EXCEPT !.order = Unordered].version = 1
         /\ ids \in Seq(Memories) /\ IsInjective(ids) /\ ToSet(ids) \subseteq Memories
<1>1. ids \in SeqOf(Memories, Cardinality(Memories)) /\ IsInjective(ids)
  BY DEF Members
<1>2. Cardinality(Memories) \in Nat
  BY ConstantsAssumption, FS_CardinalityType DEF ConstantsAssumption
<1>3. ids \in Seq(Memories) /\ Len(ids) \in Nat
  BY <1>1, <1>2, ListOf
<1>4. Len(ids) = Cardinality(ToSet(ids))
  BY <1>1, <1>3, ListCardinality
<1>5. ToSet(ids) \subseteq Memories
  <2>1. \A i \in DOMAIN ids : ids[i] \in Memories
    BY <1>3, ElementOfSeq, LenProperties
  <2>2. QED  BY <2>1 DEF ToSet
<1>6. DefaultOrder(ids) \in OrderOn(ToSet(ids)) /\ DOMAIN DefaultOrder(ids) = ToSet(ids)
  BY <1>3, DefaultOrderIs DEF OrderOn
<1>7. Unordered \in OrderOn({}) /\ {} \subseteq Memories
  BY EmptyOrder
<1>8. Doc(Fresh(ids))
  BY <1>3, <1>5, <1>6, DocMade DEF Fresh
<1>9. Doc([Fresh(ids) EXCEPT !.order = Unordered])
  <2>1. [Fresh(ids) EXCEPT !.order = Unordered] =
          [exists |-> TRUE, related |-> ids, count |-> Len(ids), order |-> Unordered, version |-> 1]
    <3> DEFINE fresh == Fresh(ids)
               places == DefaultOrder(ids)
               there == TRUE
    <3>1. fresh = [exists |-> there, related |-> ids, count |-> Len(ids), order |-> places,
                   version |-> 1]
      BY DEF Fresh
    <3> HIDE DEF fresh, places, there
    <3>2. [fresh EXCEPT !.order = Unordered] =
            [exists |-> there, related |-> ids, count |-> Len(ids), order |-> Unordered,
             version |-> 1]
      BY <3>1
    <3>3. QED  BY <3>2 DEF fresh, there
  <2>2. Doc([exists |-> TRUE, related |-> ids, count |-> Len(ids), order |-> Unordered, version |-> 1])
    BY <1>3, <1>7, DocMade
  <2>3. QED  BY <2>1, <2>2
<1>10. Fresh(ids).version = 1 /\ [Fresh(ids) EXCEPT !.order = Unordered].version = 1
  BY DEF Fresh
<1>11. Sound(Fresh(ids)) /\ Sound([Fresh(ids) EXCEPT !.order = Unordered])
  BY <1>1, <1>4, <1>6 DEF Sound, Fresh
<1>12. QED  BY <1>1, <1>3, <1>5, <1>8, <1>9, <1>10, <1>11

\* The document an update writes.
LEMMA UpdatedIs ==
  ASSUME NEW doc, Doc(doc), NEW added \in Seq(Memories), NEW removed
  PROVE  LET new == Updated(doc, added, removed) IN
         /\ Doc(new)
         /\ new.exists = doc.exists /\ new.version = doc.version + 1
         /\ ToSet(new.related) = (ToSet(doc.related) \cup ToSet(added)) \ removed
         /\ (Sound(doc) /\ IsInjective(added) /\ ToSet(doc.related) \cap ToSet(added) = {})
              => Sound(new)
<1> DEFINE from == WorkingOrder(doc.order, doc.related)
           R == IF doc.order = Unordered THEN ToSet(doc.related) ELSE DOMAIN doc.order
           T == (R \cup ToSet(added)) \ removed
           all == Without(doc.related \o added, removed)
           order == Reduced(Extended(from, added), removed)
           new == Updated(doc, added, removed)
<1>1. /\ doc.exists \in BOOLEAN /\ doc.related \in Seq(Memories) /\ doc.version \in Nat
      /\ doc.order \in OrderOn(DOMAIN doc.order) /\ DOMAIN doc.order \subseteq Memories
      /\ IsFiniteSet(DOMAIN doc.order) /\ IsFiniteSet(ToSet(doc.related))
      /\ ToSet(doc.related) \subseteq Memories
      /\ doc = [exists |-> doc.exists, related |-> doc.related, count |-> doc.count,
                order |-> doc.order, version |-> doc.version]
  BY DocFields
<1>2. R \subseteq Memories /\ IsFiniteSet(R) /\ from \in OrderOn(R)
  BY <1>1, WorkingOrderIs
<1>3. ToSet(added) \subseteq Memories /\ IsFiniteSet(ToSet(added))
  <2>1. \A i \in DOMAIN added : added[i] \in Memories
    BY ElementOfSeq, LenProperties
  <2>2. QED  BY <2>1, ListCardinality DEF ToSet
<1>4. order \in OrderOn(T) /\ T \subseteq Memories
  <2> HIDE DEF from, R
  <2>1. Extended(from, added) \in OrderOn(R \cup ToSet(added))
    BY <1>2, ExtendedIs
  <2>2. IsFiniteSet(R \cup ToSet(added))
    BY <1>2, <1>3, FS_Union
  <2>3. QED  BY <1>2, <1>3, <2>1, <2>2, ReducedIs
<1>5. all \in Seq(Memories) /\ ToSet(all) = (ToSet(doc.related) \cup ToSet(added)) \ removed
  BY <1>1, JoinedIs
<1>6. (IsInjective(doc.related) /\ IsInjective(added) /\ ToSet(doc.related) \cap ToSet(added) = {})
        => IsInjective(all)
  BY <1>1, JoinedIs
<1>7. Len(all) \in Nat /\ (IsInjective(all) => Cardinality(ToSet(all)) = Len(all))
  BY <1>5, LenProperties, ListCardinality
<1>8. new = [exists |-> doc.exists, related |-> all, count |-> Len(all), order |-> order,
             version |-> doc.version + 1]
  <2>1. new = [doc EXCEPT !.related = all, !.count = Len(all), !.order = order, !.version = @ + 1]
    BY DEF Updated
  <2> HIDE DEF all, order, new
  <2>2. QED  BY <1>1, <2>1
<1> HIDE DEF all, order, new, from
<1>9. Doc(new)
  <2> HIDE DEF T
  <2>1. Doc([exists |-> doc.exists, related |-> all, count |-> Len(all), order |-> order,
             version |-> doc.version + 1])
    BY <1>1, <1>4, <1>5, <1>7, DocMade
  <2>2. QED  BY <1>8, <2>1
<1>10. DOMAIN order = T
  BY <1>4 DEF OrderOn
<1>11. ASSUME Sound(doc), IsInjective(added), ToSet(doc.related) \cap ToSet(added) = {}
       PROVE  Sound(new)
  <2>1. IsInjective(all)
    BY <1>6, <1>11 DEF Sound
  <2>2. R = ToSet(doc.related)
    BY <1>11 DEF Sound
  <2>3. DOMAIN order = ToSet(all)
    BY <1>5, <1>10, <2>2
  <2>4. QED  BY <1>7, <1>8, <2>1, <2>3 DEF Sound
<1>12. QED  BY <1>5, <1>8, <1>9, <1>11 DEF new

\* The document a reordering writes.
LEMMA ReorderedIs ==
  ASSUME NEW doc, Doc(doc), NEW max \in Nat, NEW op \in Operations(ToSet(doc.related), max),
         Permitted(WorkingOrder(doc.order, doc.related), doc.related, op)
  PROVE  LET order == ApplyReorder(doc.order, doc.related, op)
             new == [doc EXCEPT !.order = order, !.version = @ + 1] IN
         /\ Doc(new)
         /\ new.exists = doc.exists /\ new.version = doc.version + 1
         /\ new.related = doc.related /\ new.count = doc.count
         /\ Sound(doc) => Sound(new)
         /\ Meant(WorkingOrder(doc.order, doc.related), order, op)
<1> DEFINE from == WorkingOrder(doc.order, doc.related)
           order == ApplyReorder(doc.order, doc.related, op)
           R == IF doc.order = Unordered THEN ToSet(doc.related) ELSE DOMAIN doc.order
           T == IF op.type = "set_order" THEN ToSet(doc.related) ELSE R
           new == [doc EXCEPT !.order = order, !.version = @ + 1]
<1>1. /\ doc.exists \in BOOLEAN /\ doc.related \in Seq(Memories) /\ doc.version \in Nat
      /\ doc.order \in OrderOn(DOMAIN doc.order) /\ DOMAIN doc.order \subseteq Memories
      /\ IsFiniteSet(DOMAIN doc.order) /\ IsFiniteSet(ToSet(doc.related))
      /\ ToSet(doc.related) \subseteq Memories /\ doc.count \in Nat
      /\ doc = [exists |-> doc.exists, related |-> doc.related, count |-> doc.count,
                order |-> doc.order, version |-> doc.version]
  BY DocFields
<1>2. R \subseteq Memories /\ IsFiniteSet(R) /\ from \in OrderOn(R)
  BY <1>1, WorkingOrderIs
<1> HIDE DEF R
<1>3. order \in OrderOn(T)
  BY <1>2, ReorderIs
<1>4. Meant(from, order, op)
  BY <1>2, ReorderIs
<1>5. T \subseteq Memories
  BY <1>1, <1>2
<1> HIDE DEF order, T
<1>6. new = [exists |-> doc.exists, related |-> doc.related, count |-> doc.count, order |-> order,
             version |-> doc.version + 1]
  <2>1. new = [doc EXCEPT !.order = order, !.version = @ + 1]
    OBVIOUS
  <2> HIDE DEF new
  <2>2. QED  BY <1>1, <2>1
<1> HIDE DEF new
<1>7. Doc(new)
  BY <1>1, <1>3, <1>5, <1>6, DocMade
<1>8. ASSUME Sound(doc) PROVE Sound(new)
  <2>1. T = ToSet(doc.related)
    BY <1>8 DEF Sound, T, R
  <2>2. DOMAIN order = ToSet(doc.related)
    BY <1>3, <2>1 DEF OrderOn
  <2>3. QED  BY <1>6, <1>8, <2>2 DEF Sound
<1>9. QED  BY <1>4, <1>6, <1>7, <1>8 DEF new, order

-----------------------------------------------------------------------------
(* Requests.  What one has left to do, and what goes with its kind.        *)

Made(kind, phase, rel, doc, tasks, later, ms) ==
  [kind |-> kind, phase |-> phase, rel |-> rel, doc |-> doc, tasks |-> tasks,
   later |-> later, touches |-> ms]

Work(s) == s.tasks \cup s.later

Shape(s) ==
  /\ s.kind = "none" => s = Idle
  /\ s.kind = "create" => \/ s.phase = "insert" /\ s.rel = "none"
                          \/ s.phase = "tasks" /\ s.rel \in Ids
  /\ s.kind = "update" => s.phase \in {"write", "tasks"} /\ s.rel \in Ids
  /\ s.kind = "reorder" => s.phase \in {"write", "tasks"} /\ s.rel \in Ids /\ s.touches = {}
  /\ s.kind = "delete" => s.phase \in {"tasks", "drop"} /\ s.rel \in Ids
  /\ s.kind = "edit" => /\ s.phase = "tasks" /\ s.rel = "none"
                        /\ \A t \in Work(s) : t.kind = "replace"
  /\ s.phase = "drop" => s.kind = "delete" /\ Work(s) = {}
  /\ s.phase \in {"insert", "write"} => s.doc.exists /\ s.doc.version > 0
  /\ \A t \in Work(s) : t.memory \in s.touches

Good(s) == IsRequest(s) /\ Doc(s.doc) /\ Shape(s)

Base ==
  /\ memories \in [Memories -> Memory]
  /\ DOMAIN relationships = Ids /\ \A r \in Ids : Doc(relationships[r])
  /\ DOMAIN requests = Requests /\ \A q \in Requests : Good(requests[q])
  /\ starts \in 0..MaxStarts
  /\ torn \in [memories : SUBSET Memories, relationships : SUBSET Ids]

LEMMA MadeIs ==
  ASSUME NEW kind \in Kinds, NEW phase \in Phases, NEW rel \in Ids \cup {"none"}, NEW doc, Doc(doc),
         NEW tasks \in SUBSET Call, NEW later \in SUBSET Call, NEW ms \in SUBSET Memories
  PROVE  LET s == Made(kind, phase, rel, doc, tasks, later, ms) IN
         /\ s.kind = kind /\ s.phase = phase /\ s.rel = rel /\ s.doc = doc
         /\ s.tasks = tasks /\ s.later = later /\ s.touches = ms
         /\ Work(s) = tasks \cup later
         /\ IsRequest(s)
  BY DEF Made, Work, IsRequest, Doc

LEMMA RequestFields ==
  ASSUME NEW s, IsRequest(s)
  PROVE  /\ s.kind \in Kinds /\ s.phase \in Phases /\ s.rel \in Ids \cup {"none"}
         /\ s.tasks \in SUBSET Call /\ s.later \in SUBSET Call /\ s.touches \in SUBSET Memories
         /\ s = Made(s.kind, s.phase, s.rel, s.doc, s.tasks, s.later, s.touches)
<1>1. s \in [kind : Kinds, phase : Phases, rel : Ids \cup {"none"}, doc : {s.doc},
             tasks : SUBSET Call, later : SUBSET Call, touches : SUBSET Memories]
  BY DEF IsRequest
<1>2. QED  BY <1>1 DEF Made

LEMMA IdleIs ==
  /\ Good(Idle) /\ Idle.kind = "none" /\ Idle.phase = "idle" /\ Idle.rel = "none"
  /\ Idle.doc = Absent /\ Idle.touches = {} /\ Work(Idle) = {}
<1>1. Idle = Made("none", "idle", "none", Absent, {}, {}, {})
  BY DEF Idle, Made
<1>2. "none" \in Kinds /\ "idle" \in Phases /\ Doc(Absent)
  BY AbsentIs DEF Kinds, Phases
<1>3. /\ Idle.kind = "none" /\ Idle.phase = "idle" /\ Idle.rel = "none"
      /\ Idle.doc = Absent /\ Idle.tasks = {} /\ Idle.later = {} /\ Idle.touches = {}
      /\ Work(Idle) = {} /\ IsRequest(Idle)
  <2>1. {} \in SUBSET Call /\ {} \in SUBSET Memories /\ "none" \in Ids \cup {"none"}
    OBVIOUS
  <2>2. /\ Idle.kind = "none" /\ Idle.phase = "idle" /\ Idle.rel = "none"
        /\ Idle.doc = Absent /\ Idle.tasks = {} /\ Idle.later = {} /\ Idle.touches = {}
        /\ Work(Idle) = {}
    BY DEF Idle, Work
  <2>3. IsRequest(Made("none", "idle", "none", Absent, {}, {}, {}))
    BY <1>2, <2>1, MadeIs
  <2>4. QED  BY <1>1, <2>2, <2>3
<1>4. Shape(Idle)
  BY <1>3 DEF Shape
<1>5. QED  BY <1>2, <1>3, <1>4 DEF Good

\* A request with something of it changed.
LEMMA PhaseChanged ==
  ASSUME NEW k, NEW p, NEW r, NEW d, NEW t, NEW l, NEW m, NEW n,
         NEW s, s = Made(k, p, r, d, t, l, m)
  PROVE  [s EXCEPT !.phase = n] = Made(k, n, r, d, t, l, m)
  BY DEF Made

LEMMA RelChanged ==
  ASSUME NEW k, NEW p, NEW r, NEW d, NEW t, NEW l, NEW m, NEW n,
         NEW s, s = Made(k, p, r, d, t, l, m)
  PROVE  [s EXCEPT !.rel = n] = Made(k, p, n, d, t, l, m)
  BY DEF Made

LEMMA DocChanged ==
  ASSUME NEW k, NEW p, NEW r, NEW d, NEW t, NEW l, NEW m, NEW n,
         NEW s, s = Made(k, p, r, d, t, l, m)
  PROVE  [s EXCEPT !.doc = n] = Made(k, p, r, n, t, l, m)
  BY DEF Made

LEMMA TasksChanged ==
  ASSUME NEW k, NEW p, NEW r, NEW d, NEW t, NEW l, NEW m, NEW n,
         NEW s, s = Made(k, p, r, d, t, l, m)
  PROVE  [s EXCEPT !.tasks = n] = Made(k, p, r, d, n, l, m)
  BY DEF Made

LEMMA LaterChanged ==
  ASSUME NEW k, NEW p, NEW r, NEW d, NEW t, NEW l, NEW m, NEW n,
         NEW s, s = Made(k, p, r, d, t, l, m)
  PROVE  [s EXCEPT !.later = n] = Made(k, p, r, d, t, n, m)
  BY DEF Made

LEMMA Changed ==
  ASSUME NEW s, IsRequest(s), NEW new
  PROVE  /\ [s EXCEPT !.tasks = new] =
              Made(s.kind, s.phase, s.rel, s.doc, new, s.later, s.touches)
         /\ [s EXCEPT !.tasks = s.later, !.later = {}] =
              Made(s.kind, s.phase, s.rel, s.doc, s.later, {}, s.touches)
         /\ [s EXCEPT !.phase = "drop"] =
              Made(s.kind, "drop", s.rel, s.doc, s.tasks, s.later, s.touches)
         /\ [s EXCEPT !.phase = "tasks", !.doc = Absent] =
              Made(s.kind, "tasks", s.rel, Absent, s.tasks, s.later, s.touches)
         /\ [s EXCEPT !.phase = "tasks", !.rel = new, !.doc = Absent] =
              Made(s.kind, "tasks", new, Absent, s.tasks, s.later, s.touches)
<1>1. s = Made(s.kind, s.phase, s.rel, s.doc, s.tasks, s.later, s.touches)
  BY RequestFields
<1> DEFINE a == [s EXCEPT !.tasks = s.later]
           b == [s EXCEPT !.phase = "tasks"]
           c == [b EXCEPT !.rel = new]
<1>2. a = Made(s.kind, s.phase, s.rel, s.doc, s.later, s.later, s.touches)
  BY <1>1, TasksChanged
<1>3. b = Made(s.kind, "tasks", s.rel, s.doc, s.tasks, s.later, s.touches)
  BY <1>1, PhaseChanged
<1>4. c = Made(s.kind, "tasks", new, s.doc, s.tasks, s.later, s.touches)
  <2> HIDE DEF b
  <2>1. QED  BY <1>3, RelChanged
<1>5. [a EXCEPT !.later = {}] = Made(s.kind, s.phase, s.rel, s.doc, s.later, {}, s.touches)
  <2> HIDE DEF a
  <2>1. QED  BY <1>2, LaterChanged, SMTT(40)
<1>6. [b EXCEPT !.doc = Absent] = Made(s.kind, "tasks", s.rel, Absent, s.tasks, s.later, s.touches)
  <2> HIDE DEF b
  <2>1. QED  BY <1>3, DocChanged, SMTT(40)
<1>7. [c EXCEPT !.doc = Absent] = Made(s.kind, "tasks", new, Absent, s.tasks, s.later, s.touches)
  <2> HIDE DEF c
  <2>1. QED  BY <1>4, DocChanged
<1>8. [s EXCEPT !.tasks = s.later, !.later = {}] = [a EXCEPT !.later = {}]
  OBVIOUS
<1>9. [s EXCEPT !.phase = "tasks", !.doc = Absent] = [b EXCEPT !.doc = Absent]
  OBVIOUS
<1>10. [s EXCEPT !.phase = "tasks", !.rel = new, !.doc = Absent] = [c EXCEPT !.doc = Absent]
  OBVIOUS
<1>11. [s EXCEPT !.tasks = new] = Made(s.kind, s.phase, s.rel, s.doc, new, s.later, s.touches)
  BY <1>1, TasksChanged
<1>12. [s EXCEPT !.phase = "drop"] = Made(s.kind, "drop", s.rel, s.doc, s.tasks, s.later, s.touches)
  BY <1>1, PhaseChanged
<1> HIDE DEF a, b, c
<1>13. QED  BY <1>5, <1>6, <1>7, <1>8, <1>9, <1>10, <1>11, <1>12

LEMMA TasksAre ==
  ASSUME memories \in [Memories -> Memory], NEW kind \in TaskKinds, NEW ms \in SUBSET Memories
  PROVE  /\ Tasks(kind, ms) \in SUBSET Call
         /\ \A t \in Tasks(kind, ms) : t.memory \in ms /\ t.kind = kind /\ t.read = memories[t.memory]
         /\ \A m \in ms : Task(kind, m, memories[m]) \in Tasks(kind, ms)
  BY DEF Tasks, Task, Call

LEMMA TaskIs ==
  ASSUME NEW kind \in TaskKinds, NEW m \in Memories, NEW read \in Memory
  PROVE  LET t == Task(kind, m, read) IN
         t \in Call /\ t.kind = kind /\ t.memory = m /\ t.read = read
  BY DEF Task, Call

LEMMA CallIs ==
  ASSUME NEW t \in Call
  PROVE  t.kind \in TaskKinds /\ t.memory \in Memories /\ t.read \in Memory
  BY DEF Call

LEMMA BaseTypes ==
  ASSUME Base
  PROVE  TypeOK
  BY DEF Base, TypeOK, Doc, Good

\* One request changes, and what else does has its type.
LEMMA BaseStep ==
  ASSUME Base, NEW q \in Requests, NEW s, Good(s), requests' = [requests EXCEPT ![q] = s],
         memories' \in [Memories -> Memory],
         DOMAIN relationships' = Ids, \A r \in Ids : Doc(relationships'[r]),
         starts' \in 0..MaxStarts,
         torn' \in [memories : SUBSET Memories, relationships : SUBSET Ids]
  PROVE  Base'
<1>1. DOMAIN requests' = Requests /\ \A p \in Requests : requests'[p] = IF p = q THEN s ELSE requests[p]
  BY DEF Base
<1>2. \A p \in Requests : Good(requests'[p])
  BY <1>1 DEF Base
<1>3. QED  BY <1>1, <1>2 DEF Base

-----------------------------------------------------------------------------
(* What each action does, in the fields of the request that takes it.      *)

\* A request begins as s.
Begun(q, s) ==
  /\ requests[q] = Idle
  /\ requests' = [requests EXCEPT ![q] = s]
  /\ memories' = memories /\ relationships' = relationships
  /\ starts' \in 0..MaxStarts
  /\ torn' = [memories |-> torn.memories \cup
                (IF s.rel \in torn.relationships THEN s.touches
                 ELSE s.touches \cap UNION {requests[p].touches : p \in Running}),
              relationships |-> torn.relationships \cup
                ({s.rel} \cap {requests[p].rel : p \in Running} \cap Ids)]

StartCreate(s, ids) ==
  /\ ids \in Members
  /\ s.kind = "create" /\ s.phase = "insert" /\ s.rel = "none" /\ s.doc = Fresh(ids)
  /\ s.tasks = Tasks("readUp", ToSet(ids) \cap Owned)
  /\ s.later = Tasks("link", ToSet(ids) \cap Owned)
  /\ s.touches = ToSet(ids)

StartUpdate(s, r, new, removed) ==
  LET doc == relationships[r] IN
  /\ doc.exists
  /\ new \cap ToSet(doc.related) = {} /\ removed \subseteq ToSet(doc.related) \cup new
  /\ s.kind = "update" /\ s.phase = "write" /\ s.rel = r
  /\ ToSet(s.doc.related) = (ToSet(doc.related) \cup new) \ removed
  /\ Sound(doc) => Sound(s.doc)
  /\ s.tasks = Tasks("link", new \cap Owned) \cup Tasks("readUp", new \cap Owned)
  /\ s.later = Tasks("unlink", removed)
  /\ s.touches = new \cup removed

StartReorder(s, r) ==
  LET doc == relationships[r] IN
  /\ doc.exists
  /\ s.kind = "reorder" /\ s.phase = "write" /\ s.rel = r
  /\ s.doc.related = doc.related /\ s.doc.count = doc.count
  /\ Sound(doc) => Sound(s.doc)
  /\ s.tasks = {} /\ s.later = {} /\ s.touches = {}

StartDelete(s, r) ==
  LET ms == ToSet(relationships[r].related) \cap Owned IN
  /\ relationships[r].exists
  /\ s.kind = "delete" /\ s.phase = "tasks" /\ s.rel = r
  /\ s.tasks = Tasks("unlink", ms) /\ s.later = {} /\ s.touches = ms

StartEdit(s, m, memory) ==
  /\ m \in Owned /\ memory.links = memories[m].links /\ memory.count = memories[m].count
  /\ s.kind = "edit" /\ s.phase = "tasks" /\ s.rel = "none"
  /\ s.tasks = {Task("replace", m, memory)} /\ s.later = {} /\ s.touches = {m}

LEMMA AcceptIs ==
  ASSUME Base, NEW q \in Requests, NEW kind \in Kinds, NEW phase \in Phases,
         NEW r \in Ids \cup {"none"}, NEW doc, Doc(doc), NEW tasks \in SUBSET Call,
         NEW later \in SUBSET Call, NEW ms \in SUBSET Memories,
         Accept(q, kind, phase, r, doc, tasks, later, ms)
  PROVE  Begun(q, Made(kind, phase, r, doc, tasks, later, ms))
<1> DEFINE s == Made(kind, phase, r, doc, tasks, later, ms)
<1>1. s.rel = r /\ s.touches = ms
  BY DEF Made
<1>2. requests[q] = Idle
  BY DEF Accept, Free, Base, Good, Shape
<1>3. starts' \in 0..MaxStarts
  BY ConstantsAssumption DEF ConstantsAssumption, Base, Accept, Free
<1>4. requests' = [requests EXCEPT ![q] = s]
  BY DEF Accept, Made
<1> HIDE DEF s
<1>5. torn' = [memories |-> torn.memories \cup
                 (IF r \in torn.relationships THEN ms
                  ELSE ms \cap UNION {requests[p].touches : p \in Running}),
               relationships |-> torn.relationships \cup
                 ({r} \cap {requests[p].rel : p \in Running} \cap Ids)]
  BY DEF Accept, Tear
<1>6. memories' = memories /\ relationships' = relationships
  BY DEF Accept
<1>7. QED  BY <1>1, <1>2, <1>3, <1>4, <1>5, <1>6 DEF Begun, s

LEMMA CreateIs ==
  ASSUME Base, NEW q \in Requests, CreateRelationship(q)
  PROVE  \E s : Begun(q, s) /\ Good(s) /\ \E ids \in Members : StartCreate(s, ids)
<1>1. PICK ids \in IdLists :
        Accept(q, "create", "insert", "none", Fresh(ids), Tasks("readUp", ToSet(ids) \cap Owned),
               Tasks("link", ToSet(ids) \cap Owned), ToSet(ids))
  BY DEF CreateRelationship
<1>2. ids \in Members
  BY DEF IdLists
<1> DEFINE ms == ToSet(ids) \cap Owned
           up == Tasks("readUp", ms)
           link == Tasks("link", ms)
           s == Made("create", "insert", "none", Fresh(ids), up, link, ToSet(ids))
<1>3. Doc(Fresh(ids)) /\ ToSet(ids) \subseteq Memories
  BY <1>2, FreshIs
<1>4. ms \in SUBSET Memories /\ "readUp" \in TaskKinds /\ "link" \in TaskKinds
  BY <1>3 DEF TaskKinds
<1>5. /\ up \in SUBSET Call /\ link \in SUBSET Call
      /\ \A t \in up \cup link : t.memory \in ToSet(ids)
  BY <1>4, TasksAre DEF Base
<1>6. "create" \in Kinds /\ "insert" \in Phases /\ "none" \in Ids \cup {"none"}
  BY DEF Kinds, Phases
<1>7. Begun(q, s)
  BY <1>1, <1>3, <1>5, <1>6, AcceptIs
<1>8. /\ s.kind = "create" /\ s.phase = "insert" /\ s.rel = "none" /\ s.doc = Fresh(ids)
      /\ s.tasks = up /\ s.later = link /\ s.touches = ToSet(ids) /\ Work(s) = up \cup link
      /\ IsRequest(s)
  <2>1. IsRequest(s)
    BY <1>3, <1>5, <1>6, MadeIs
  <2>2. QED  BY <2>1 DEF Made, Work
<1> HIDE DEF s
<1>9. s.doc.exists /\ s.doc.version > 0
  BY <1>8 DEF Fresh
<1>10. Good(s)
  BY <1>3, <1>5, <1>8, <1>9 DEF Good, Shape
<1>11. StartCreate(s, ids)
  BY <1>2, <1>8 DEF StartCreate
<1>12. QED  BY <1>2, <1>7, <1>10, <1>11

LEMMA UpdateIs ==
  ASSUME Base, NEW q \in Requests, NEW r \in Ids, UpdateRelationship(q, r)
  PROVE  \E s : /\ Begun(q, s) /\ Good(s)
                /\ \E new \in SUBSET Memories, removed \in SUBSET Memories :
                     StartUpdate(s, r, new, removed)
<1> DEFINE doc == relationships[r]
           related == ToSet(doc.related)
<1>1. PICK ids \in {<<>>} \cup IdLists, gone \in SUBSET Memories :
        LET added == Without(ids, related)
            new == ToSet(added)
            removed == gone \cap (related \cup new) IN
        Accept(q, "update", "write", r, Updated(doc, added, removed),
                 Tasks("link", new \cap Owned) \cup Tasks("readUp", new \cap Owned),
                 Tasks("unlink", removed), new \cup removed)
  BY DEF UpdateRelationship
<1>2. doc.exists /\ Doc(doc)
  BY DEF UpdateRelationship, Base
<1>3. ids \in Seq(Memories) /\ IsInjective(ids)
  <2>1. <<>> \in Seq(Memories) /\ IsInjective(<<>>)
    BY DEF IsInjective
  <2>2. ASSUME ids \in IdLists PROVE ids \in Seq(Memories) /\ IsInjective(ids)
    BY <2>2, FreshIs DEF IdLists
  <2>3. QED  BY <2>1, <2>2
<1> DEFINE added == Without(ids, related)
           new == ToSet(added)
           removed == gone \cap (related \cup new)
           link == Tasks("link", new \cap Owned)
           up == Tasks("readUp", new \cap Owned)
           down == Tasks("unlink", removed)
           next == Updated(doc, added, removed)
           s == Made("update", "write", r, next, link \cup up, down, new \cup removed)
<1>4. added \in Seq(Memories) /\ new = ToSet(ids) \ related /\ IsInjective(added)
  <2> HIDE DEF related
  <2>1. /\ added \in Seq(Memories) /\ new = ToSet(ids) \ related
        /\ \E at \in [DOMAIN added -> DOMAIN ids] :
             /\ \A k \in DOMAIN added : added[k] = ids[at[k]]
             /\ \A k, l \in DOMAIN added : at[k] < at[l] <=> k < l
             /\ \A k, l \in DOMAIN added : at[k] = at[l] => k = l
    BY <1>3, WithoutIs, ZenonT(30)
  <2> HIDE DEF added
  <2>2. PICK at \in [DOMAIN added -> DOMAIN ids] :
             /\ \A k \in DOMAIN added : added[k] = ids[at[k]]
             /\ \A k, l \in DOMAIN added : at[k] = at[l] => k = l
    BY <2>1
  <2>3. IsInjective(added)
    BY <1>3, <2>2 DEF IsInjective
  <2>4. QED  BY <2>1, <2>3
<1>5. related \in SUBSET Memories /\ ToSet(ids) \in SUBSET Memories
  <2>1. related \subseteq Memories
    BY <1>2, DocFields
  <2>2. \A i \in DOMAIN ids : ids[i] \in Memories
    BY <1>3, ElementOfSeq, LenProperties
  <2>3. QED  BY <2>1, <2>2 DEF ToSet
<1> HIDE DEF added
<1>6. /\ Doc(next) /\ next.exists = doc.exists /\ next.version = doc.version + 1
      /\ ToSet(next.related) = (related \cup new) \ removed
      /\ (Sound(doc) /\ IsInjective(added) /\ related \cap new = {}) => Sound(next)
  <2>1. Doc(doc)
    BY <1>2
  <2> HIDE DEF doc
  <2>2. Doc(next)
    BY <1>4, <2>1, UpdatedIs
  <2>3. next.exists = doc.exists /\ next.version = doc.version + 1
    BY <1>4, <2>1, UpdatedIs
  <2>4. ToSet(next.related) = (related \cup new) \ removed
    BY <1>4, <2>1, UpdatedIs
  <2>5. (Sound(doc) /\ IsInjective(added) /\ related \cap new = {}) => Sound(next)
    BY <1>4, <2>1, UpdatedIs
  <2>6. QED  BY <2>2, <2>3, <2>4, <2>5
<1>7. new \in SUBSET Memories /\ new \cap related = {} /\ related \cap new = {}
  BY <1>4, <1>5
<1>8. Accept(q, "update", "write", r, next, link \cup up, down, new \cup removed)
  BY <1>1 DEF added
<1> HIDE DEF new, next
<1>9. removed \in SUBSET Memories /\ removed \subseteq related \cup new
  OBVIOUS
<1> HIDE DEF removed, related
<1>10. "link" \in TaskKinds /\ "readUp" \in TaskKinds /\ "unlink" \in TaskKinds
  BY DEF TaskKinds
<1>11. new \cap Owned \in SUBSET Memories /\ new \cup removed \in SUBSET Memories
  BY <1>7, <1>9
<1>12. /\ link \in SUBSET Call /\ \A t \in link : t.memory \in new
       /\ up \in SUBSET Call /\ \A t \in up : t.memory \in new
       /\ down \in SUBSET Call /\ \A t \in down : t.memory \in removed
  BY <1>9, <1>10, <1>11, TasksAre DEF Base
<1>13. "update" \in Kinds /\ "write" \in Phases /\ r \in Ids \cup {"none"}
  BY DEF Kinds, Phases
<1> HIDE DEF link, up, down
<1>14. link \cup up \in SUBSET Call
  BY <1>12
<1>15. Begun(q, s)
  BY <1>6, <1>8, <1>11, <1>12, <1>13, <1>14, AcceptIs
<1>16. /\ s.kind = "update" /\ s.phase = "write" /\ s.rel = r /\ s.doc = next
       /\ s.tasks = link \cup up /\ s.later = down /\ s.touches = new \cup removed
       /\ Work(s) = (link \cup up) \cup down /\ IsRequest(s)
  BY <1>6, <1>11, <1>12, <1>13, <1>14, MadeIs
<1> HIDE DEF s
<1>17. s.doc.exists /\ s.doc.version > 0
  <2>1. doc.version \in Nat
    BY <1>2, DocFields
  <2> HIDE DEF doc
  <2>2. s.doc.exists
    BY <1>2, <1>6, <1>16
  <2>3. s.doc.version > 0
    BY <1>6, <1>16, <2>1
  <2>4. QED  BY <2>2, <2>3
<1>18. \A t \in Work(s) : t.memory \in s.touches
  BY <1>12, <1>16
<1>19. Good(s)
  BY <1>6, <1>16, <1>17, <1>18 DEF Good, Shape
<1>20. StartUpdate(s, r, new, removed)
  BY <1>2, <1>4, <1>6, <1>7, <1>9, <1>16 DEF StartUpdate, related, link, up, down
<1>21. QED  BY <1>7, <1>9, <1>15, <1>19, <1>20

LEMMA ReorderStarts ==
  ASSUME Base, NEW q \in Requests, NEW r \in Ids, Reorder(q, r)
  PROVE  \E s : Begun(q, s) /\ Good(s) /\ StartReorder(s, r)
<1> DEFINE doc == relationships[r]
<1>1. PICK op \in Operations(ToSet(doc.related), Len(doc.related) + 1) :
        /\ Permitted(WorkingOrder(doc.order, doc.related), doc.related, op)
        /\ Accept(q, "reorder", "write", r,
                  [doc EXCEPT !.order = ApplyReorder(doc.order, doc.related, op),
                              !.version = @ + 1], {}, {}, {})
  BY DEF Reorder
<1>2. doc.exists /\ Doc(doc)
  BY DEF Reorder, Base
<1> DEFINE next == [doc EXCEPT !.order = ApplyReorder(doc.order, doc.related, op), !.version = @ + 1]
           s == Made("reorder", "write", r, next, {}, {}, {})
<1>3. Accept(q, "reorder", "write", r, next, {}, {}, {})
  BY <1>1
<1>4. /\ Doc(next) /\ next.exists = doc.exists /\ next.version = doc.version + 1
      /\ next.related = doc.related /\ next.count = doc.count /\ (Sound(doc) => Sound(next))
  <2> DEFINE max == Len(doc.related) + 1
  <2>1. max \in Nat /\ op \in Operations(ToSet(doc.related), max) /\ Doc(doc)
        /\ Permitted(WorkingOrder(doc.order, doc.related), doc.related, op)
    BY <1>1, <1>2, DocFields, LenProperties
  <2> HIDE DEF doc, max
  <2>2. Doc(next) /\ next.exists = doc.exists
    <3>1. Doc(next)
      BY <2>1, ReorderedIs
    <3>2. next.exists = doc.exists
      BY <2>1, DocFields
    <3>3. QED  BY <3>1, <3>2
  <2>3. next.version = doc.version + 1
    BY <2>1, ReorderedIs
  <2>4. next.related = doc.related /\ next.count = doc.count
    BY <2>1, ReorderedIs
  <2>5. Sound(doc) => Sound(next)
    BY <2>1, ReorderedIs
  <2>6. QED  BY <2>2, <2>3, <2>4, <2>5
<1> HIDE DEF next
<1>5. /\ "reorder" \in Kinds /\ "write" \in Phases /\ r \in Ids \cup {"none"}
      /\ {} \in SUBSET Call /\ {} \in SUBSET Memories
  BY DEF Kinds, Phases
<1>6. Begun(q, s)
  BY <1>3, <1>4, <1>5, AcceptIs
<1>7. /\ s.kind = "reorder" /\ s.phase = "write" /\ s.rel = r /\ s.doc = next
      /\ s.tasks = {} /\ s.later = {} /\ s.touches = {} /\ Work(s) = {}
      /\ IsRequest(s)
  <2>1. IsRequest(s)
    BY <1>4, <1>5, MadeIs
  <2>2. QED  BY <2>1 DEF Made, Work
<1> HIDE DEF s
<1>8. doc.version \in Nat
  BY <1>2, DocFields
<1> HIDE DEF doc
<1>9. s.doc.exists
  BY <1>2, <1>4, <1>7
<1>10. s.doc.version > 0
  BY <1>4, <1>7, <1>8
<1>11. Good(s)
  BY <1>4, <1>7, <1>9, <1>10 DEF Good, Shape
<1>12. StartReorder(s, r)
  BY <1>2, <1>4, <1>7 DEF StartReorder, doc
<1>13. QED  BY <1>6, <1>11, <1>12

LEMMA DeleteStarts ==
  ASSUME Base, NEW q \in Requests, NEW r \in Ids, DeleteRelationship(q, r)
  PROVE  \E s : Begun(q, s) /\ Good(s) /\ StartDelete(s, r)
<1> DEFINE ms == ToSet(relationships[r].related) \cap Owned
           tasks == Tasks("unlink", ms)
           s == Made("delete", "tasks", r, Absent, tasks, {}, ms)
<1>1. relationships[r].exists /\ Accept(q, "delete", "tasks", r, Absent, tasks, {}, ms)
  BY DEF DeleteRelationship
<1>2. ms \in SUBSET Memories
  BY ConstantsAssumption DEF ConstantsAssumption
<1> HIDE DEF ms
<1>3. "unlink" \in TaskKinds
  BY DEF TaskKinds
<1>4. tasks \in SUBSET Call /\ \A t \in tasks : t.memory \in ms
  BY <1>2, <1>3, TasksAre DEF Base
<1>5. "delete" \in Kinds /\ "tasks" \in Phases /\ r \in Ids \cup {"none"} /\ {} \in SUBSET Call
  BY DEF Kinds, Phases
<1>6. Doc(Absent)
  BY AbsentIs
<1>7. Begun(q, s)
  BY <1>1, <1>2, <1>4, <1>5, <1>6, AcceptIs
<1>8. /\ s.kind = "delete" /\ s.phase = "tasks" /\ s.rel = r /\ s.doc = Absent
      /\ s.tasks = tasks /\ s.later = {} /\ s.touches = ms /\ Work(s) = tasks \cup {}
      /\ IsRequest(s)
  <2>1. IsRequest(s)
    BY <1>2, <1>4, <1>5, <1>6, MadeIs
  <2>2. QED  BY <2>1 DEF Made, Work
<1> HIDE DEF s
<1>9. Good(s)
  BY <1>4, <1>6, <1>8 DEF Good, Shape
<1>10. StartDelete(s, r)
  BY <1>1, <1>8 DEF StartDelete, ms
<1>11. QED  BY <1>7, <1>9, <1>10

LEMMA EditStarts ==
  ASSUME Base, NEW q \in Requests, NEW m \in Memories, NEW delete \in BOOLEAN,
         EditMemory(q, m, delete)
  PROVE  \E s : Begun(q, s) /\ Good(s) /\ \E memory \in Memory : StartEdit(s, m, memory)
<1> DEFINE memory == [memories[m] EXCEPT !.deleted = delete]
           task == Task("replace", m, memory)
           s == Made("edit", "tasks", "none", Absent, {task}, {}, {m})
<1>1. m \in Owned /\ Accept(q, "edit", "tasks", "none", Absent, {task}, {}, {m})
  BY DEF EditMemory
<1>2. /\ memory \in Memory /\ memory.links = memories[m].links
      /\ memory.count = memories[m].count
  BY DEF Base, Memory
<1> HIDE DEF memory
<1>3. "replace" \in TaskKinds
  BY DEF TaskKinds
<1>4. task \in Call /\ task.memory = m /\ task.kind = "replace"
  BY <1>2, <1>3, TaskIs
<1> HIDE DEF task
<1>5. "edit" \in Kinds /\ "tasks" \in Phases /\ "none" \in Ids \cup {"none"}
  BY DEF Kinds, Phases
<1>6. Doc(Absent)
  BY AbsentIs
<1>7. {task} \in SUBSET Call /\ {} \in SUBSET Call /\ {m} \in SUBSET Memories
  BY <1>4
<1>8. Begun(q, s)
  BY <1>1, <1>5, <1>6, <1>7, AcceptIs
<1>9. /\ s.kind = "edit" /\ s.phase = "tasks" /\ s.rel = "none" /\ s.doc = Absent
      /\ s.tasks = {task} /\ s.later = {} /\ s.touches = {m} /\ Work(s) = {task} \cup {}
      /\ IsRequest(s)
  <2>1. IsRequest(s)
    BY <1>5, <1>6, <1>7, MadeIs
  <2>2. QED  BY <2>1 DEF Made, Work
<1> HIDE DEF s
<1>10. Good(s)
  BY <1>4, <1>6, <1>9 DEF Good, Shape
<1>11. StartEdit(s, m, memory)
  BY <1>1, <1>2, <1>9 DEF StartEdit, task
<1>12. QED  BY <1>2, <1>8, <1>10, <1>11

\* The request goes on as s.
Becomes(q, s) ==
  /\ requests' = [requests EXCEPT ![q] = s]
  /\ starts' = starts
  /\ Good(s)

\* s is what is left of old: of what it is to do, and of what it has in hand.
GoesOn(old, s) ==
  /\ s.kind = old.kind /\ s.rel = old.rel /\ s.doc = old.doc /\ s.touches = old.touches

LEMMA InsertIs ==
  ASSUME Base, NEW q \in Requests, Insert(q)
  PROVE  LET old == requests[q] IN
         /\ old.kind = "create" /\ old.phase = "insert" /\ old.rel = "none"
         /\ memories' = memories /\ torn' = torn
         /\ \E r, s :
              /\ r \in Ids
              /\ relationships[r] = Absent
              /\ relationships' = [relationships EXCEPT ![r] = old.doc]
              /\ Becomes(q, s)
              /\ s.kind = "create" /\ s.phase = "tasks" /\ s.rel = r
              /\ s.tasks = old.tasks /\ s.later = old.later /\ s.touches = old.touches
<1> DEFINE old == requests[q]
<1>1. Good(old) /\ old.phase = "insert" /\ memories' = memories /\ torn' = torn /\ starts' = starts
  BY DEF Insert, Base
<1>2. PICK r \in Ids :
        /\ relationships[r] = Absent
        /\ relationships' = [relationships EXCEPT ![r] = old.doc]
        /\ requests' = [requests EXCEPT ![q].phase = "tasks", ![q].rel = r, ![q].doc = Absent]
  BY DEF Insert
<1> DEFINE s == Made(old.kind, "tasks", r, Absent, old.tasks, old.later, old.touches)
<1>3. requests' = [requests EXCEPT ![q] = [old EXCEPT !.phase = "tasks", !.rel = r, !.doc = Absent]]
  BY <1>2
<1> HIDE DEF old
<1>4. IsRequest(old) /\ Shape(old)
  BY <1>1 DEF Good
<1>5. [old EXCEPT !.phase = "tasks", !.rel = r, !.doc = Absent] = s
  BY <1>4, Changed
<1>6. /\ old.kind \in Kinds /\ old.tasks \in SUBSET Call /\ old.later \in SUBSET Call
      /\ old.touches \in SUBSET Memories
  BY <1>4, RequestFields
<1>7. old.kind = "create" /\ old.rel = "none"
  BY <1>1, <1>4, <1>6 DEF Shape, Kinds, Idle
<1>8. "tasks" \in Phases /\ Doc(Absent) /\ r \in Ids \cup {"none"}
  BY AbsentIs DEF Phases
<1>9. /\ s.kind = old.kind /\ s.phase = "tasks" /\ s.rel = r /\ s.doc = Absent
      /\ s.tasks = old.tasks /\ s.later = old.later /\ s.touches = old.touches
      /\ Work(s) = Work(old) /\ IsRequest(s)
  <2>1. IsRequest(s)
    BY <1>6, <1>8, MadeIs
  <2>2. QED  BY <2>1 DEF Made, Work
<1>10. requests' = [requests EXCEPT ![q] = s]
  BY <1>3, <1>5
<1> HIDE DEF s
<1>11. Good(s)
  BY <1>4, <1>7, <1>8, <1>9 DEF Good, Shape
<1>12. Becomes(q, s)
  BY <1>1, <1>10, <1>11 DEF Becomes
<1>13. /\ old.kind = "create" /\ old.phase = "insert" /\ old.rel = "none"
       /\ memories' = memories /\ torn' = torn
       /\ relationships[r] = Absent
       /\ relationships' = [relationships EXCEPT ![r] = old.doc]
       /\ s.kind = "create" /\ s.phase = "tasks" /\ s.rel = r
       /\ s.tasks = old.tasks /\ s.later = old.later /\ s.touches = old.touches
  BY <1>1, <1>2, <1>7, <1>9
<1>14. QED  BY <1>12, <1>13 DEF old

\* The document a finished reordering leaves.
Merged(was, doc) == [was EXCEPT !.order = doc.order, !.version = doc.version]

LEMMA WriteIs ==
  ASSUME Base, NEW q \in Requests, Write(q)
  PROVE  LET old == requests[q]
             r == old.rel
             was == relationships[r] IN
         /\ old.kind \in {"update", "reorder"} /\ old.phase = "write" /\ r \in Ids
         /\ memories' = memories /\ torn' = torn
         /\ \/ ~ was.exists /\ relationships' = relationships /\ Becomes(q, Idle)
            \/ /\ was.exists
               /\ relationships' = [relationships EXCEPT ![r] =
                    IF old.kind = "reorder" THEN Merged(was, old.doc) ELSE old.doc]
               /\ \E s : /\ Becomes(q, s)
                         /\ s.kind = old.kind /\ s.phase = "tasks" /\ s.rel = r
                         /\ s.tasks = old.tasks /\ s.later = old.later /\ s.touches = old.touches
<1> DEFINE old == requests[q]
           r == old.rel
           was == relationships[r]
<1>1. Good(old) /\ old.phase = "write" /\ memories' = memories /\ torn' = torn /\ starts' = starts
  BY DEF Write, Base
<1>2. \/ ~ was.exists /\ requests' = [requests EXCEPT ![q] = Idle] /\ relationships' = relationships
      \/ /\ was.exists
         /\ relationships' = [relationships EXCEPT ![r] =
              IF old.kind = "reorder" THEN Merged(was, old.doc) ELSE old.doc]
         /\ requests' = [requests EXCEPT ![q] = [old EXCEPT !.phase = "tasks", !.doc = Absent]]
  BY DEF Write, Finish, Merged
<1> DEFINE s == Made(old.kind, "tasks", r, Absent, old.tasks, old.later, old.touches)
<1> HIDE DEF old
<1>3. IsRequest(old) /\ Shape(old)
  BY <1>1 DEF Good
<1>4. [old EXCEPT !.phase = "tasks", !.doc = Absent] = s
  BY <1>3, Changed
<1>5. /\ old.kind \in Kinds /\ old.tasks \in SUBSET Call /\ old.later \in SUBSET Call
      /\ old.touches \in SUBSET Memories /\ r \in Ids \cup {"none"}
  BY <1>3, RequestFields
<1>6. old.kind \in {"update", "reorder"} /\ r \in Ids
  BY <1>1, <1>3, <1>5 DEF Shape, Kinds, Idle
<1>7. "tasks" \in Phases /\ Doc(Absent)
  BY AbsentIs DEF Phases
<1>8. /\ s.kind = old.kind /\ s.phase = "tasks" /\ s.rel = r /\ s.doc = Absent
      /\ s.tasks = old.tasks /\ s.later = old.later /\ s.touches = old.touches
      /\ Work(s) = Work(old) /\ IsRequest(s)
  <2>1. IsRequest(s)
    BY <1>5, <1>7, MadeIs
  <2>2. QED  BY <2>1 DEF Made, Work
<1> HIDE DEF s
<1>9. Good(s)
  BY <1>3, <1>6, <1>7, <1>8 DEF Good, Shape
<1>10. Good(Idle)
  BY IdleIs
<1>11. \/ ~ was.exists /\ relationships' = relationships /\ Becomes(q, Idle)
       \/ /\ was.exists
          /\ relationships' = [relationships EXCEPT ![r] =
               IF old.kind = "reorder" THEN Merged(was, old.doc) ELSE old.doc]
          /\ Becomes(q, s)
  BY <1>1, <1>2, <1>4, <1>9, <1>10 DEF Becomes
<1>12. QED  BY <1>1, <1>6, <1>8, <1>11 DEF old

LEMMA WriteFailsIs ==
  ASSUME Base, NEW q \in Requests, WriteFails(q)
  PROVE  /\ requests[q].phase \in {"insert", "write"}
         /\ Becomes(q, Idle)
         /\ memories' = memories /\ relationships' = relationships /\ torn' = torn
  BY IdleIs DEF WriteFails, Finish, Becomes

\* What the call t for request s makes of a memory, and which call comes next.
Deed(s, t, old, new, next) ==
  \/ /\ t.kind = "link"
     /\ new.links = t.read.links \cup {s.rel} /\ new.count = old.count /\ next = {}
  \/ /\ t.kind = "unlink" /\ new = old
     /\ next = IF s.rel \in old.links THEN {Task("cut", t.memory, old)}
               ELSE {Task("readDown", m, old) : m \in {t.memory} \cap Owned}
  \/ /\ t.kind = "cut"
     /\ new.links = t.read.links \ {s.rel} /\ new.count = old.count
     /\ next = {Task("readDown", m, old) : m \in {t.memory} \cap Owned}
  \/ /\ t.kind \in {"readUp", "readDown"} /\ new = old
     /\ \E read \in Memory :
          /\ read.links = old.links
          /\ read.count = IF t.kind = "readUp" THEN old.count + 1
                          ELSE IF old.count > 0 THEN old.count - 1 ELSE 0
          /\ next = {Task("set", t.memory, read)}
  \/ /\ t.kind = "set"
     /\ new.links = old.links /\ new.count = t.read.count /\ next = {}
  \/ t.kind = "replace" /\ new = t.read /\ next = {}

Performed(q, t, new, next) ==
  /\ memories' = [memories EXCEPT ![t.memory] = new]
  /\ requests' = [requests EXCEPT ![q].tasks = (@ \ {t}) \cup next]
  /\ Deed(requests[q], t, memories[t.memory], new, next)
  /\ new \in Memory
  /\ next \in SUBSET Call /\ \A u \in next : u.memory = t.memory

\* Calls on a memory that read it as it is.
LEMMA ReadsAre ==
  ASSUME Base, NEW kind \in TaskKinds, NEW m \in Memories
  PROVE  LET next == {Task(kind, x, memories[m]) : x \in {m} \cap Owned} IN
         /\ Tasks(kind, {m}) = {Task(kind, m, memories[m])}
         /\ Tasks(kind, {m} \cap Owned) = next
         /\ Task(kind, m, memories[m]) \in Call
         /\ next \in SUBSET Call /\ \A u \in next : u.memory = m
<1>1. memories[m] \in Memory
  BY DEF Base
<1>2. Task(kind, m, memories[m]) \in Call /\ Task(kind, m, memories[m]).memory = m
  BY <1>1, TaskIs
<1>3. \A x \in {m} \cap Owned : x = m
  OBVIOUS
<1>4. /\ Tasks(kind, {m}) = {Task(kind, m, memories[m])}
      /\ Tasks(kind, {m} \cap Owned) = {Task(kind, x, memories[m]) : x \in {m} \cap Owned}
  BY DEF Tasks
<1>5. QED  BY <1>2, <1>3, <1>4

\* A memory with something of it changed.
LEMMA CountChanged ==
  ASSUME NEW memory \in Memory, NEW n \in Nat
  PROVE  /\ [memory EXCEPT !.count = n] \in Memory
         /\ [memory EXCEPT !.count = n].links = memory.links
         /\ [memory EXCEPT !.count = n].count = n
  BY DEF Memory

LEMMA MemoryChanged ==
  ASSUME NEW memory \in Memory, NEW ids \in SUBSET Ids
  PROVE  /\ [memory EXCEPT !.links = ids] \in Memory
         /\ [memory EXCEPT !.links = ids].links = ids
         /\ [memory EXCEPT !.links = ids].count = memory.count
         /\ memory.links \in SUBSET Ids /\ memory.count \in Nat
  BY DEF Memory

LEMMA PerformedIs ==
  ASSUME Base, NEW q \in Requests, NEW t \in requests[q].tasks, requests[q].phase = "tasks",
         \/ LinkMemory(q, t) \/ UnlinkMemory(q, t) \/ CutMemory(q, t)
         \/ ReadCount(q, t) \/ SetCount(q, t) \/ ReplaceMemory(q, t)
  PROVE  \E new, next : Performed(q, t, new, next)
<1> DEFINE m == t.memory
           old == memories[m]
           s == requests[q]
           rel == s.rel
<1>1. t \in Call /\ Good(s)
  <2>1. Good(s)
    BY DEF Base
  <2>2. s.tasks \in SUBSET Call
    BY <2>1, RequestFields DEF Good
  <2>3. QED  BY <2>1, <2>2
<1>2. m \in Memories /\ t.read \in Memory /\ old \in Memory
  BY <1>1, CallIs DEF Base
<1>3. old.links \in SUBSET Ids /\ old.count \in Nat /\ t.read.links \in SUBSET Ids /\ t.read.count \in Nat
  BY <1>2, MemoryChanged
<1>4. ASSUME NEW k \in TaskKinds
      PROVE  /\ Tasks(k, {m}) = {Task(k, m, old)}
             /\ Tasks(k, {m} \cap Owned) = {Task(k, x, old) : x \in {m} \cap Owned}
             /\ Task(k, m, old) \in Call /\ Task(k, m, old).memory = m
             /\ {Task(k, x, old) : x \in {m} \cap Owned} \in SUBSET Call
             /\ \A u \in {Task(k, x, old) : x \in {m} \cap Owned} : u.memory = m
  <2>1. /\ Tasks(k, {m}) = {Task(k, m, old)}
        /\ Tasks(k, {m} \cap Owned) = {Task(k, x, old) : x \in {m} \cap Owned}
    BY <1>2, ReadsAre
  <2>2. Task(k, m, old) \in Call /\ Task(k, m, old).memory = m
    BY <1>2, TaskIs
  <2>3. /\ {Task(k, x, old) : x \in {m} \cap Owned} \in SUBSET Call
        /\ \A u \in {Task(k, x, old) : x \in {m} \cap Owned} : u.memory = m
    BY <1>2, ReadsAre
  <2>4. QED  BY <2>1, <2>2, <2>3
<1>5. CASE LinkMemory(q, t)
  <2> DEFINE ids == t.read.links \cup {rel}
             new == [old EXCEPT !.links = ids]
  <2>1. t.kind = "link" /\ Set(q, t, new, {})
    BY <1>5 DEF LinkMemory
  <2>2. s.kind \in {"create", "update", "delete"} /\ rel \in Ids
    <3>1. t \in Work(s) /\ t.kind # "replace"
      BY <2>1 DEF Work
    <3>2. s.kind \in Kinds /\ Shape(s)
      BY <1>1, RequestFields DEF Good
    <3>3. s.kind # "none" /\ s.kind # "edit" /\ s.kind # "reorder"
      BY <3>1, <3>2 DEF Shape, Idle
    <3>4. QED  BY <3>2, <3>3 DEF Shape, Kinds
  <2>3. ids \in SUBSET Ids
    BY <1>3, <2>2
  <2>4. new \in Memory /\ new.links = ids /\ new.count = old.count
    <3>1. old \in Memory /\ ids \in SUBSET Ids
      BY <1>2, <2>3
    <3> HIDE DEF ids, old
    <3>2. new.links = ids /\ new.count = old.count
      BY <3>1, MemoryChanged
    <3>3. new \in Memory
      BY <3>1, MemoryChanged
    <3>4. QED  BY <3>2, <3>3
  <2> HIDE DEF new
  <2>5. Deed(s, t, old, new, {})
    BY <2>1, <2>4 DEF Deed
  <2>6. Performed(q, t, new, {})
    BY <2>1, <2>4, <2>5 DEF Performed, Set
  <2>7. QED  BY <2>6
<1>6. CASE UnlinkMemory(q, t)
  <2> DEFINE next == IF rel \in old.links THEN {Task("cut", m, old)}
                     ELSE {Task("readDown", x, old) : x \in {m} \cap Owned}
  <2>1. "cut" \in TaskKinds /\ "readDown" \in TaskKinds
    BY DEF TaskKinds
  <2>2. t.kind = "unlink" /\ Set(q, t, old, next)
    BY <1>4, <1>6, <2>1 DEF UnlinkMemory
  <2>3. next \in SUBSET Call /\ \A u \in next : u.memory = m
    BY <1>4, <2>1
  <2>4. Deed(s, t, old, old, next)
    BY <2>2 DEF Deed
  <2> HIDE DEF next
  <2>5. Performed(q, t, old, next)
    BY <1>2, <2>2, <2>3, <2>4 DEF Performed, Set
  <2>6. QED  BY <2>5
<1>7. CASE CutMemory(q, t)
  <2> DEFINE ids == t.read.links \ {rel}
             new == [old EXCEPT !.links = ids]
             next == {Task("readDown", x, old) : x \in {m} \cap Owned}
  <2>1. "readDown" \in TaskKinds
    BY DEF TaskKinds
  <2>2. t.kind = "cut" /\ Set(q, t, new, next)
    BY <1>4, <1>7, <2>1 DEF CutMemory
  <2>3. next \in SUBSET Call /\ \A u \in next : u.memory = m
    BY <1>4, <2>1
  <2>4. ids \in SUBSET Ids
    BY <1>3
  <2>5. new \in Memory /\ new.links = ids /\ new.count = old.count
    <3>1. old \in Memory /\ ids \in SUBSET Ids
      BY <1>2, <2>4
    <3> HIDE DEF ids, old
    <3>2. new.links = ids /\ new.count = old.count
      BY <3>1, MemoryChanged
    <3>3. new \in Memory
      BY <3>1, MemoryChanged
    <3>4. QED  BY <3>2, <3>3
  <2> HIDE DEF new
  <2>6. Deed(s, t, old, new, next)
    BY <2>2, <2>5 DEF Deed
  <2> HIDE DEF next
  <2>7. Performed(q, t, new, next)
    BY <2>2, <2>3, <2>5, <2>6 DEF Performed, Set
  <2>8. QED  BY <2>7
<1>8. CASE ReadCount(q, t)
  <2> DEFINE n == IF t.kind = "readUp" THEN old.count + 1
                  ELSE IF old.count > 0 THEN old.count - 1 ELSE 0
             read == [old EXCEPT !.count = n]
             next == {Task("set", m, read)}
  <2>1. t.kind \in {"readUp", "readDown"} /\ Set(q, t, old, next)
    BY <1>8 DEF ReadCount
  <2>2. n \in Nat
    BY <1>3
  <2>3. read \in Memory /\ read.links = old.links /\ read.count = n
    <3> HIDE DEF n
    <3>1. old \in Memory
      BY <1>2
    <3> HIDE DEF old
    <3>2. QED  BY <2>2, <3>1, CountChanged
  <2> HIDE DEF read
  <2>4. "set" \in TaskKinds
    BY DEF TaskKinds
  <2>5. next \in SUBSET Call /\ \A u \in next : u.memory = m
    BY <1>2, <2>3, <2>4, TaskIs
  <2>6. Deed(s, t, old, old, next)
    BY <2>1, <2>3 DEF Deed
  <2> HIDE DEF next
  <2>7. Performed(q, t, old, next)
    BY <1>2, <2>1, <2>5, <2>6 DEF Performed, Set
  <2>8. QED  BY <2>7
<1>9. CASE SetCount(q, t)
  <2> DEFINE n == t.read.count
             new == [old EXCEPT !.count = n]
  <2>1. t.kind = "set" /\ Set(q, t, new, {})
    BY <1>9 DEF SetCount
  <2>2. new \in Memory /\ new.links = old.links /\ new.count = n
    <3>1. n \in Nat /\ old \in Memory
      BY <1>2, <1>3
    <3> HIDE DEF n, old
    <3>2. QED  BY <3>1, CountChanged
  <2> HIDE DEF new
  <2>3. Deed(s, t, old, new, {})
    BY <2>1, <2>2 DEF Deed
  <2>4. Performed(q, t, new, {})
    BY <2>1, <2>2, <2>3 DEF Performed, Set
  <2>5. QED  BY <2>4
<1>10. CASE ReplaceMemory(q, t)
  <2>1. t.kind = "replace" /\ Set(q, t, t.read, {})
    BY <1>10 DEF ReplaceMemory
  <2>2. Deed(s, t, old, t.read, {})
    BY <2>1 DEF Deed
  <2>3. Performed(q, t, t.read, {})
    BY <1>2, <2>1, <2>2 DEF Performed, Set
  <2>4. QED  BY <2>3
<1>11. QED  BY <1>5, <1>6, <1>7, <1>8, <1>9, <1>10

LEMMA TasksBecome ==
  ASSUME Base, NEW q \in Requests, requests[q].phase = "tasks", NEW tasks \in SUBSET Call,
         \A u \in tasks : u.memory \in requests[q].touches,
         requests[q].kind = "edit" => \A u \in tasks : u.kind = "replace",
         requests' = [requests EXCEPT ![q].tasks = tasks], starts' = starts
  PROVE  \E s : /\ Becomes(q, s) /\ GoesOn(requests[q], s)
                /\ s.phase = "tasks" /\ s.tasks = tasks /\ s.later = requests[q].later
<1> DEFINE old == requests[q]
           s == Made(old.kind, old.phase, old.rel, old.doc, tasks, old.later, old.touches)
<1>1. Good(old) /\ old.phase = "tasks" /\ (\A u \in tasks : u.memory \in old.touches)
      /\ (old.kind = "edit" => \A u \in tasks : u.kind = "replace")
  BY DEF Base
<1>2. requests' = [requests EXCEPT ![q] = [old EXCEPT !.tasks = tasks]]
  OBVIOUS
<1> HIDE DEF old
<1>3. IsRequest(old) /\ Shape(old) /\ Doc(old.doc)
  BY <1>1 DEF Good
<1>4. [old EXCEPT !.tasks = tasks] = s
  BY <1>3, Changed
<1>5. /\ old.kind \in Kinds /\ old.phase \in Phases /\ old.tasks \in SUBSET Call
      /\ old.later \in SUBSET Call /\ old.touches \in SUBSET Memories /\ old.rel \in Ids \cup {"none"}
  BY <1>3, RequestFields
<1>6. /\ s.kind = old.kind /\ s.phase = old.phase /\ s.rel = old.rel /\ s.doc = old.doc
      /\ s.tasks = tasks /\ s.later = old.later /\ s.touches = old.touches
      /\ Work(s) = tasks \cup old.later /\ IsRequest(s)
  <2>1. IsRequest(s)
    BY <1>3, <1>5, MadeIs
  <2>2. QED  BY <2>1 DEF Made, Work
<1> HIDE DEF s
<1>7. old.later \subseteq Work(old)
  BY DEF Work
<1>8. old.kind # "none"
  BY <1>1, <1>3 DEF Shape, Idle
<1>9. Shape(s)
  BY <1>1, <1>3, <1>6, <1>7, <1>8 DEF Shape
<1>10. Good(s)
  BY <1>3, <1>6, <1>9 DEF Good
<1>11. Becomes(q, s)
  BY <1>2, <1>4, <1>10 DEF Becomes
<1>12. GoesOn(old, s) /\ s.phase = "tasks" /\ s.tasks = tasks /\ s.later = old.later
  BY <1>1, <1>6 DEF GoesOn
<1>13. QED  BY <1>11, <1>12 DEF old

LEMMA PerformIs ==
  ASSUME Base, NEW q \in Requests, Perform(q)
  PROVE  LET old == requests[q] IN
         /\ old.phase = "tasks" /\ relationships' = relationships /\ torn' = torn
         /\ \E t, new, next, s :
              /\ t \in old.tasks /\ new \in Memory /\ next \in SUBSET Call
              /\ t.memory \in old.touches /\ t.memory \in Memories
              /\ memories' = [memories EXCEPT ![t.memory] = new]
              /\ Deed(old, t, memories[t.memory], new, next)
              /\ Becomes(q, s) /\ GoesOn(old, s)
              /\ s.phase = "tasks" /\ s.tasks = (old.tasks \ {t}) \cup next /\ s.later = old.later
<1> DEFINE old == requests[q]
<1>1. PICK t \in old.tasks :
        \/ LinkMemory(q, t) \/ UnlinkMemory(q, t) \/ CutMemory(q, t)
        \/ ReadCount(q, t) \/ SetCount(q, t) \/ ReplaceMemory(q, t)
  BY DEF Perform
<1>2. old.phase = "tasks" /\ relationships' = relationships /\ torn' = torn /\ starts' = starts
  BY DEF Perform
<1>3. PICK new, next : Performed(q, t, new, next)
  BY <1>1, <1>2, PerformedIs
<1>4. Good(old)
  BY DEF Base
<1> DEFINE tasks == (old.tasks \ {t}) \cup next
<1>5. requests' = [requests EXCEPT ![q].tasks = tasks]
  BY <1>3 DEF Performed
<1>6. /\ memories' = [memories EXCEPT ![t.memory] = new] /\ new \in Memory
      /\ Deed(old, t, memories[t.memory], new, next)
      /\ next \in SUBSET Call /\ \A u \in next : u.memory = t.memory
  BY <1>3 DEF Performed
<1> HIDE DEF old
<1>7. old.tasks \in SUBSET Call /\ (\A u \in old.tasks : u.memory \in old.touches)
      /\ (old.kind = "edit" => \A u \in old.tasks : u.kind = "replace")
  BY <1>4, RequestFields DEF Good, Shape, Work
<1>8. t.memory \in Memories /\ t.memory \in old.touches
  BY <1>7, CallIs
<1>9. tasks \in SUBSET Call /\ (\A u \in tasks : u.memory \in old.touches)
  BY <1>6, <1>7, <1>8
<1>10. old.kind = "edit" => next = {}
  BY <1>6, <1>7 DEF Deed
<1>11. old.kind = "edit" => \A u \in tasks : u.kind = "replace"
  BY <1>7, <1>10
<1> HIDE DEF tasks
<1>12. \E s : /\ Becomes(q, s) /\ GoesOn(old, s)
              /\ s.phase = "tasks" /\ s.tasks = tasks /\ s.later = old.later
  BY <1>2, <1>5, <1>9, <1>11, TasksBecome DEF old
<1>13. QED  BY <1>2, <1>6, <1>8, <1>12 DEF old, tasks

LEMMA TaskFailsIs ==
  ASSUME Base, NEW q \in Requests, TaskFails(q)
  PROVE  LET old == requests[q] IN
         /\ old.phase = "tasks" /\ memories' = memories /\ relationships' = relationships
         /\ \E t, s :
              /\ t \in old.tasks
              /\ t.memory \in Memories
              /\ torn' = [memories |-> torn.memories \cup
                            (IF t.kind = "replace" THEN {} ELSE {t.memory}),
                          relationships |-> torn.relationships]
              /\ Becomes(q, s) /\ GoesOn(old, s)
              /\ s.phase = "tasks" /\ s.tasks = old.tasks \ {t} /\ s.later = old.later
<1> DEFINE old == requests[q]
<1>1. PICK t \in old.tasks :
         /\ requests' = [requests EXCEPT ![q].tasks = @ \ {t}]
         /\ Tear(IF t.kind = "replace" THEN {} ELSE {t.memory}, {})
  BY DEF TaskFails
<1>2. /\ old.phase = "tasks" /\ relationships' = relationships /\ memories' = memories
      /\ starts' = starts
  BY DEF TaskFails
<1> DEFINE tasks == old.tasks \ {t}
<1>3. requests' = [requests EXCEPT ![q].tasks = tasks]
  BY <1>1
<1>4. torn' = [memories |-> torn.memories \cup (IF t.kind = "replace" THEN {} ELSE {t.memory}),
               relationships |-> torn.relationships]
  BY <1>1 DEF Tear
<1>5. Good(old)
  BY DEF Base
<1> HIDE DEF old
<1>6. old.tasks \in SUBSET Call /\ (\A u \in old.tasks : u.memory \in old.touches)
      /\ (old.kind = "edit" => \A u \in old.tasks : u.kind = "replace")
  BY <1>5, RequestFields DEF Good, Shape, Work
<1>7. t.memory \in Memories
  BY <1>6, CallIs
<1>8. /\ tasks \in SUBSET Call /\ (\A u \in tasks : u.memory \in old.touches)
      /\ (old.kind = "edit" => \A u \in tasks : u.kind = "replace")
  BY <1>6
<1> HIDE DEF tasks
<1>9. \E s : /\ Becomes(q, s) /\ GoesOn(old, s)
             /\ s.phase = "tasks" /\ s.tasks = tasks /\ s.later = old.later
  BY <1>2, <1>3, <1>8, TasksBecome DEF old
<1>10. QED  BY <1>2, <1>4, <1>7, <1>9 DEF old, tasks

LEMMA SettleIs ==
  ASSUME Base, NEW q \in Requests, Settle(q)
  PROVE  LET old == requests[q] IN
         /\ old.phase = "tasks" /\ old.tasks = {}
         /\ memories' = memories /\ relationships' = relationships /\ torn' = torn
         /\ \/ \E s : /\ Becomes(q, s) /\ GoesOn(old, s)
                      /\ s.phase = "tasks" /\ s.tasks = old.later /\ s.later = {}
            \/ \E s : /\ old.later = {} /\ old.kind = "delete"
                      /\ Becomes(q, s) /\ GoesOn(old, s)
                      /\ s.phase = "drop" /\ s.tasks = {} /\ s.later = {}
            \/ old.later = {} /\ old.kind # "delete" /\ Becomes(q, Idle)
<1> DEFINE old == requests[q]
           on == Made(old.kind, old.phase, old.rel, old.doc, old.later, {}, old.touches)
           drop == Made(old.kind, "drop", old.rel, old.doc, old.tasks, old.later, old.touches)
<1>1. Good(old)
  BY DEF Base
<1>2. /\ old.phase = "tasks" /\ old.tasks = {}
      /\ memories' = memories /\ relationships' = relationships /\ torn' = torn /\ starts' = starts
  BY DEF Settle
<1>3. \/ requests' = [requests EXCEPT ![q] = [old EXCEPT !.tasks = old.later, !.later = {}]]
      \/ /\ old.later = {} /\ old.kind = "delete"
         /\ requests' = [requests EXCEPT ![q] = [old EXCEPT !.phase = "drop"]]
      \/ old.later = {} /\ old.kind # "delete" /\ requests' = [requests EXCEPT ![q] = Idle]
  BY DEF Settle, Finish
<1> HIDE DEF old
<1>4. IsRequest(old) /\ Shape(old) /\ Doc(old.doc)
  BY <1>1 DEF Good
<1>5. [old EXCEPT !.tasks = old.later, !.later = {}] = on /\ [old EXCEPT !.phase = "drop"] = drop
  BY <1>4, Changed
<1>6. /\ old.kind \in Kinds /\ old.phase \in Phases /\ old.tasks \in SUBSET Call
      /\ old.later \in SUBSET Call /\ old.touches \in SUBSET Memories /\ old.rel \in Ids \cup {"none"}
      /\ "drop" \in Phases /\ {} \in SUBSET Call
  BY <1>4, RequestFields DEF Phases
<1>7. /\ on.kind = old.kind /\ on.phase = old.phase /\ on.rel = old.rel /\ on.doc = old.doc
      /\ on.tasks = old.later /\ on.later = {} /\ on.touches = old.touches
      /\ Work(on) = old.later \cup {} /\ IsRequest(on)
  <2>1. IsRequest(on)
    BY <1>4, <1>6, MadeIs
  <2>2. QED  BY <2>1 DEF Made, Work
<1>8. /\ drop.kind = old.kind /\ drop.phase = "drop" /\ drop.rel = old.rel /\ drop.doc = old.doc
      /\ drop.tasks = old.tasks /\ drop.later = old.later /\ drop.touches = old.touches
      /\ Work(drop) = old.tasks \cup old.later /\ IsRequest(drop)
  <2>1. IsRequest(drop)
    BY <1>4, <1>6, MadeIs
  <2>2. QED  BY <2>1 DEF Made, Work
<1> HIDE DEF on, drop
<1>9. old.later \subseteq Work(old)
  BY DEF Work
<1>10. old.kind # "none"
  BY <1>2, <1>4 DEF Shape, Idle
<1>11. Good(on)
  <2>1. Shape(on)
    BY <1>2, <1>4, <1>7, <1>9, <1>10 DEF Shape
  <2>2. QED  BY <1>4, <1>7, <2>1 DEF Good
<1>12. ASSUME old.later = {}, old.kind = "delete" PROVE Good(drop)
  <2>1. Shape(drop)
    BY <1>2, <1>4, <1>8, <1>12 DEF Shape
  <2>2. QED  BY <1>4, <1>8, <2>1 DEF Good
<1>13. CASE requests' = [requests EXCEPT ![q] = [old EXCEPT !.tasks = old.later, !.later = {}]]
  <2>1. Becomes(q, on) /\ GoesOn(old, on)
    BY <1>2, <1>5, <1>7, <1>11, <1>13 DEF Becomes, GoesOn
  <2>2. on.phase = "tasks" /\ on.tasks = old.later /\ on.later = {}
    BY <1>2, <1>7
  <2>3. QED  BY <1>2, <2>1, <2>2 DEF old
<1>14. CASE /\ old.later = {} /\ old.kind = "delete"
            /\ requests' = [requests EXCEPT ![q] = [old EXCEPT !.phase = "drop"]]
  <2>1. Becomes(q, drop) /\ GoesOn(old, drop)
    BY <1>2, <1>5, <1>8, <1>12, <1>14 DEF Becomes, GoesOn
  <2>2. drop.phase = "drop" /\ drop.tasks = {} /\ drop.later = {}
    BY <1>2, <1>8, <1>14
  <2>3. QED  BY <1>2, <1>14, <2>1, <2>2 DEF old
<1>15. CASE old.later = {} /\ old.kind # "delete" /\ requests' = [requests EXCEPT ![q] = Idle]
  <2>1. Becomes(q, Idle)
    BY <1>2, <1>15, IdleIs DEF Becomes
  <2>2. QED  BY <1>2, <1>15, <2>1 DEF old
<1>16. QED  BY <1>3, <1>13, <1>14, <1>15

LEMMA DropIs ==
  ASSUME Base, NEW q \in Requests, Drop(q)
  PROVE  LET old == requests[q]
             r == old.rel IN
         /\ old.kind = "delete" /\ old.phase = "drop" /\ Work(old) = {} /\ r \in Ids
         /\ Becomes(q, Idle) /\ memories' = memories /\ torn' = torn
         /\ relationships' = [relationships EXCEPT ![r] = [relationships[r] EXCEPT !.exists = FALSE]]
<1>1. Good(requests[q]) /\ requests[q].phase = "drop"
  BY DEF Drop, Base
<1>2. requests[q].kind = "delete" /\ Work(requests[q]) = {} /\ requests[q].rel \in Ids
  BY <1>1 DEF Good, Shape
<1>3. Becomes(q, Idle)
  BY IdleIs DEF Drop, Finish, Becomes
<1>4. memories' = memories /\ torn' = torn
      /\ relationships' = [relationships EXCEPT ![requests[q].rel] =
                             [relationships[requests[q].rel] EXCEPT !.exists = FALSE]]
  BY DEF Drop
<1>5. QED  BY <1>1, <1>2, <1>3, <1>4

LEMMA DropFailsIs ==
  ASSUME Base, NEW q \in Requests, DropFails(q)
  PROVE  LET old == requests[q]
             r == old.rel IN
         /\ old.kind = "delete" /\ old.phase = "drop" /\ Work(old) = {} /\ r \in Ids
         /\ Becomes(q, Idle) /\ memories' = memories /\ relationships' = relationships
         /\ torn' = [memories |-> torn.memories, relationships |-> torn.relationships \cup {r}]
<1>1. Good(requests[q]) /\ requests[q].phase = "drop"
  BY DEF DropFails, Base
<1>2. requests[q].kind = "delete" /\ Work(requests[q]) = {} /\ requests[q].rel \in Ids
  BY <1>1 DEF Good, Shape
<1>3. Becomes(q, Idle)
  BY IdleIs DEF DropFails, Finish, Becomes
<1>4. memories' = memories /\ relationships' = relationships
      /\ torn' = [memories |-> torn.memories, relationships |-> torn.relationships \cup {requests[q].rel}]
  BY DEF DropFails, Tear
<1>5. QED  BY <1>1, <1>2, <1>3, <1>4

-----------------------------------------------------------------------------
(* Types, and orders in which no two members share a position.             *)

LEMMA BaseInit ==
  ASSUME Init
  PROVE  Base
<1>1. PICK first \in Ids, doc \in {Absent} \cup {Fresh(ids) : ids \in Members}
                            \cup {[Fresh(ids) EXCEPT !.order = Unordered] : ids \in Members} :
       /\ relationships = [r \in Ids |-> IF r = first THEN doc ELSE Absent]
       /\ memories = [m \in Memories |->
            IF m \in Owned /\ m \in ToSet(doc.related)
            THEN [links |-> {first}, count |-> 1, deleted |-> FALSE]
            ELSE [links |-> {}, count |-> 0, deleted |-> FALSE]]
  BY DEF Init
<1>2. Doc(doc) /\ Doc(Absent)
  BY FreshIs, AbsentIs
<1>3. memories \in [Memories -> Memory]
  BY <1>1 DEF Memory
<1>4. DOMAIN relationships = Ids /\ \A r \in Ids : Doc(relationships[r])
  BY <1>1, <1>2
<1>5. DOMAIN requests = Requests /\ \A q \in Requests : Good(requests[q])
  BY IdleIs DEF Init
<1>6. starts \in 0..MaxStarts
  BY ConstantsAssumption DEF Init, ConstantsAssumption
<1>7. torn \in [memories : SUBSET Memories, relationships : SUBSET Ids]
  BY DEF Init
<1>8. QED  BY <1>3, <1>4, <1>5, <1>6, <1>7 DEF Base

LEMMA BaseBegun ==
  ASSUME Base, NEW q \in Requests, NEW s, Good(s), Begun(q, s)
  PROVE  Base'
<1>1. s.touches \in SUBSET Memories
  BY RequestFields DEF Good
<1>2. torn' \in [memories : SUBSET Memories, relationships : SUBSET Ids]
  <2> DEFINE busy == UNION {requests[p].touches : p \in Running}
             rels == {requests[p].rel : p \in Running}
  <2>1. torn' = [memories |-> torn.memories \cup
                   (IF s.rel \in torn.relationships THEN s.touches ELSE s.touches \cap busy),
                 relationships |-> torn.relationships \cup ({s.rel} \cap rels \cap Ids)]
    BY DEF Begun
  <2> HIDE DEF busy, rels
  <2>2. torn.memories \in SUBSET Memories /\ torn.relationships \in SUBSET Ids
    BY DEF Base
  <2>3. QED  BY <1>1, <2>1, <2>2
<1>3. memories' \in [Memories -> Memory]
  BY DEF Begun, Base
<1>4. DOMAIN relationships' = Ids /\ \A r \in Ids : Doc(relationships'[r])
  BY DEF Begun, Base
<1>5. starts' \in 0..MaxStarts /\ requests' = [requests EXCEPT ![q] = s]
  BY DEF Begun
<1>6. QED  BY <1>2, <1>3, <1>4, <1>5, BaseStep

LEMMA WrittenIs ==
  ASSUME NEW was, Doc(was), NEW doc, Doc(doc)
  PROVE  LET new == Merged(was, doc) IN
         /\ Doc(new) /\ new.exists = was.exists /\ new.version = doc.version
         /\ new.related = was.related /\ new.count = was.count /\ new.order = doc.order
<1> DEFINE new == Merged(was, doc)
<1>1. /\ was.exists \in BOOLEAN /\ was.related \in Seq(Memories) /\ was.count \in Nat
      /\ was = [exists |-> was.exists, related |-> was.related, count |-> was.count,
                order |-> was.order, version |-> was.version]
  BY DocFields
<1>2. /\ doc.order \in OrderOn(DOMAIN doc.order) /\ DOMAIN doc.order \in SUBSET Memories
      /\ doc.version \in Nat
  BY DocFields
<1>3. new = [exists |-> was.exists, related |-> was.related, count |-> was.count,
             order |-> doc.order, version |-> doc.version]
  <2>1. new = [was EXCEPT !.order = doc.order, !.version = doc.version]
    BY DEF Merged
  <2> HIDE DEF new
  <2>2. QED  BY <1>1, <2>1
<1>4. Doc(new)
  <2>1. Doc([exists |-> was.exists, related |-> was.related, count |-> was.count,
             order |-> doc.order, version |-> doc.version])
    BY <1>1, <1>2, DocMade
  <2>2. QED  BY <1>3, <2>1
<1> HIDE DEF new
<1>5. QED  BY <1>3, <1>4 DEF new

LEMMA DroppedIs ==
  ASSUME NEW was, Doc(was)
  PROVE  LET new == [was EXCEPT !.exists = FALSE] IN
         /\ Doc(new) /\ ~ new.exists /\ new.version = was.version
         /\ new.related = was.related /\ new.count = was.count /\ new.order = was.order
<1> DEFINE gone == FALSE
           new == [was EXCEPT !.exists = gone]
<1>1. /\ was.exists \in BOOLEAN /\ was.related \in Seq(Memories) /\ was.count \in Nat
      /\ was.version \in Nat
      /\ was.order \in OrderOn(DOMAIN was.order) /\ DOMAIN was.order \in SUBSET Memories
      /\ was = [exists |-> was.exists, related |-> was.related, count |-> was.count,
                order |-> was.order, version |-> was.version]
  BY DocFields
<1>2. gone \in BOOLEAN /\ ~ gone
  OBVIOUS
<1> HIDE DEF gone
<1>3. new = [exists |-> gone, related |-> was.related, count |-> was.count,
             order |-> was.order, version |-> was.version]
  BY <1>1
<1> HIDE DEF new
<1>4. Doc(new)
  <2>1. Doc([exists |-> gone, related |-> was.related, count |-> was.count,
             order |-> was.order, version |-> was.version])
    BY <1>1, <1>2, DocMade
  <2>2. QED  BY <1>3, <2>1
<1>5. QED  BY <1>2, <1>3, <1>4 DEF new, gone

LEMMA BaseNext ==
  ASSUME Base, [Next]_vars
  PROVE  Base'
<1>1. CASE UNCHANGED vars
  BY <1>1 DEF vars, Base
<1>2. ASSUME NEW q \in Requests, CreateRelationship(q) PROVE Base'
  BY <1>2, CreateIs, BaseBegun
<1>3. ASSUME NEW q \in Requests, NEW r \in Ids, UpdateRelationship(q, r) PROVE Base'
  BY <1>3, UpdateIs, BaseBegun
<1>4. ASSUME NEW q \in Requests, NEW r \in Ids, Reorder(q, r) PROVE Base'
  BY <1>4, ReorderStarts, BaseBegun
<1>5. ASSUME NEW q \in Requests, NEW r \in Ids, DeleteRelationship(q, r) PROVE Base'
  BY <1>5, DeleteStarts, BaseBegun
<1>6. ASSUME NEW q \in Requests, NEW m \in Memories, NEW delete \in BOOLEAN, EditMemory(q, m, delete)
      PROVE  Base'
  BY <1>6, EditStarts, BaseBegun
<1>7. /\ memories \in [Memories -> Memory]
      /\ DOMAIN relationships = Ids /\ (\A r \in Ids : Doc(relationships[r]))
      /\ torn \in [memories : SUBSET Memories, relationships : SUBSET Ids]
      /\ starts \in 0..MaxStarts
      /\ \A q \in Requests : Good(requests[q])
  BY DEF Base
<1>8. ASSUME NEW q \in Requests, Insert(q) PROVE Base'
  <2>1. PICK r, s :
          /\ r \in Ids
          /\ relationships' = [relationships EXCEPT ![r] = requests[q].doc]
          /\ Becomes(q, s) /\ memories' = memories /\ torn' = torn
    BY <1>8, InsertIs
  <2>2. Doc(requests[q].doc)
    BY <1>7 DEF Good
  <2>3. DOMAIN relationships' = Ids /\ \A x \in Ids : Doc(relationships'[x])
    BY <1>7, <2>1, <2>2
  <2>4. QED  BY <1>7, <2>1, <2>3, BaseStep DEF Becomes
<1>9. ASSUME NEW q \in Requests, Write(q) PROVE Base'
  <2> DEFINE old == requests[q]
             r == old.rel
             was == relationships[r]
             next == IF old.kind = "reorder" THEN Merged(was, old.doc) ELSE old.doc
  <2>1. /\ r \in Ids /\ memories' = memories /\ torn' = torn
        /\ \/ relationships' = relationships /\ Becomes(q, Idle)
           \/ relationships' = [relationships EXCEPT ![r] = next] /\ \E s : Becomes(q, s)
    BY <1>9, WriteIs
  <2>2. Doc(old.doc) /\ Doc(was)
    BY <1>7, <2>1 DEF Good
  <2>3. Doc(next)
    BY <2>2, WrittenIs
  <2> HIDE DEF next
  <2>4. DOMAIN relationships' = Ids /\ \A x \in Ids : Doc(relationships'[x])
    BY <1>7, <2>1, <2>3
  <2>5. PICK s : Becomes(q, s)
    BY <2>1
  <2>6. QED  BY <1>7, <2>1, <2>4, <2>5, BaseStep DEF Becomes
<1>10. ASSUME NEW q \in Requests, WriteFails(q) PROVE Base'
  BY <1>7, <1>10, WriteFailsIs, BaseStep DEF Becomes
<1>11. ASSUME NEW q \in Requests, Perform(q) PROVE Base'
  <2>1. PICK m, new, s :
          /\ m \in Memories /\ new \in Memory
          /\ memories' = [memories EXCEPT ![m] = new]
          /\ Becomes(q, s) /\ relationships' = relationships /\ torn' = torn
    BY <1>11, PerformIs
  <2>2. memories' \in [Memories -> Memory]
    BY <1>7, <2>1
  <2>3. QED  BY <1>7, <2>1, <2>2, BaseStep DEF Becomes
<1>12. ASSUME NEW q \in Requests, TaskFails(q) PROVE Base'
  <2>1. PICK m, s, kind :
          /\ m \in Memories
          /\ torn' = [memories |-> torn.memories \cup (IF kind = "replace" THEN {} ELSE {m}),
                      relationships |-> torn.relationships]
          /\ Becomes(q, s) /\ relationships' = relationships /\ memories' = memories
    BY <1>12, TaskFailsIs
  <2>2. torn' \in [memories : SUBSET Memories, relationships : SUBSET Ids]
    BY <1>7, <2>1
  <2>3. QED  BY <1>7, <2>1, <2>2, BaseStep DEF Becomes
<1>13. ASSUME NEW q \in Requests, Settle(q) PROVE Base'
  <2>1. PICK s : Becomes(q, s)
    BY <1>13, SettleIs
  <2>2. relationships' = relationships /\ memories' = memories /\ torn' = torn
    BY <1>13, SettleIs
  <2>3. QED  BY <1>7, <2>1, <2>2, BaseStep DEF Becomes
<1>14. ASSUME NEW q \in Requests, Drop(q) PROVE Base'
  <2> DEFINE r == requests[q].rel
             next == [relationships[r] EXCEPT !.exists = FALSE]
  <2>1. /\ r \in Ids /\ Becomes(q, Idle) /\ memories' = memories /\ torn' = torn
        /\ relationships' = [relationships EXCEPT ![r] = next]
    BY <1>14, DropIs
  <2>2. Doc(next)
    BY <1>7, <2>1, DroppedIs
  <2> HIDE DEF next
  <2>3. DOMAIN relationships' = Ids /\ \A x \in Ids : Doc(relationships'[x])
    BY <1>7, <2>1, <2>2
  <2>4. QED  BY <1>7, <2>1, <2>3, BaseStep DEF Becomes
<1>15. ASSUME NEW q \in Requests, DropFails(q) PROVE Base'
  <2>1. /\ requests[q].rel \in Ids
        /\ Becomes(q, Idle) /\ memories' = memories /\ relationships' = relationships
        /\ torn' = [memories |-> torn.memories,
                    relationships |-> torn.relationships \cup {requests[q].rel}]
    BY <1>15, DropFailsIs
  <2>2. torn' \in [memories : SUBSET Memories, relationships : SUBSET Ids]
    BY <1>7, <2>1
  <2>3. QED  BY <1>7, <2>1, <2>2, BaseStep DEF Becomes
<1>16. QED
  BY <1>1, <1>2, <1>3, <1>4, <1>5, <1>6, <1>8, <1>9, <1>10, <1>11, <1>12, <1>13, <1>14, <1>15
     DEF Next

\* Whatever requests overlap and whichever calls fail, memories, relationships and
\* requests have their types: no count is negative, and what is stored as an order
\* has a number for each of its members.
THEOREM TypeCorrect == Spec => []TypeOK
<1>1. Init => Base
  BY BaseInit
<1>2. Base /\ [Next]_vars => Base'
  BY BaseNext
<1>3. Base => TypeOK
  BY BaseTypes
<1>4. QED  BY <1>1, <1>2, <1>3, PTL DEF Spec

-----------------------------------------------------------------------------
(* What is stored of a relationship, and what a request in hand will       *)
(* store.  While no call of a deletion has failed and no two requests had  *)
(* the relationship at once, one request has it at most, what it has in    *)
(* hand was made of what is stored, and both are sound.                    *)

Ready(s, old) ==
  /\ s.phase \in {"insert", "write"} => Sound(s.doc)
  /\ s.phase = "write" => old.exists
  /\ (s.phase = "write" /\ s.kind = "reorder") =>
       s.doc.related = old.related /\ s.doc.count = old.count
  /\ (s.phase = "write" /\ s.kind = "update") =>
       \A m \in Memories : m \notin s.touches =>
         (m \in ToSet(s.doc.related) <=> m \in ToSet(old.related))
  /\ s.kind = "delete" => s.touches = ToSet(old.related) \cap Owned

Known ==
  /\ \A r \in Ids : relationships[r].exists => relationships[r].version > 0
  /\ \A r \in torn.relationships : relationships[r].version > 0
  /\ \A q \in Requests : requests[q].rel \in Ids => relationships[requests[q].rel].version > 0

Alone ==
  \A r \in Ids : WholeRelationship(r) =>
    \A p, q \in Requests : requests[p].rel = r /\ requests[q].rel = r => p = q

AllSound == \A r \in Ids : WholeRelationship(r) => Sound(relationships[r])

AllReady ==
  \A q \in Requests : WholeRelationship(requests[q].rel) =>
    Ready(requests[q], relationships[requests[q].rel])

Stored == Known /\ Alone /\ AllSound /\ AllReady

LEMMA IdleReady == \A old : Ready(Idle, old)
  BY IdleIs DEF Ready

\* Who is at work on a relationship is running.
LEMMA AtWork ==
  ASSUME Base, NEW q \in Requests
  PROVE  /\ requests[q].kind = "none" => requests[q] = Idle
         /\ requests[q].rel \in Ids => q \in Running
<1>1. requests[q].kind = "none" => requests[q] = Idle
  BY DEF Base, Good, Shape
<1>2. Idle.rel \notin Ids
  BY IdleIs, ConstantsAssumption DEF ConstantsAssumption
<1>3. QED  BY <1>1, <1>2 DEF Running

LEMMA StoredInit ==
  ASSUME Init
  PROVE  Stored
<1>1. PICK first \in Ids, doc \in {Absent} \cup {Fresh(ids) : ids \in Members}
                            \cup {[Fresh(ids) EXCEPT !.order = Unordered] : ids \in Members} :
       relationships = [r \in Ids |-> IF r = first THEN doc ELSE Absent]
  BY DEF Init
<1>2. Sound(doc) /\ Sound(Absent)
  BY FreshIs, AbsentIs
<1>3. ~ Absent.exists
  BY DEF Absent
<1>4. doc.exists => doc.version > 0
  <2>1. CASE doc = Absent
    BY <1>3, <2>1
  <2>2. CASE doc # Absent
    <3>1. doc.version = 1
      <4>1. PICK ids \in Members : doc = Fresh(ids) \/ doc = [Fresh(ids) EXCEPT !.order = Unordered]
        BY <1>1, <2>2
      <4>2. Fresh(ids).version = 1 /\ [Fresh(ids) EXCEPT !.order = Unordered].version = 1
        BY FreshIs
      <4>3. QED  BY <4>1, <4>2
    <3>2. QED  BY <3>1
  <2>3. QED  BY <2>1, <2>2
<1>5. torn.relationships = {} /\ \A q \in Requests : requests[q] = Idle
  BY DEF Init
<1>6. \A q \in Requests : requests[q].rel \notin Ids
  BY <1>5, IdleIs, ConstantsAssumption DEF ConstantsAssumption
<1>7. Known
  BY <1>1, <1>3, <1>4, <1>5, <1>6 DEF Known
<1>8. Alone
  BY <1>6 DEF Alone
<1>9. AllSound
  BY <1>1, <1>2 DEF AllSound
<1>10. AllReady
  BY <1>5, IdleReady DEF AllReady
<1>11. QED  BY <1>7, <1>8, <1>9, <1>10 DEF Stored

\* A request begins.
LEMMA StoredBegun ==
  ASSUME Base, Stored, NEW q \in Requests, NEW s, Good(s), Begun(q, s),
         s.rel \in Ids => relationships[s.rel].exists,
         (s.rel \in Ids => Sound(relationships[s.rel])) => Ready(s, relationships[s.rel])
  PROVE  Stored'
<1> DEFINE rels == {requests[p].rel : p \in Running}
<1>1. /\ requests' = [requests EXCEPT ![q] = s] /\ relationships' = relationships
      /\ torn'.relationships = torn.relationships \cup ({s.rel} \cap rels \cap Ids)
  BY DEF Begun
<1>2. \A p \in Requests : requests'[p] = IF p = q THEN s ELSE requests[p]
  BY <1>1 DEF Base
<1>3. torn.relationships \subseteq Ids
  BY DEF Base
<1>4. s.rel \in Ids => relationships[s.rel].version > 0
  BY DEF Stored, Known
<1>5. \A p \in Requests : requests[p].rel \in Ids => requests[p].rel \in rels
  BY AtWork
<1> HIDE DEF rels
<1>6. Known'
  BY <1>1, <1>2, <1>4 DEF Stored, Known
<1>7. Alone'
  <2> SUFFICES ASSUME NEW r \in Ids, r \notin torn'.relationships,
                      NEW p1 \in Requests, NEW p2 \in Requests,
                      requests'[p1].rel = r, requests'[p2].rel = r
               PROVE  p1 = p2
    BY DEF Alone, WholeRelationship
  <2>1. r \notin torn.relationships /\ ~ (s.rel = r /\ r \in rels)
    BY <1>1
  <2>2. CASE s.rel = r
    <3>1. \A p \in Requests : requests[p].rel # r
      BY <1>5, <2>1, <2>2
    <3>2. QED  BY <1>2, <3>1
  <2>3. CASE s.rel # r
    BY <1>2, <2>1, <2>3 DEF Stored, Alone, WholeRelationship
  <2>4. QED  BY <2>2, <2>3
<1>8. AllSound'
  BY <1>1 DEF Stored, AllSound, WholeRelationship
<1>9. AllReady'
  <2> SUFFICES ASSUME NEW p \in Requests, requests'[p].rel \notin torn'.relationships
               PROVE  Ready(requests'[p], relationships[requests'[p].rel])
    BY <1>1 DEF AllReady, WholeRelationship
  <2>1. requests'[p].rel \notin torn.relationships
    BY <1>1
  <2>2. CASE p = q
    <3>1. s.rel \in Ids => Sound(relationships[s.rel])
      BY <1>2, <2>1, <2>2 DEF Stored, AllSound, WholeRelationship
    <3>2. QED  BY <1>2, <2>2, <3>1
  <2>3. CASE p # q
    BY <1>2, <2>1, <2>3 DEF Stored, AllReady, WholeRelationship
  <2>4. QED  BY <2>2, <2>3
<1>10. QED  BY <1>6, <1>7, <1>8, <1>9 DEF Stored

\* A request goes on, or ends, and relationships stay as they are.
LEMMA StoredKept ==
  ASSUME Base, Stored, NEW q \in Requests, NEW s, Becomes(q, s), relationships' = relationships,
         \/ s = Idle
         \/ /\ GoesOn(requests[q], s)
            /\ s.phase \in {"insert", "write"} => s.phase = requests[q].phase,
         torn.relationships \subseteq torn'.relationships,
         torn'.relationships \subseteq torn.relationships \cup ({requests[q].rel} \cap Ids)
  PROVE  Stored'
<1>1. \A p \in Requests : requests'[p] = IF p = q THEN s ELSE requests[p]
  BY DEF Base, Becomes
<1>2. s.rel \in Ids => s.rel = requests[q].rel
  BY IdleIs, ConstantsAssumption DEF GoesOn, ConstantsAssumption
<1>3. Known'
  BY <1>1, <1>2 DEF Stored, Known
<1>4. Alone'
  BY <1>1, <1>2 DEF Stored, Alone, WholeRelationship
<1>5. AllSound'
  BY DEF Stored, AllSound, WholeRelationship
<1>6. AllReady'
  <2> SUFFICES ASSUME NEW p \in Requests, requests'[p].rel \notin torn'.relationships
               PROVE  Ready(requests'[p], relationships[requests'[p].rel])
    BY DEF AllReady, WholeRelationship
  <2>1. requests'[p].rel \notin torn.relationships
    OBVIOUS
  <2>2. CASE p = q
    <3>1. CASE s = Idle
      BY <1>1, <2>2, <3>1, IdleReady
    <3>2. CASE /\ GoesOn(requests[q], s)
               /\ s.phase \in {"insert", "write"} => s.phase = requests[q].phase
      <4>1. s.rel = requests[q].rel
        BY <3>2 DEF GoesOn
      <4>2. Ready(requests[q], relationships[s.rel])
        BY <1>1, <2>1, <2>2, <4>1 DEF Stored, AllReady, WholeRelationship
      <4>3. Ready(s, relationships[s.rel])
        BY <3>2, <4>2 DEF Ready, GoesOn
      <4>4. QED  BY <1>1, <2>2, <4>3
    <3>3. QED  BY <3>1, <3>2
  <2>3. CASE p # q
    BY <1>1, <2>1, <2>3 DEF Stored, AllReady, WholeRelationship
  <2>4. QED  BY <2>2, <2>3
<1>7. QED  BY <1>3, <1>4, <1>5, <1>6 DEF Stored

\* A request writes the relationship r, which no other one has.
LEMMA StoredWritten ==
  ASSUME Base, Stored, NEW q \in Requests, NEW s, Becomes(q, s), NEW r \in Ids, NEW doc,
         relationships' = [relationships EXCEPT ![r] = doc], torn' = torn,
         s = Idle \/ (s.rel = r /\ s.phase = "tasks" /\ s.kind # "delete"),
         doc.version > 0, WholeRelationship(r) => Sound(doc),
         WholeRelationship(r) => \A p \in Requests \ {q} : requests[p].rel # r
  PROVE  Stored'
<1>1. \A p \in Requests : requests'[p] = IF p = q THEN s ELSE requests[p]
  BY DEF Base, Becomes
<1>2. s.rel \in Ids => s.rel = r
  BY IdleIs, ConstantsAssumption DEF ConstantsAssumption
<1>3. \A x \in Ids : relationships'[x] = IF x = r THEN doc ELSE relationships[x]
  BY DEF Base
<1>4. Known'
  <2>1. torn.relationships \subseteq Ids
    BY DEF Base
  <2>2. QED  BY <1>1, <1>2, <1>3, <2>1 DEF Stored, Known
<1>5. Alone'
  BY <1>1, <1>2 DEF Stored, Alone, WholeRelationship
<1>6. AllSound'
  BY <1>3 DEF Stored, AllSound, WholeRelationship
<1>7. AllReady'
  <2> SUFFICES ASSUME NEW p \in Requests, requests'[p].rel \notin torn.relationships
               PROVE  Ready(requests'[p], relationships'[requests'[p].rel])
    BY DEF AllReady, WholeRelationship
  <2>1. CASE p = q
    <3>1. CASE s = Idle
      BY <1>1, <2>1, <3>1, IdleReady
    <3>2. CASE s.rel = r /\ s.phase = "tasks" /\ s.kind # "delete"
      BY <1>1, <2>1, <3>2 DEF Ready
    <3>3. QED  BY <3>1, <3>2
  <2>2. CASE p # q
    <3>1. requests'[p] = requests[p] /\ requests[p].rel \notin torn.relationships
      BY <1>1, <2>2
    <3>2. requests[p].rel # r
      BY <2>2, <3>1 DEF WholeRelationship
    <3>3. relationships'[requests[p].rel] = relationships[requests[p].rel]
      BY <3>2
    <3>4. QED  BY <3>1, <3>3 DEF Stored, AllReady, WholeRelationship
  <2>3. QED  BY <2>1, <2>2
<1>8. QED  BY <1>4, <1>5, <1>6, <1>7 DEF Stored

LEMMA StoredNext ==
  ASSUME Base, Stored, [Next]_vars
  PROVE  Stored'
<1>1. /\ \A r \in Ids : Doc(relationships[r])
      /\ \A q \in Requests : Good(requests[q])
      /\ "none" \notin torn.relationships
  BY ConstantsAssumption DEF Base, ConstantsAssumption
<1>2. CASE UNCHANGED vars
  BY <1>2 DEF vars, Stored, Known, Alone, AllSound, AllReady, WholeRelationship
<1>3. ASSUME NEW q \in Requests, CreateRelationship(q) PROVE Stored'
  <2>0. PICK s : Begun(q, s) /\ Good(s) /\ \E ids \in Members : StartCreate(s, ids)
    BY <1>3, CreateIs
  <2>1. PICK ids \in Members : Begun(q, s) /\ Good(s) /\ StartCreate(s, ids)
    BY <2>0
  <2>2. s.rel \notin Ids
    BY <2>1, ConstantsAssumption DEF StartCreate, ConstantsAssumption
  <2>3. Ready(s, relationships[s.rel])
    BY <2>1, FreshIs DEF StartCreate, Ready
  <2>4. QED  BY <2>1, <2>2, <2>3, StoredBegun
<1>4. ASSUME NEW q \in Requests, NEW r \in Ids, UpdateRelationship(q, r) PROVE Stored'
  <2>0. PICK s : /\ Begun(q, s) /\ Good(s)
                 /\ \E new \in SUBSET Memories, removed \in SUBSET Memories :
                      StartUpdate(s, r, new, removed)
    BY <1>4, UpdateIs
  <2>1. PICK new \in SUBSET Memories, removed \in SUBSET Memories :
          Begun(q, s) /\ Good(s) /\ StartUpdate(s, r, new, removed)
    BY <2>0
  <2>2. s.rel = r /\ relationships[r].exists
    BY <2>1 DEF StartUpdate
  <2>3. ASSUME Sound(relationships[r]) PROVE Ready(s, relationships[r])
    BY <2>1, <2>3 DEF StartUpdate, Ready
  <2>4. QED  BY <2>1, <2>2, <2>3, StoredBegun
<1>5. ASSUME NEW q \in Requests, NEW r \in Ids, Reorder(q, r) PROVE Stored'
  <2>1. PICK s : Begun(q, s) /\ Good(s) /\ StartReorder(s, r)
    BY <1>5, ReorderStarts
  <2>2. s.rel = r /\ relationships[r].exists
    BY <2>1 DEF StartReorder
  <2>3. ASSUME Sound(relationships[r]) PROVE Ready(s, relationships[r])
    BY <2>1, <2>3 DEF StartReorder, Ready
  <2>4. QED  BY <2>1, <2>2, <2>3, StoredBegun
<1>6. ASSUME NEW q \in Requests, NEW r \in Ids, DeleteRelationship(q, r) PROVE Stored'
  <2>1. PICK s : Begun(q, s) /\ Good(s) /\ StartDelete(s, r)
    BY <1>6, DeleteStarts
  <2>2. s.rel = r /\ relationships[r].exists /\ Ready(s, relationships[r])
    BY <2>1 DEF StartDelete, Ready
  <2>3. QED  BY <2>1, <2>2, StoredBegun
<1>7. ASSUME NEW q \in Requests, NEW m \in Memories, NEW delete \in BOOLEAN, EditMemory(q, m, delete)
      PROVE  Stored'
  <2>0. PICK s : Begun(q, s) /\ Good(s) /\ \E memory \in Memory : StartEdit(s, m, memory)
    BY <1>7, EditStarts
  <2>1. PICK memory \in Memory : Begun(q, s) /\ Good(s) /\ StartEdit(s, m, memory)
    BY <2>0
  <2>2. s.rel \notin Ids /\ Ready(s, relationships[s.rel])
    BY <2>1, ConstantsAssumption DEF StartEdit, ConstantsAssumption, Ready
  <2>3. QED  BY <2>1, <2>2, StoredBegun
<1>8. ASSUME NEW q \in Requests, Insert(q) PROVE Stored'
  <2> DEFINE old == requests[q]
  <2>1. /\ old.phase = "insert" /\ old.rel = "none" /\ torn' = torn
    BY <1>8, InsertIs
  <2>2. PICK r, s :
          /\ r \in Ids
          /\ relationships[r] = Absent
          /\ relationships' = [relationships EXCEPT ![r] = old.doc]
          /\ Becomes(q, s) /\ s.kind = "create" /\ s.phase = "tasks" /\ s.rel = r
    BY <1>8, InsertIs
  <2>3. old.doc.version > 0
    BY <1>1, <2>1 DEF Good, Shape
  <2>4. Sound(old.doc)
    BY <1>1, <2>1 DEF Stored, AllReady, WholeRelationship, Ready
  <2>5. \A p \in Requests : requests[p].rel # r
    <3>1. Absent.version = 0
      BY DEF Absent
    <3>2. QED  BY <2>2, <3>1 DEF Stored, Known
  <2> DEFINE doc == old.doc
  <2>6. doc.version > 0 /\ (WholeRelationship(r) => Sound(doc))
    BY <2>3, <2>4
  <2>7. relationships' = [relationships EXCEPT ![r] = doc]
    BY <2>2
  <2>8. /\ Becomes(q, s) /\ torn' = torn
        /\ s = Idle \/ (s.rel = r /\ s.phase = "tasks" /\ s.kind # "delete")
        /\ WholeRelationship(r) => \A p \in Requests \ {q} : requests[p].rel # r
    BY <2>1, <2>2, <2>5
  <2> HIDE DEF doc
  <2>9. r \in Ids
    BY <2>2
  <2>10. QED  BY <2>6, <2>7, <2>8, <2>9, StoredWritten
<1>9. ASSUME NEW q \in Requests, Write(q) PROVE Stored'
  <2> DEFINE old == requests[q]
             r == old.rel
             was == relationships[r]
             next == IF old.kind = "reorder" THEN Merged(was, old.doc) ELSE old.doc
  <2>1. /\ old.kind \in {"update", "reorder"} /\ old.phase = "write" /\ r \in Ids /\ torn' = torn
        /\ \/ relationships' = relationships /\ Becomes(q, Idle)
           \/ /\ relationships' = [relationships EXCEPT ![r] = next]
              /\ \E s : Becomes(q, s) /\ s.kind = old.kind /\ s.phase = "tasks" /\ s.rel = r
    BY <1>9, WriteIs
  <2>2. CASE relationships' = relationships /\ Becomes(q, Idle)
    BY <2>1, <2>2, StoredKept
  <2>3. CASE /\ relationships' = [relationships EXCEPT ![r] = next]
             /\ \E s : Becomes(q, s) /\ s.kind = old.kind /\ s.phase = "tasks" /\ s.rel = r
    <3>1. Doc(was) /\ Doc(old.doc) /\ old.doc.version > 0
      BY <1>1, <2>1 DEF Good, Shape
    <3> DEFINE doc == old.doc
               new == Merged(was, doc)
    <3>0. /\ new.related = was.related /\ new.count = was.count /\ new.order = doc.order
          /\ new.version = doc.version
      <4>1. Doc(was) /\ Doc(doc)
        BY <3>1
      <4> HIDE DEF was, doc
      <4>2. /\ Doc(new) /\ new.exists = was.exists /\ new.version = doc.version
            /\ new.related = was.related /\ new.count = was.count /\ new.order = doc.order
        BY <4>1, WrittenIs
      <4> HIDE DEF new
      <4>3. QED  BY <4>2
    <3>2. next.version > 0
      <4>1. old.kind = "reorder" => next = new
        OBVIOUS
      <4>2. old.kind # "reorder" => next = old.doc
        OBVIOUS
      <4> HIDE DEF next, new
      <4>3. QED  BY <3>0, <3>1, <4>1, <4>2
    <3>3. ASSUME WholeRelationship(r)
          PROVE  Sound(next) /\ \A p \in Requests \ {q} : requests[p].rel # r
      <4>1. Sound(was) /\ Ready(old, was)
        BY <2>1, <3>3 DEF Stored, AllSound, AllReady
      <4>2. Sound(old.doc)
        BY <2>1, <4>1 DEF Ready
      <4>3. CASE old.kind = "reorder"
        <5>1. next = new
          BY <4>3
        <5>2. was.related = doc.related /\ was.count = doc.count
          BY <2>1, <4>1, <4>3 DEF Ready
        <5> HIDE DEF new
        <5>3. next.related = doc.related /\ next.count = doc.count /\ next.order = doc.order
          BY <3>0, <5>1, <5>2
        <5> HIDE DEF next
        <5>4. Sound(next)
          BY <4>2, <5>3 DEF Sound
        <5>5. QED  BY <2>1, <3>3, <5>4 DEF Stored, Alone
      <4>4. CASE old.kind # "reorder"
        BY <2>1, <3>3, <4>2, <4>4 DEF Stored, Alone
      <4>5. QED  BY <4>3, <4>4
    <3>4. PICK s : Becomes(q, s) /\ s.kind = old.kind /\ s.phase = "tasks" /\ s.rel = r
      BY <2>3
    <3>5. s.kind # "delete"
      BY <2>1, <3>4
    <3> HIDE DEF next
    <3>6. relationships' = [relationships EXCEPT ![r] = next]
      BY <2>3
    <3>7. /\ r \in Ids /\ torn' = torn /\ Becomes(q, s)
          /\ s = Idle \/ (s.rel = r /\ s.phase = "tasks" /\ s.kind # "delete")
          /\ WholeRelationship(r) => Sound(next)
          /\ WholeRelationship(r) => \A p \in Requests \ {q} : requests[p].rel # r
      BY <2>1, <3>3, <3>4, <3>5
    <3> HIDE DEF r, old
    <3>8. QED  BY <3>2, <3>6, <3>7, StoredWritten
  <2>4. QED  BY <2>1, <2>2, <2>3
<1>10. ASSUME NEW q \in Requests, WriteFails(q) PROVE Stored'
  <2>1. Becomes(q, Idle) /\ relationships' = relationships /\ torn' = torn
    BY <1>10, WriteFailsIs
  <2>2. QED  BY <2>1, StoredKept
<1>11. ASSUME NEW q \in Requests, Perform(q) PROVE Stored'
  <2>1. PICK s : Becomes(q, s) /\ GoesOn(requests[q], s) /\ s.phase = "tasks"
    BY <1>11, PerformIs
  <2>2. relationships' = relationships /\ torn' = torn
    BY <1>11, PerformIs
  <2>3. QED  BY <2>1, <2>2, StoredKept
<1>12. ASSUME NEW q \in Requests, TaskFails(q) PROVE Stored'
  <2>1. relationships' = relationships
    BY <1>12, TaskFailsIs
  <2>2. PICK s : /\ Becomes(q, s) /\ GoesOn(requests[q], s) /\ s.phase = "tasks"
                 /\ torn'.relationships = torn.relationships
    BY <1>12, TaskFailsIs
  <2>3. QED  BY <2>1, <2>2, StoredKept
<1>13. ASSUME NEW q \in Requests, Settle(q) PROVE Stored'
  <2>1. relationships' = relationships /\ torn' = torn
    BY <1>13, SettleIs
  <2>2. PICK s : /\ Becomes(q, s)
                 /\ s = Idle \/ (GoesOn(requests[q], s) /\ s.phase \in {"tasks", "drop"})
    BY <1>13, SettleIs
  <2>3. QED  BY <2>1, <2>2, StoredKept
<1>14. ASSUME NEW q \in Requests, Drop(q) PROVE Stored'
  <2> DEFINE r == requests[q].rel
             next == [relationships[r] EXCEPT !.exists = FALSE]
  <2>1. /\ r \in Ids /\ Becomes(q, Idle) /\ torn' = torn
        /\ relationships' = [relationships EXCEPT ![r] = next]
    BY <1>14, DropIs
  <2>2. next.version = relationships[r].version /\ (Sound(relationships[r]) => Sound(next))
    <3>1. /\ next.version = relationships[r].version /\ next.related = relationships[r].related
          /\ next.count = relationships[r].count /\ next.order = relationships[r].order
      BY <1>1, <2>1, DroppedIs
    <3> HIDE DEF next
    <3>2. QED  BY <3>1 DEF Sound
  <2>3. next.version > 0
    BY <2>1, <2>2 DEF Stored, Known
  <2>4. WholeRelationship(r) => Sound(next)
    BY <2>1, <2>2 DEF Stored, AllSound
  <2>5. WholeRelationship(r) => \A p \in Requests \ {q} : requests[p].rel # r
    BY <2>1 DEF Stored, Alone
  <2> HIDE DEF next, r
  <2>6. QED  BY <2>1, <2>3, <2>4, <2>5, StoredWritten
<1>15. ASSUME NEW q \in Requests, DropFails(q) PROVE Stored'
  <2>1. /\ requests[q].rel \in Ids /\ Becomes(q, Idle) /\ relationships' = relationships
        /\ torn'.relationships = torn.relationships \cup {requests[q].rel}
    BY <1>15, DropFailsIs
  <2>2. QED  BY <2>1, StoredKept
<1>16. QED
  BY <1>2, <1>3, <1>4, <1>5, <1>6, <1>7, <1>8, <1>9, <1>10, <1>11, <1>12, <1>13, <1>14, <1>15
     DEF Next

LEMMA AlwaysStored == Spec => [](Base /\ Stored)
<1>1. Init => Base /\ Stored
  BY BaseInit, StoredInit
<1>2. (Base /\ Stored) /\ [Next]_vars => (Base /\ Stored)'
  BY BaseNext, StoredNext
<1>3. QED  BY <1>1, <1>2, PTL DEF Spec

\* No two members ever share a position, and a relationship that no two requests had
\* at once, and no deletion of which failed half-way, has a position for each of its
\* members, none for others, and their number: updates that start from an order, from
\* none, or from one with gaps keep the two lists of members in step.
THEOREM OrdersAlwaysMatch == Spec => []OrderMatches
<1>1. Base /\ Stored => OrderMatches
  BY DEF Base, Stored, AllSound, OrderMatches, Doc, Sound
<1>2. QED  BY AlwaysStored, <1>1, PTL

\* From every order that is ever stored, of any number of members, each reordering
\* that is not refused does to the order what it says; where move_to_index puts its
\* member is only claimed of orders without gaps.
THEOREM ReorderingsAlwaysMeant == Spec => []ReorderingsMeant
<1>1. ASSUME Base PROVE ReorderingsMeant
  <2> SUFFICES ASSUME NEW r \in Ids,
                      NEW op \in Operations(ToSet(relationships[r].related),
                                            Len(relationships[r].related) + 1),
                      Permitted(WorkingOrder(relationships[r].order, relationships[r].related),
                                relationships[r].related, op)
               PROVE  Meant(WorkingOrder(relationships[r].order, relationships[r].related),
                            ApplyReorder(relationships[r].order, relationships[r].related, op), op)
    BY DEF ReorderingsMeant
  <2>1. Doc(relationships[r])
    BY <1>1 DEF Base
  <2>2. Len(relationships[r].related) + 1 \in Nat
    BY <2>1, DocFields, LenProperties
  <2>3. QED  BY <2>1, <2>2, ReorderedIs
<1>2. QED  BY AlwaysStored, <1>1, PTL

-----------------------------------------------------------------------------
(* The calls a request still has for one memory.  work are those, now      *)
(* those of them that may be taken, rel the relationship they are for, and *)
(* mem the memory.                                                         *)

Lane(kind) == IF kind \in {"readUp", "set"} THEN "count"
              ELSE IF kind \in {"unlink", "cut", "readDown"} THEN "down" ELSE kind

Pend(work, kinds) == \E t \in work : t.kind \in kinds

\* There is one call to link, one for the count, one to unlink, or one to replace; who
\* unlinks or replaces does nothing else, and what was read still stands but for rel.
Planned(work, now, rel, mem) ==
  /\ \A t, u \in work : Lane(t.kind) = Lane(u.kind) => t = u
  /\ \A t \in work : t \notin now => t.kind \in {"link", "unlink"}
  /\ \A t \in now : Lane(t.kind) = "down" => work = {t}
  /\ \A t \in work : t.kind = "replace" => /\ work = {t} /\ t.read.count = mem.count
                                           /\ t.read.links = mem.links
  /\ \A t, u \in work : t \notin now /\ t.kind = "link" => Lane(u.kind) # "down"
  /\ \A t \in work : t.read.links \ {rel} = mem.links \ {rel}
  /\ Pend(work, {"link"}) => rel \notin mem.links
  /\ Pend(work, {"unlink"}) => Pend(work, {"link"}) \/ rel \in mem.links
  /\ Pend(work, {"cut"}) => rel \in mem.links

Tally(work, kind) == IF Pend(work, {kind}) THEN 1 ELSE 0

\* What the count is to be, were all that is pending of it known.
Balance(work, mem) ==
  Cardinality(mem.links) + Tally(work, "link") - Tally(work, "readUp") + Tally(work, "readDown")

Counted(work, mem) ==
  /\ ~ Pend(work, {"set"}) => mem.count = Balance(work, mem)
  /\ \A t \in work : t.kind = "set" => t.read.count = Balance(work, mem)

Fits(work, now, rel, mem) == Planned(work, now, rel, mem) /\ Counted(work, mem)

\* Whether the memory will list rel in the end.
WillLink(work, rel, mem) ==
  ~ Pend(work, {"unlink", "cut"}) /\ (Pend(work, {"link"}) \/ rel \in mem.links)

LEMMA LinksCount ==
  ASSUME NEW mem \in Memory
  PROVE  /\ mem.links \in SUBSET Ids /\ mem.count \in Nat /\ Cardinality(mem.links) \in Nat
         /\ \A x : x \notin mem.links => Cardinality(mem.links \cup {x}) = Cardinality(mem.links) + 1
         /\ \A x \in mem.links : Cardinality(mem.links \ {x}) = Cardinality(mem.links) - 1
<1>1. mem.links \in SUBSET Ids /\ mem.count \in Nat
  BY DEF Memory
<1>2. IsFiniteSet(mem.links)
  BY <1>1, ConstantsAssumption, FS_Subset DEF ConstantsAssumption
<1>3. QED  BY <1>1, <1>2, FS_CardinalityType, FS_AddElement, FS_RemoveElement

\* One call less.
LEMMA WorkLess ==
  ASSUME NEW work, \A t, u \in work : Lane(t.kind) = Lane(u.kind) => t = u, NEW t \in work,
         NEW kind, t.kind = kind
  PROVE  /\ \A kinds : kind \notin kinds => (Pend(work \ {t}, kinds) <=> Pend(work, kinds))
         /\ ~ Pend(work \ {t}, {kind})
         /\ Pend(work, {kind})
         /\ \A u \in work \ {t} : Lane(u.kind) # Lane(kind)
  BY DEF Pend

LEMMA BalanceIs ==
  ASSUME NEW work, NEW mem \in Memory
  PROVE  /\ Tally(work, "link") \in 0..1 /\ Tally(work, "readUp") \in 0..1
         /\ Tally(work, "readDown") \in 0..1
         /\ Balance(work, mem) \in Int
         /\ work = {} => Balance(work, mem) = Cardinality(mem.links)
<1>1. Cardinality(mem.links) \in Nat
  BY LinksCount
<1>2. work = {} => \A kind : Tally(work, kind) = 0
  BY DEF Tally, Pend
<1>3. \A kind : Tally(work, kind) \in 0..1
  BY DEF Tally
<1>4. QED  BY <1>1, <1>2, <1>3 DEF Balance

\* Nothing is left to do for a memory.
LEMMA NothingLeft ==
  ASSUME NEW now, NEW rel, NEW mem \in Memory
  PROVE  /\ Fits({}, now, rel, mem) => mem.count = Cardinality(mem.links)
         /\ mem.count = Cardinality(mem.links) => Fits({}, {}, rel, mem)
         /\ WillLink({}, rel, mem) <=> rel \in mem.links
<1>1. Balance({}, mem) = Cardinality(mem.links)
  BY BalanceIs
<1>2. \A kinds : ~ Pend({}, kinds)
  BY DEF Pend
<1>3. Planned({}, {}, rel, mem)
  BY <1>2 DEF Planned
<1>4. QED  BY <1>1, <1>2, <1>3 DEF Fits, Counted, WillLink

LEMMA LinkDone ==
  ASSUME NEW work \in SUBSET Call, NEW now \in SUBSET work, NEW rel, NEW mem \in Memory,
         Fits(work, now, rel, mem), NEW t \in now, t.kind = "link", NEW new \in Memory,
         new.links = t.read.links \cup {rel}, new.count = mem.count
  PROVE  /\ Fits(work \ {t}, now \ {t}, rel, new)
         /\ WillLink(work \ {t}, rel, new) <=> WillLink(work, rel, mem)
         /\ \A r : r # rel => (r \in new.links <=> r \in mem.links)
<1> DEFINE rest == work \ {t}
<1>1. Planned(work, now, rel, mem) /\ Counted(work, mem)
  BY DEF Fits
<1>2. /\ \A kinds : "link" \notin kinds => (Pend(rest, kinds) <=> Pend(work, kinds))
      /\ ~ Pend(rest, {"link"}) /\ Pend(work, {"link"})
  BY <1>1, WorkLess DEF Planned
<1>3. rel \notin mem.links /\ t.read.links \ {rel} = mem.links \ {rel}
  BY <1>1, <1>2 DEF Planned
<1>4. new.links = mem.links \cup {rel}
  BY <1>3
<1>5. Cardinality(new.links) = Cardinality(mem.links) + 1 /\ Cardinality(mem.links) \in Nat
  BY <1>3, <1>4, LinksCount
<1>6. ~ Pend(work, {"cut"})
  <2>1. ASSUME NEW u \in work, u.kind = "cut" PROVE FALSE
    <3>1. u \in now
      BY <1>1, <2>1 DEF Planned
    <3>2. Lane(u.kind) = "down"
      BY <2>1 DEF Lane
    <3>3. QED  BY <1>1, <2>1, <3>1, <3>2 DEF Planned
  <2>2. QED  BY <2>1 DEF Pend
<1>7. Planned(rest, now \ {t}, rel, new)
  <2>1. \A u \in rest : u \in work /\ u # t /\ u.kind # "replace"
    BY <1>1 DEF Planned
  <2>2. \A u, v \in rest : Lane(u.kind) = Lane(v.kind) => u = v
    BY <1>1, <2>1 DEF Planned
  <2>3. \A u \in rest : u \notin now \ {t} => u.kind \in {"link", "unlink"}
    BY <1>1, <2>1 DEF Planned
  <2>4. \A u \in now \ {t} : Lane(u.kind) = "down" => rest = {u}
    BY <1>1 DEF Planned
  <2>5. \A u, v \in rest : u \notin now \ {t} /\ u.kind = "link" => Lane(v.kind) # "down"
    BY <1>1, <2>1 DEF Planned
  <2>6. \A u \in rest : u.read.links \ {rel} = new.links \ {rel}
    BY <1>1, <1>4, <2>1 DEF Planned
  <2>7. rel \in new.links
    BY <1>4
  <2>8. QED  BY <1>2, <1>6, <2>1, <2>2, <2>3, <2>4, <2>5, <2>6, <2>7 DEF Planned
<1>8. Balance(rest, new) = Balance(work, mem)
  <2>1. Tally(rest, "link") = 0 /\ Tally(work, "link") = 1
    BY <1>2 DEF Tally
  <2>2. Tally(rest, "readUp") = Tally(work, "readUp") /\ Tally(rest, "readDown") = Tally(work, "readDown")
    BY <1>2 DEF Tally
  <2>3. Tally(work, "readUp") \in 0..1 /\ Tally(work, "readDown") \in 0..1
    BY BalanceIs
  <2>4. QED  BY <1>5, <2>1, <2>2, <2>3 DEF Balance
<1>9. Counted(rest, new)
  BY <1>1, <1>2, <1>8 DEF Counted
<1>10. WillLink(rest, rel, new) <=> WillLink(work, rel, mem)
  BY <1>2, <1>4 DEF WillLink
<1>11. QED  BY <1>4, <1>7, <1>9, <1>10 DEF Fits

LEMMA ReadUpDone ==
  ASSUME NEW work \in SUBSET Call, NEW now \in SUBSET work, NEW rel, NEW mem \in Memory,
         Fits(work, now, rel, mem), NEW t \in now, t.kind = "readUp", NEW u \in Call,
         u.kind = "set", u.read.links = mem.links, u.read.count = mem.count + 1
  PROVE  /\ Fits((work \ {t}) \cup {u}, (now \ {t}) \cup {u}, rel, mem)
         /\ WillLink((work \ {t}) \cup {u}, rel, mem) <=> WillLink(work, rel, mem)
<1> DEFINE rest == work \ {t}
           next == rest \cup {u}
<1>1. Planned(work, now, rel, mem) /\ Counted(work, mem)
  BY DEF Fits
<1>2. /\ \A kinds : "readUp" \notin kinds => (Pend(rest, kinds) <=> Pend(work, kinds))
      /\ ~ Pend(rest, {"readUp"}) /\ Pend(work, {"readUp"})
      /\ \A v \in rest : Lane(v.kind) # "count"
  <2>1. \A v, w \in work : Lane(v.kind) = Lane(w.kind) => v = w
    BY <1>1 DEF Planned
  <2>2. /\ \A kinds : "readUp" \notin kinds => (Pend(rest, kinds) <=> Pend(work, kinds))
        /\ ~ Pend(rest, {"readUp"}) /\ Pend(work, {"readUp"})
        /\ \A v \in rest : Lane(v.kind) # Lane("readUp")
    BY <2>1, WorkLess
  <2>3. Lane("readUp") = "count"
    BY DEF Lane
  <2>4. QED  BY <2>2, <2>3
<1>3. \A kinds : "set" \notin kinds => (Pend(next, kinds) <=> Pend(rest, kinds))
  BY DEF Pend
<1>4. Pend(next, {"set"}) /\ ~ Pend(work, {"set"})
  <2>1. Pend(next, {"set"})
    BY DEF Pend
  <2>2. ~ Pend(rest, {"set"})
    BY <1>2 DEF Pend, Lane
  <2>3. QED  BY <1>2, <2>1, <2>2
<1>5. \A v \in now : Lane(v.kind) # "down"
  BY <1>1 DEF Planned, Lane
<1>6. Planned(next, (now \ {t}) \cup {u}, rel, mem)
  <2>1. \A v \in next : v = u \/ (v \in work /\ v # t /\ v.kind # "replace" /\ Lane(v.kind) # "count")
    BY <1>1, <1>2 DEF Planned
  <2>2. Lane(u.kind) = "count" /\ u.kind # "replace"
    BY DEF Lane
  <2>3. \A v, w \in next : Lane(v.kind) = Lane(w.kind) => v = w
    BY <1>1, <2>1, <2>2 DEF Planned
  <2>4. \A v \in next : v \notin (now \ {t}) \cup {u} => v.kind \in {"link", "unlink"}
    BY <1>1, <2>1 DEF Planned
  <2>5. \A v \in (now \ {t}) \cup {u} : Lane(v.kind) # "down"
    BY <1>5, <2>2
  <2>6. \A v, w \in next : v \notin (now \ {t}) \cup {u} /\ v.kind = "link" => Lane(w.kind) # "down"
    BY <1>1, <2>1, <2>2 DEF Planned
  <2>7. \A v \in next : v.read.links \ {rel} = mem.links \ {rel}
    BY <1>1, <2>1 DEF Planned
  <2>8. /\ Pend(next, {"link"}) <=> Pend(work, {"link"})
        /\ Pend(next, {"unlink"}) <=> Pend(work, {"unlink"})
        /\ Pend(next, {"cut"}) <=> Pend(work, {"cut"})
    BY <1>2, <1>3
  <2>9. \A v \in next : v.kind # "replace"
    BY <2>1, <2>2
  <2> HIDE DEF next
  <2>10. QED  BY <1>1, <2>3, <2>4, <2>5, <2>6, <2>7, <2>8, <2>9 DEF Planned
<1>7. Balance(next, mem) = mem.count + 1
  <2>1. Tally(next, "link") = Tally(work, "link") /\ Tally(next, "readDown") = Tally(work, "readDown")
    BY <1>2, <1>3 DEF Tally
  <2>2. Tally(next, "readUp") = 0 /\ Tally(work, "readUp") = 1
    BY <1>2, <1>3 DEF Tally
  <2>3. mem.count = Balance(work, mem)
    BY <1>1, <1>4 DEF Counted
  <2>4. Tally(work, "link") \in 0..1 /\ Tally(work, "readDown") \in 0..1 /\ Cardinality(mem.links) \in Nat
    BY BalanceIs, LinksCount
  <2>5. QED  BY <2>1, <2>2, <2>3, <2>4 DEF Balance
<1>8. Counted(next, mem)
  <2>1. \A v \in next : v.kind = "set" => v = u
    BY <1>2 DEF Lane
  <2>2. QED  BY <1>4, <1>7, <2>1 DEF Counted
<1>9. WillLink(next, rel, mem) <=> WillLink(work, rel, mem)
  BY <1>2, <1>3 DEF WillLink
<1>10. QED  BY <1>6, <1>8, <1>9 DEF Fits

LEMMA SetDone ==
  ASSUME NEW work \in SUBSET Call, NEW now \in SUBSET work, NEW rel, NEW mem \in Memory,
         Fits(work, now, rel, mem), NEW t \in now, t.kind = "set", NEW new \in Memory,
         new.links = mem.links, new.count = t.read.count
  PROVE  /\ Fits(work \ {t}, now \ {t}, rel, new)
         /\ WillLink(work \ {t}, rel, new) <=> WillLink(work, rel, mem)
<1> DEFINE rest == work \ {t}
<1>1. Planned(work, now, rel, mem) /\ Counted(work, mem)
  BY DEF Fits
<1>2. /\ \A kinds : "set" \notin kinds => (Pend(rest, kinds) <=> Pend(work, kinds))
      /\ ~ Pend(rest, {"set"})
  <2>1. \A v, w \in work : Lane(v.kind) = Lane(w.kind) => v = w
    BY <1>1 DEF Planned
  <2>2. QED  BY <2>1, WorkLess
<1>3. Planned(rest, now \ {t}, rel, new)
  <2>1. \A u \in rest : u \in work /\ u # t /\ u.kind # "replace"
    BY <1>1 DEF Planned
  <2>2. \A u, v \in rest : Lane(u.kind) = Lane(v.kind) => u = v
    BY <1>1, <2>1 DEF Planned
  <2>3. \A u \in rest : u \notin now \ {t} => u.kind \in {"link", "unlink"}
    BY <1>1, <2>1 DEF Planned
  <2>4. \A u \in now \ {t} : Lane(u.kind) = "down" => rest = {u}
    BY <1>1 DEF Planned
  <2>5. \A u, v \in rest : u \notin now \ {t} /\ u.kind = "link" => Lane(v.kind) # "down"
    BY <1>1, <2>1 DEF Planned
  <2>6. \A u \in rest : u.read.links \ {rel} = new.links \ {rel}
    BY <1>1, <2>1 DEF Planned
  <2>7. /\ Pend(rest, {"link"}) => rel \notin new.links
        /\ Pend(rest, {"unlink"}) => Pend(rest, {"link"}) \/ rel \in new.links
        /\ Pend(rest, {"cut"}) => rel \in new.links
    BY <1>1, <1>2 DEF Planned
  <2>8. QED  BY <2>1, <2>2, <2>3, <2>4, <2>5, <2>6, <2>7 DEF Planned
<1>4. Balance(rest, new) = Balance(work, mem)
  BY <1>2 DEF Balance, Tally
<1>5. Counted(rest, new)
  BY <1>1, <1>2, <1>4 DEF Counted, Pend
<1>6. WillLink(rest, rel, new) <=> WillLink(work, rel, mem)
  BY <1>2 DEF WillLink
<1>7. QED  BY <1>3, <1>5, <1>6 DEF Fits

\* The calls of one who does nothing else with the memory.
LEMMA LoneCall ==
  ASSUME NEW t \in Call, NEW rel, NEW mem \in Memory
  PROVE  /\ \A kinds : Pend({t}, kinds) <=> t.kind \in kinds
         /\ Planned({t}, {t}, rel, mem) <=>
              /\ t.kind = "replace" => t.read.count = mem.count /\ t.read.links = mem.links
              /\ t.read.links \ {rel} = mem.links \ {rel}
              /\ t.kind = "link" => rel \notin mem.links
              /\ t.kind \in {"unlink", "cut"} => rel \in mem.links
         /\ t.kind \in {"unlink", "cut", "replace"} => Balance({t}, mem) = Cardinality(mem.links)
         /\ t.kind = "readDown" => Balance({t}, mem) = Cardinality(mem.links) + 1
         /\ t.kind = "set" => Balance({t}, mem) = Cardinality(mem.links)
<1>1. \A kinds : Pend({t}, kinds) <=> t.kind \in kinds
  BY DEF Pend
<1>2. Cardinality(mem.links) \in Nat
  BY LinksCount
<1>3. \A kind : Tally({t}, kind) = IF t.kind = kind THEN 1 ELSE 0
  BY <1>1 DEF Tally
<1>4. Planned({t}, {t}, rel, mem) <=>
              /\ t.kind = "replace" => t.read.count = mem.count /\ t.read.links = mem.links
              /\ t.read.links \ {rel} = mem.links \ {rel}
              /\ t.kind = "link" => rel \notin mem.links
              /\ t.kind \in {"unlink", "cut"} => rel \in mem.links
  BY <1>1 DEF Planned
<1>5. Balance({t}, mem) = Cardinality(mem.links) + Tally({t}, "link") - Tally({t}, "readUp")
                            + Tally({t}, "readDown")
  BY DEF Balance
<1>6. /\ t.kind \in {"unlink", "cut", "replace"} => Balance({t}, mem) = Cardinality(mem.links)
      /\ t.kind = "readDown" => Balance({t}, mem) = Cardinality(mem.links) + 1
      /\ t.kind = "set" => Balance({t}, mem) = Cardinality(mem.links)
  <2> DEFINE up == Tally({t}, "readUp")
             down == Tally({t}, "readDown")
             link == Tally({t}, "link")
             links == Cardinality(mem.links)
             all == Balance({t}, mem)
  <2>1. /\ up = IF t.kind = "readUp" THEN 1 ELSE 0
        /\ down = IF t.kind = "readDown" THEN 1 ELSE 0
        /\ link = IF t.kind = "link" THEN 1 ELSE 0
    BY <1>3
  <2>2. all = links + link - up + down /\ links \in Nat
    BY <1>2, <1>5
  <2> HIDE DEF up, down, link, links, all
  <2>3. /\ t.kind \in {"unlink", "cut", "replace"} => all = links
        /\ t.kind = "readDown" => all = links + 1
        /\ t.kind = "set" => all = links
    BY <2>1, <2>2
  <2>4. QED  BY <2>3 DEF all, links
<1>7. QED  BY <1>1, <1>4, <1>6

LEMMA LoneLink ==
  ASSUME NEW t \in Call, NEW rel, NEW mem \in Memory
  PROVE  WillLink({t}, rel, mem) <=>
           t.kind \notin {"unlink", "cut"} /\ (t.kind = "link" \/ rel \in mem.links)
  BY DEF WillLink, Pend

\* A call followed by one other, or by none.
LEMMA LoneNext ==
  ASSUME NEW u \in Call, NEW rel, NEW mem \in Memory,
         u.read.links \ {rel} = mem.links \ {rel},
         \/ u.kind = "cut" /\ rel \in mem.links /\ mem.count = Cardinality(mem.links)
         \/ u.kind = "readDown" /\ mem.count = Cardinality(mem.links) + 1
         \/ u.kind = "set" /\ u.read.count = Cardinality(mem.links)
  PROVE  Fits({u}, {u}, rel, mem)
<1>1. Planned({u}, {u}, rel, mem)
  <2>1. u.kind # "replace" /\ u.kind # "link" /\ (u.kind \in {"unlink", "cut"} => rel \in mem.links)
    OBVIOUS
  <2>2. QED  BY <2>1, LoneCall
<1>2. Pend({u}, {"set"}) <=> u.kind = "set"
  BY LoneCall
<1>3. Counted({u}, mem)
  <2>1. CASE u.kind = "cut"
    BY <1>2, <2>1, LoneCall DEF Counted
  <2>2. CASE u.kind = "readDown"
    BY <1>2, <2>2, LoneCall DEF Counted
  <2>3. CASE u.kind = "set"
    BY <1>2, <2>3, LoneCall DEF Counted
  <2>4. QED  BY <2>1, <2>2, <2>3
<1>4. QED  BY <1>1, <1>3 DEF Fits

LEMMA UnlinkDone ==
  ASSUME NEW t \in Call, t.kind = "unlink", NEW rel, NEW mem \in Memory, Fits({t}, {t}, rel, mem)
  PROVE  /\ rel \in mem.links
         /\ \A u \in Call : u.kind = "cut" /\ u.read.links = mem.links => Fits({u}, {u}, rel, mem)
         /\ \A u \in Call : u.kind = "cut" => (WillLink({u}, rel, mem) <=> WillLink({t}, rel, mem))
<1>1. rel \in mem.links
  BY LoneCall DEF Fits
<1>2. mem.count = Cardinality(mem.links)
  <2>1. ~ Pend({t}, {"set"})
    BY LoneCall
  <2>2. mem.count = Balance({t}, mem)
    BY <2>1 DEF Fits, Counted
  <2>3. QED  BY <2>2, LoneCall
<1>3. \A u \in Call : u.kind = "cut" => (WillLink({u}, rel, mem) <=> WillLink({t}, rel, mem))
  BY LoneLink
<1>4. QED  BY <1>1, <1>2, <1>3, LoneNext

LEMMA CutDone ==
  ASSUME NEW t \in Call, t.kind = "cut", NEW rel, NEW mem \in Memory, Fits({t}, {t}, rel, mem),
         NEW new \in Memory, new.links = t.read.links \ {rel}, new.count = mem.count,
         NEW u \in Call, u.kind = "readDown", u.read.links = mem.links
  PROVE  /\ new.links = mem.links \ {rel} /\ rel \in mem.links
         /\ new.count = Cardinality(new.links) + 1
         /\ Fits({u}, {u}, rel, new)
         /\ WillLink({u}, rel, new) <=> WillLink({t}, rel, mem)
<1>1. rel \in mem.links /\ t.read.links \ {rel} = mem.links \ {rel}
  BY LoneCall DEF Fits
<1>2. mem.count = Cardinality(mem.links)
  <2>1. ~ Pend({t}, {"set"})
    BY LoneCall
  <2>2. mem.count = Balance({t}, mem)
    BY <2>1 DEF Fits, Counted
  <2>3. QED  BY <2>2, LoneCall
<1>3. Cardinality(mem.links) \in Nat /\ Cardinality(mem.links \ {rel}) = Cardinality(mem.links) - 1
  BY <1>1, LinksCount
<1>4. WillLink({u}, rel, new) <=> WillLink({t}, rel, mem)
  BY <1>1, LoneLink
<1>5. new.links = mem.links \ {rel}
  BY <1>1
<1>6. new.count = Cardinality(new.links) + 1
  <2>1. Cardinality(new.links) = Cardinality(mem.links \ {rel})
    BY <1>5
  <2>2. QED  BY <1>2, <1>3, <2>1
<1>7. u.read.links \ {rel} = new.links \ {rel}
  BY <1>5
<1>8. Fits({u}, {u}, rel, new)
  BY <1>6, <1>7, LoneNext
<1>9. QED  BY <1>1, <1>4, <1>5, <1>6, <1>8

LEMMA ReadDownDone ==
  ASSUME NEW t \in Call, t.kind = "readDown", NEW rel, NEW mem \in Memory, Fits({t}, {t}, rel, mem),
         NEW u \in Call, u.kind = "set", u.read.links = mem.links,
         mem.count > 0 => u.read.count = mem.count - 1
  PROVE  /\ Fits({u}, {u}, rel, mem)
         /\ WillLink({u}, rel, mem) <=> WillLink({t}, rel, mem)
<1>1. mem.count = Cardinality(mem.links) + 1
  <2>1. ~ Pend({t}, {"set"})
    BY LoneCall
  <2>2. mem.count = Balance({t}, mem)
    BY <2>1 DEF Fits, Counted
  <2>3. QED  BY <2>2, LoneCall
<1>2. u.read.count = Cardinality(mem.links)
  BY <1>1, LinksCount
<1>3. WillLink({u}, rel, mem) <=> WillLink({t}, rel, mem)
  BY LoneLink
<1>4. QED  BY <1>2, <1>3, LoneNext

\* A call done leaves a memory that fits what is left, and changes neither whether the
\* memory will list the relationship nor whether it lists another.
LEMMA FitsDone ==
  ASSUME NEW work \in SUBSET Call, NEW now \in SUBSET work, NEW s, NEW mem \in Memory,
         Fits(work, now, s.rel, mem), NEW t \in now, t.memory \in Owned,
         NEW new \in Memory, NEW next \in SUBSET Call, Deed(s, t, mem, new, next)
  PROVE  /\ Fits((work \ {t}) \cup next, (now \ {t}) \cup next, s.rel, new)
         /\ WillLink((work \ {t}) \cup next, s.rel, new) <=> WillLink(work, s.rel, mem)
         /\ \A r : r # s.rel => (r \in new.links <=> r \in mem.links)
<1> DEFINE rel == s.rel
           m == t.memory
<1>1. Planned(work, now, rel, mem) /\ t \in Call /\ t \in work
  BY DEF Fits
<1>2. {Task("readDown", x, mem) : x \in {m} \cap Owned} = {Task("readDown", m, mem)}
  OBVIOUS
<1>3. ASSUME NEW kind \in {"cut", "readDown"}
      PROVE  LET u == Task(kind, m, mem) IN
             u \in Call /\ u.kind = kind /\ u.read.links = mem.links
  <2>1. kind \in TaskKinds /\ m \in Memories
    BY <1>1, CallIs DEF TaskKinds
  <2>2. QED  BY <2>1, TaskIs
<1>4. ASSUME t.kind \in {"unlink", "cut", "readDown", "replace"}
      PROVE  /\ work = {t} /\ now = {t}
             /\ (work \ {t}) \cup next = next /\ (now \ {t}) \cup next = next
  <2>1. work = {t}
    BY <1>1, <1>4 DEF Planned, Lane
  <2>2. QED  BY <2>1
<1>5. CASE t.kind = "link"
  <2>1. next = {} /\ new.links = t.read.links \cup {rel} /\ new.count = mem.count
    BY <1>5 DEF Deed
  <2>2. (work \ {t}) \cup next = work \ {t} /\ (now \ {t}) \cup next = now \ {t}
    BY <2>1
  <2>3. /\ Fits(work \ {t}, now \ {t}, rel, new)
        /\ WillLink(work \ {t}, rel, new) <=> WillLink(work, rel, mem)
        /\ \A r : r # rel => (r \in new.links <=> r \in mem.links)
    BY <1>5, <2>1, LinkDone
  <2>4. QED  BY <2>2, <2>3
<1>6. CASE t.kind = "readUp"
  <2>1. new = mem /\ \E read \in Memory : /\ read.links = mem.links /\ read.count = mem.count + 1
                                         /\ next = {Task("set", m, read)}
    BY <1>6 DEF Deed
  <2>2. PICK u \in Call : /\ u.kind = "set" /\ u.read.links = mem.links
                          /\ u.read.count = mem.count + 1 /\ next = {u}
    <3>1. "set" \in TaskKinds /\ m \in Memories
      BY <1>1, CallIs DEF TaskKinds
    <3>2. QED  BY <2>1, <3>1, TaskIs
  <2>3. /\ Fits((work \ {t}) \cup {u}, (now \ {t}) \cup {u}, rel, mem)
        /\ WillLink((work \ {t}) \cup {u}, rel, mem) <=> WillLink(work, rel, mem)
    BY <1>6, <2>2, ReadUpDone
  <2>4. QED  BY <2>1, <2>2, <2>3
<1>7. CASE t.kind = "set"
  <2>1. next = {} /\ new.links = mem.links /\ new.count = t.read.count
    BY <1>7 DEF Deed
  <2>2. (work \ {t}) \cup next = work \ {t} /\ (now \ {t}) \cup next = now \ {t}
    BY <2>1
  <2>3. /\ Fits(work \ {t}, now \ {t}, rel, new)
        /\ WillLink(work \ {t}, rel, new) <=> WillLink(work, rel, mem)
    BY <1>7, <2>1, SetDone
  <2>4. QED  BY <2>1, <2>2, <2>3
<1>8. CASE t.kind = "unlink"
  <2>1. Fits({t}, {t}, rel, mem)
    BY <1>4, <1>8
  <2>2. rel \in mem.links
    BY <1>1, <1>8, <2>1, UnlinkDone
  <2>3. new = mem /\ next = {Task("cut", m, mem)}
    BY <1>8, <2>2 DEF Deed
  <2> DEFINE u == Task("cut", m, mem)
  <2>4. u \in Call /\ u.kind = "cut" /\ u.read.links = mem.links
    BY <1>3
  <2> HIDE DEF u
  <2>5. Fits({u}, {u}, rel, mem) /\ (WillLink({u}, rel, mem) <=> WillLink({t}, rel, mem))
    BY <1>1, <1>8, <2>1, <2>4, UnlinkDone
  <2>6. next = {u}
    BY <2>3 DEF u
  <2>7. QED  BY <1>4, <1>8, <2>3, <2>5, <2>6
<1>9. CASE t.kind = "cut"
  <2>1. Fits({t}, {t}, rel, mem)
    BY <1>4, <1>9
  <2>2. new.links = t.read.links \ {rel} /\ new.count = mem.count /\ next = {Task("readDown", m, mem)}
    BY <1>2, <1>9 DEF Deed
  <2> DEFINE u == Task("readDown", m, mem)
  <2>3. u \in Call /\ u.kind = "readDown" /\ u.read.links = mem.links
    BY <1>3
  <2>4. next = {u}
    BY <2>2
  <2> HIDE DEF u
  <2> HIDE DEF rel
  <2>5. new.links = t.read.links \ {rel} /\ new.count = mem.count
    BY <2>2
  <2>6. Fits({u}, {u}, rel, new)
    BY <1>1, <1>9, <2>1, <2>3, <2>5, CutDone
  <2>7. new.links = mem.links \ {rel}
    BY <1>1, <2>5 DEF Planned, rel
  <2>8. WillLink({u}, rel, new) <=> WillLink({t}, rel, mem)
    BY <1>1, <1>9, <2>3, <2>7, LoneLink
  <2>9. /\ Fits(next, next, rel, new) /\ (WillLink(next, rel, new) <=> WillLink(work, rel, mem))
        /\ \A r : r # rel => (r \in new.links <=> r \in mem.links)
    BY <1>4, <1>9, <2>4, <2>6, <2>7, <2>8
  <2>10. QED  BY <1>4, <1>9, <2>9 DEF rel
<1>10. CASE t.kind = "readDown"
  <2>1. Fits({t}, {t}, rel, mem)
    BY <1>4, <1>10
  <2>2. new = mem /\ \E read \in Memory :
                       /\ read.links = mem.links
                       /\ mem.count > 0 => read.count = mem.count - 1
                       /\ next = {Task("set", m, read)}
    BY <1>10 DEF Deed
  <2>3. PICK u \in Call : /\ u.kind = "set" /\ u.read.links = mem.links
                          /\ mem.count > 0 => u.read.count = mem.count - 1
                          /\ next = {u}
    <3>1. "set" \in TaskKinds /\ m \in Memories
      BY <1>1, CallIs DEF TaskKinds
    <3>2. PICK read \in Memory : /\ read.links = mem.links
                                 /\ mem.count > 0 => read.count = mem.count - 1
                                 /\ next = {Task("set", m, read)}
      BY <2>2
    <3> DEFINE v == Task("set", m, read)
    <3>3. v \in Call /\ v.kind = "set" /\ v.read = read
      BY <3>1, TaskIs
    <3>4. next = {v}
      BY <3>2
    <3> HIDE DEF v
    <3>5. v.read.links = mem.links /\ (mem.count > 0 => v.read.count = mem.count - 1)
      BY <3>2, <3>3
    <3>6. QED  BY <3>3, <3>4, <3>5
  <2> HIDE DEF rel
  <2>4. Fits({u}, {u}, rel, mem)
    BY <1>1, <1>10, <2>1, <2>3, ReadDownDone
  <2>5. WillLink({u}, rel, mem) <=> WillLink({t}, rel, mem)
    BY <1>1, <1>10, <2>1, <2>3, ReadDownDone
  <2>6. new = mem /\ next = {u}
    BY <2>2, <2>3
  <2>7. Fits(next, next, rel, new) /\ (WillLink(next, rel, new) <=> WillLink(work, rel, mem))
    BY <1>4, <1>10, <2>4, <2>5, <2>6
  <2>8. QED  BY <1>4, <1>10, <2>6, <2>7 DEF rel
<1>11. CASE t.kind = "replace"
  <2>1. new = t.read /\ next = {}
    BY <1>11 DEF Deed
  <2>2. t.read.links = mem.links /\ t.read.count = mem.count
    BY <1>1, <1>11 DEF Planned
  <2>3. Balance({t}, mem) = Cardinality(mem.links) /\ ~ Pend({t}, {"set"})
    BY <1>1, <1>11, LoneCall
  <2>4. new.count = Cardinality(new.links)
    BY <1>4, <1>11, <2>1, <2>2, <2>3 DEF Fits, Counted
  <2>5. Fits({}, {}, rel, new) /\ (WillLink({}, rel, new) <=> rel \in new.links)
    BY <2>4, NothingLeft
  <2>6. WillLink({t}, rel, mem) <=> rel \in mem.links
    BY <1>1, <1>11, LoneCall DEF WillLink
  <2>7. QED  BY <1>4, <1>11, <2>1, <2>2, <2>5, <2>6
<1>12. QED
  BY <1>1, <1>5, <1>6, <1>7, <1>8, <1>9, <1>10, <1>11, CallIs DEF TaskKinds

-----------------------------------------------------------------------------
(* The memories.  While nothing of a memory has failed and no two requests *)
(* were at work on it at once, one request touches it at most, and what is *)
(* pending accounts for its ids and its count; the relationship it is      *)
(* pending for is settled when the request ends.                           *)

Now(s, m) == {t \in s.tasks : t.memory = m}
Mine(s, m) == {t \in Work(s) : t.memory = m}

FitsIn(s, m, mem) == Fits(Mine(s, m), Now(s, m), s.rel, mem)
Will(s, m, mem) == WillLink(Mine(s, m), s.rel, mem)
Lists(doc, m) == doc.exists /\ m \in ToSet(doc.related)

\* What a request that has not written its relationship yet has in store.
Staged(s) ==
  /\ \A t \in s.later : t.kind \in {"link", "unlink"} /\ t \notin s.tasks
  /\ s.phase \in {"insert", "write"} => \A m \in Owned :
       /\ Pend(Mine(s, m), {"link"}) <=> Pend(Mine(s, m), {"readUp"})
       /\ ~ Pend(Mine(s, m), {"set", "readDown", "cut"})
  /\ s.phase = "insert" =>
       /\ s.touches = ToSet(s.doc.related)
       /\ \A m \in s.touches \cap Owned :
            Pend(Mine(s, m), {"link"}) /\ ~ Pend(Mine(s, m), {"unlink", "cut"})

\* What a memory of s's has to do with the relationship s is for.
Agrees(s, m, mem, doc) ==
  /\ s.phase = "write" => /\ s.rel \in mem.links <=> Lists(doc, m)
                          /\ Will(s, m, mem) <=> m \in ToSet(s.doc.related)
  /\ (s.phase = "tasks" /\ s.kind \in {"create", "update"}) => (Will(s, m, mem) <=> Lists(doc, m))
  /\ s.kind = "delete" => ~ Will(s, m, mem)

Touch(q, m) == m \in requests[q].touches
Involved(q, m, r) == m \in requests[q].touches /\ requests[q].rel = r

Tended(m) ==
  /\ \A p, q \in Requests : Touch(p, m) /\ Touch(q, m) => p = q
  /\ \A q \in Requests : Touch(q, m) => FitsIn(requests[q], m, memories[m])
  /\ (\A q \in Requests : ~ Touch(q, m)) => memories[m].count = Cardinality(memories[m].links)

Linked(m, r) ==
  /\ (\A q \in Requests : ~ Involved(q, m, r)) => (r \in memories[m].links <=> Lists(relationships[r], m))
  /\ \A q \in Requests : Involved(q, m, r) => Agrees(requests[q], m, memories[m], relationships[r])

AllStaged == \A q \in Requests : Staged(requests[q])
AllTended == \A m \in Owned : Whole(m) => Tended(m)
AllLinked == \A m \in Owned, r \in Ids : (Whole(m) /\ WholeRelationship(r)) => Linked(m, r)

Tidy == AllStaged /\ AllTended /\ AllLinked

\* A request becomes s; who touches m, and what is left to do for it, is as it should be.
LEMMA TendedStep ==
  ASSUME Base, NEW q \in Requests, NEW s, requests' = [requests EXCEPT ![q] = s],
         NEW m \in Owned, Tended(m),
         m \in s.touches => /\ \A p \in Requests \ {q} : ~ Touch(p, m)
                            /\ FitsIn(s, m, memories'[m]),
         m \notin s.touches =>
           \/ m \in requests[q].touches /\ memories'[m].count = Cardinality(memories'[m].links)
           \/ m \notin requests[q].touches /\ memories'[m] = memories[m]
  PROVE  Tended(m)'
<1>1. \A p \in Requests : requests'[p] = IF p = q THEN s ELSE requests[p]
  BY DEF Base
<1>2. \A p \in Requests : Touch(p, m)' <=> IF p = q THEN m \in s.touches ELSE Touch(p, m)
  BY <1>1 DEF Touch
<1>3. CASE m \in s.touches
  <2>1. \A p \in Requests : Touch(p, m)' => p = q
    BY <1>2, <1>3
  <2>2. Touch(q, m)' /\ FitsIn(requests'[q], m, memories'[m])
    BY <1>1, <1>2, <1>3
  <2>3. QED  BY <2>1, <2>2 DEF Tended
<1>4. CASE m \notin s.touches /\ m \in requests[q].touches
  <2>1. \A p \in Requests : ~ Touch(p, m)'
    BY <1>2, <1>4 DEF Tended, Touch
  <2>2. memories'[m].count = Cardinality(memories'[m].links)
    BY <1>4
  <2>3. QED  BY <2>1, <2>2 DEF Tended
<1>5. CASE m \notin s.touches /\ m \notin requests[q].touches
  <2>1. memories'[m] = memories[m] /\ ~ Touch(q, m) /\ ~ Touch(q, m)'
    BY <1>2, <1>5 DEF Touch
  <2>2. \A p \in Requests : Touch(p, m)' <=> Touch(p, m)
    BY <1>2, <2>1
  <2>3. \A p \in Requests : Touch(p, m) => requests'[p] = requests[p]
    BY <1>1, <2>1
  <2>4. QED  BY <2>1, <2>2, <2>3 DEF Tended
<1>6. QED  BY <1>3, <1>4, <1>5

LEMMA LinkedStep ==
  ASSUME Base, NEW q \in Requests, NEW s, requests' = [requests EXCEPT ![q] = s],
         NEW m \in Owned, NEW r \in Ids, Linked(m, r),
         \/ /\ \A p \in Requests \ {q} : ~ Involved(p, m, r)
            /\ (m \in s.touches /\ s.rel = r) => Agrees(s, m, memories'[m], relationships'[r])
            /\ ~ (m \in s.touches /\ s.rel = r) =>
                 (r \in memories'[m].links <=> Lists(relationships'[r], m))
         \/ /\ memories'[m] = memories[m] /\ relationships'[r] = relationships[r]
            /\ ~ (m \in s.touches /\ s.rel = r) /\ ~ Involved(q, m, r)
  PROVE  Linked(m, r)'
<1>1. \A p \in Requests : requests'[p] = IF p = q THEN s ELSE requests[p]
  BY DEF Base
<1>2. \A p \in Requests :
        Involved(p, m, r)' <=> IF p = q THEN m \in s.touches /\ s.rel = r ELSE Involved(p, m, r)
  BY <1>1 DEF Involved
<1>3. CASE /\ \A p \in Requests \ {q} : ~ Involved(p, m, r)
           /\ (m \in s.touches /\ s.rel = r) => Agrees(s, m, memories'[m], relationships'[r])
           /\ ~ (m \in s.touches /\ s.rel = r) =>
                 (r \in memories'[m].links <=> Lists(relationships'[r], m))
  BY <1>1, <1>2, <1>3 DEF Linked
<1>4. CASE /\ memories'[m] = memories[m] /\ relationships'[r] = relationships[r]
           /\ ~ (m \in s.touches /\ s.rel = r) /\ ~ Involved(q, m, r)
  <2>1. \A p \in Requests : Involved(p, m, r)' <=> Involved(p, m, r)
    BY <1>2, <1>4
  <2>2. \A p \in Requests : Involved(p, m, r) => requests'[p] = requests[p]
    BY <1>1, <1>4
  <2>3. QED  BY <1>4, <2>1, <2>2 DEF Linked
<1>5. QED  BY <1>3, <1>4

LEMMA StagedStep ==
  ASSUME Base, AllStaged, NEW q \in Requests, NEW s, requests' = [requests EXCEPT ![q] = s], Staged(s)
  PROVE  AllStaged'
<1>1. \A p \in Requests : requests'[p] = IF p = q THEN s ELSE requests[p]
  BY DEF Base
<1>2. QED  BY <1>1 DEF AllStaged

\* A request begins, with memories nobody else touches, or tears them.
LEMMA TidyBegun ==
  ASSUME Base, Tidy, NEW q \in Requests, NEW s, Good(s), Begun(q, s), Staged(s),
         \A m \in s.touches \cap Owned :
           (/\ memories[m].count = Cardinality(memories[m].links)
            /\ s.rel \in Ids => (s.rel \in memories[m].links <=> Lists(relationships[s.rel], m)))
           => /\ FitsIn(s, m, memories[m])
              /\ s.rel \in Ids => Agrees(s, m, memories[m], relationships[s.rel])
  PROVE  Tidy'
<1> DEFINE busy == UNION {requests[p].touches : p \in Running}
           rels == {requests[p].rel : p \in Running}
<1>1. /\ requests[q] = Idle /\ requests' = [requests EXCEPT ![q] = s]
      /\ memories' = memories /\ relationships' = relationships
      /\ torn' = [memories |-> torn.memories \cup
                    (IF s.rel \in torn.relationships THEN s.touches ELSE s.touches \cap busy),
                  relationships |-> torn.relationships \cup ({s.rel} \cap rels \cap Ids)]
  BY DEF Begun
<1>2. \A p \in Requests : requests[p].touches \subseteq busy
  <2>1. \A p \in Requests : requests[p].touches = {} \/ p \in Running
    BY AtWork, IdleIs DEF Running
  <2>2. QED  BY <2>1
<1> HIDE DEF busy, rels
<1>3. \A m \in Owned : m \notin torn'.memories => m \notin torn.memories
  BY <1>1
<1>4. \A r \in Ids : r \notin torn'.relationships => r \notin torn.relationships
  BY <1>1
<1>5. ASSUME NEW m \in Owned, m \notin torn'.memories, m \in s.touches
      PROVE  s.rel \notin torn.relationships /\ \A p \in Requests : ~ Touch(p, m)
  <2>1. s.rel \notin torn.relationships
    BY <1>1, <1>5
  <2>2. m \notin busy
    BY <1>1, <1>5, <2>1
  <2>3. QED  BY <1>2, <2>1, <2>2 DEF Touch
<1>6. ASSUME NEW m \in Owned, m \notin torn'.memories, m \in s.touches
      PROVE  /\ FitsIn(s, m, memories[m])
             /\ s.rel \in Ids => Agrees(s, m, memories[m], relationships[s.rel])
  <2>1. Tended(m)
    BY <1>3, <1>6 DEF Tidy, AllTended, Whole
  <2>2. memories[m].count = Cardinality(memories[m].links)
    BY <1>5, <1>6, <2>1 DEF Tended
  <2>3. ASSUME s.rel \in Ids PROVE s.rel \in memories[m].links <=> Lists(relationships[s.rel], m)
    <3>1. Linked(m, s.rel)
      BY <1>3, <1>5, <1>6, <2>3 DEF Tidy, AllLinked, Whole, WholeRelationship
    <3>2. QED  BY <1>5, <1>6, <3>1 DEF Linked, Involved, Touch
  <2>4. QED  BY <1>6, <2>2, <2>3
<1>7. AllTended'
  <2> SUFFICES ASSUME NEW m \in Owned, m \notin torn'.memories PROVE Tended(m)'
    BY DEF AllTended, Whole
  <2>1. Tended(m)
    BY <1>3 DEF Tidy, AllTended, Whole
  <2>2. m \notin requests[q].touches
    BY <1>1, IdleIs
  <2>3. QED  BY <1>1, <1>5, <1>6, <2>1, <2>2, TendedStep
<1>8. AllLinked'
  <2> SUFFICES ASSUME NEW m \in Owned, NEW r \in Ids, m \notin torn'.memories,
                      r \notin torn'.relationships
               PROVE  Linked(m, r)'
    BY DEF AllLinked, Whole, WholeRelationship
  <2>1. Linked(m, r)
    BY <1>3, <1>4 DEF Tidy, AllLinked, Whole, WholeRelationship
  <2>2. ~ Involved(q, m, r)
    BY <1>1, IdleIs DEF Involved
  <2>3. CASE m \in s.touches /\ s.rel = r
    <3>1. \A p \in Requests \ {q} : ~ Involved(p, m, r)
      BY <1>5, <2>3 DEF Involved, Touch
    <3>2. Agrees(s, m, memories'[m], relationships'[r])
      BY <1>1, <1>6, <2>3
    <3>3. QED  BY <1>1, <2>1, <2>3, <3>1, <3>2, LinkedStep
  <2>4. CASE ~ (m \in s.touches /\ s.rel = r)
    BY <1>1, <2>1, <2>2, <2>4, LinkedStep
  <2>5. QED  BY <2>3, <2>4
<1>9. AllStaged'
  BY <1>1, StagedStep DEF Tidy
<1>10. QED  BY <1>7, <1>8, <1>9 DEF Tidy

LEMMA IdleStaged == Staged(Idle)
<1>1. Idle.tasks = {} /\ Idle.later = {} /\ Idle.phase = "idle"
  BY DEF Idle
<1>2. QED  BY <1>1 DEF Staged

\* A request ends, with nothing to do for the memories it touched, or nothing begun.
LEMMA TidyEnded ==
  ASSUME Base, Tidy, NEW q \in Requests, Becomes(q, Idle), memories' = memories,
         relationships' = relationships, torn.memories \subseteq torn'.memories,
         torn.relationships \subseteq torn'.relationships,
         \A m \in requests[q].touches \cap Owned :
           FitsIn(requests[q], m, memories[m]) =>
             /\ memories[m].count = Cardinality(memories[m].links)
             /\ (/\ requests[q].rel \in Ids /\ requests[q].rel \notin torn'.relationships
                 /\ Agrees(requests[q], m, memories[m], relationships[requests[q].rel]))
                => (requests[q].rel \in memories[m].links <=>
                      Lists(relationships[requests[q].rel], m))
  PROVE  Tidy'
<1> DEFINE old == requests[q]
<1>1. requests' = [requests EXCEPT ![q] = Idle] /\ Idle.touches = {}
  BY IdleIs DEF Becomes
<1>2. ASSUME NEW m \in Owned, m \notin torn'.memories PROVE Tended(m) /\ Tended(m)'
  <2>1. Tended(m)
    BY <1>2 DEF Tidy, AllTended, Whole
  <2>2. CASE m \in old.touches
    <3>1. FitsIn(old, m, memories[m])
      BY <2>1, <2>2 DEF Tended, Touch
    <3>2. memories'[m].count = Cardinality(memories'[m].links)
      BY <2>2, <3>1
    <3>3. QED  BY <1>1, <2>1, <2>2, <3>2, TendedStep
  <2>3. CASE m \notin old.touches
    BY <1>1, <2>1, <2>3, TendedStep
  <2>4. QED  BY <2>1, <2>2, <2>3
<1>3. AllTended'
  BY <1>2 DEF AllTended, Whole
<1>4. AllLinked'
  <2> SUFFICES ASSUME NEW m \in Owned, NEW r \in Ids, m \notin torn'.memories,
                      r \notin torn'.relationships
               PROVE  Linked(m, r)'
    BY DEF AllLinked, Whole, WholeRelationship
  <2>1. Linked(m, r) /\ Tended(m)
    BY <1>2 DEF Tidy, AllLinked, Whole, WholeRelationship
  <2>2. CASE Involved(q, m, r)
    <3>1. m \in old.touches /\ old.rel = r
      BY <2>2 DEF Involved
    <3>2. \A p \in Requests \ {q} : ~ Involved(p, m, r)
      BY <2>1, <2>2 DEF Tended, Touch, Involved
    <3>3. FitsIn(old, m, memories[m]) /\ Agrees(old, m, memories[m], relationships[r])
      BY <2>1, <2>2, <3>1 DEF Tended, Linked, Touch
    <3>4. r \in memories'[m].links <=> Lists(relationships'[r], m)
      BY <3>1, <3>3
    <3>5. QED  BY <1>1, <2>1, <3>2, <3>4, LinkedStep
  <2>3. CASE ~ Involved(q, m, r)
    BY <1>1, <2>1, <2>3, LinkedStep
  <2>4. QED  BY <2>2, <2>3
<1>5. AllStaged'
  BY <1>1, IdleStaged, StagedStep DEF Tidy
<1>6. QED  BY <1>3, <1>4, <1>5 DEF Tidy

\* A request goes on with its calls.
LEMMA TidyOn ==
  ASSUME Base, Tidy, NEW q \in Requests, NEW s, Becomes(q, s), GoesOn(requests[q], s),
         requests[q].phase = "tasks", s.phase \in {"tasks", "drop"}, Staged(s),
         relationships' = relationships, torn.memories \subseteq torn'.memories,
         torn.relationships \subseteq torn'.relationships,
         \A m \in Owned : m \notin s.touches => memories'[m] = memories[m],
         \A m \in s.touches \cap Owned :
           (m \notin torn'.memories /\ FitsIn(requests[q], m, memories[m])) =>
             /\ FitsIn(s, m, memories'[m])
             /\ Will(s, m, memories'[m]) <=> Will(requests[q], m, memories[m])
             /\ \A r : r # s.rel => (r \in memories'[m].links <=> r \in memories[m].links)
  PROVE  Tidy'
<1> DEFINE old == requests[q]
<1>1. /\ requests' = [requests EXCEPT ![q] = s]
      /\ s.kind = old.kind /\ s.rel = old.rel /\ s.touches = old.touches
  BY DEF Becomes, GoesOn
<1>2. ASSUME NEW m \in Owned, m \notin torn'.memories, m \in old.touches
      PROVE  /\ \A p \in Requests \ {q} : ~ Touch(p, m)
             /\ FitsIn(s, m, memories'[m])
             /\ Will(s, m, memories'[m]) <=> Will(old, m, memories[m])
             /\ \A r : r # s.rel => (r \in memories'[m].links <=> r \in memories[m].links)
  <2>1. Tended(m)
    BY <1>2 DEF Tidy, AllTended, Whole
  <2>2. (\A p \in Requests \ {q} : ~ Touch(p, m)) /\ FitsIn(old, m, memories[m])
    BY <1>2, <2>1 DEF Tended, Touch
  <2>3. QED  BY <1>1, <1>2, <2>2
<1>3. AllTended'
  <2> SUFFICES ASSUME NEW m \in Owned, m \notin torn'.memories PROVE Tended(m)'
    BY DEF AllTended, Whole
  <2>1. Tended(m)
    BY DEF Tidy, AllTended, Whole
  <2>2. QED  BY <1>1, <1>2, <2>1, TendedStep
<1>4. AllLinked'
  <2> SUFFICES ASSUME NEW m \in Owned, NEW r \in Ids, m \notin torn'.memories,
                      r \notin torn'.relationships
               PROVE  Linked(m, r)'
    BY DEF AllLinked, Whole, WholeRelationship
  <2>1. Linked(m, r)
    BY DEF Tidy, AllLinked, Whole, WholeRelationship
  <2>2. CASE m \in s.touches /\ s.rel = r
    <3>1. \A p \in Requests \ {q} : ~ Involved(p, m, r)
      BY <1>1, <1>2, <2>2 DEF Touch, Involved
    <3>2. Agrees(old, m, memories[m], relationships[r])
      BY <1>1, <2>1, <2>2 DEF Linked, Involved
    <3>3. Will(s, m, memories'[m]) <=> Will(old, m, memories[m])
      BY <1>1, <1>2, <2>2
    <3>4. Agrees(s, m, memories'[m], relationships'[r])
      BY <1>1, <3>2, <3>3 DEF Agrees
    <3>5. QED  BY <1>1, <2>1, <2>2, <3>1, <3>4, LinkedStep
  <2>3. CASE m \in s.touches /\ s.rel # r
    <3>1. \A p \in Requests : ~ Involved(p, m, r)
      BY <1>1, <1>2, <2>3 DEF Touch, Involved
    <3>2. r \in memories'[m].links <=> Lists(relationships'[r], m)
      BY <1>1, <1>2, <2>1, <2>3, <3>1 DEF Linked
    <3>3. \A p \in Requests \ {q} : ~ Involved(p, m, r)
      BY <3>1
    <3>4. ~ (m \in s.touches /\ s.rel = r)
      BY <2>3
    <3>5. requests' = [requests EXCEPT ![q] = s]
      BY <1>1
    <3>6. QED  BY <2>1, <3>2, <3>3, <3>4, <3>5, LinkedStep
  <2>4. CASE m \notin s.touches
    <3>1. ~ Involved(q, m, r)
      BY <1>1, <2>4 DEF Involved
    <3>2. QED  BY <1>1, <2>1, <2>4, <3>1, LinkedStep
  <2>5. QED  BY <2>2, <2>3, <2>4
<1>5. AllStaged'
  BY <1>1, StagedStep DEF Tidy
<1>6. QED  BY <1>3, <1>4, <1>5 DEF Tidy

\* A request writes the relationship r.
LEMMA TidyWritten ==
  ASSUME Base, Tidy, NEW q \in Requests, NEW s, Becomes(q, s), Staged(s),
         memories' = memories, torn' = torn, NEW r \in Ids, NEW doc,
         relationships' = [relationships EXCEPT ![r] = doc],
         requests[q].rel \in {r, "none"},
         \/ s = Idle
         \/ s.rel = r /\ s.touches = requests[q].touches,
         WholeRelationship(r) => \A p \in Requests \ {q} : requests[p].rel # r,
         \A m \in Owned : Whole(m) =>
           /\ (m \in requests[q].touches /\ s = Idle) =>
                memories[m].count = Cardinality(memories[m].links)
           /\ m \in s.touches => /\ FitsIn(s, m, memories[m])
                                 /\ WholeRelationship(r) => Agrees(s, m, memories[m], doc)
           /\ (m \notin s.touches /\ WholeRelationship(r)) =>
                (r \in memories[m].links <=> Lists(doc, m))
  PROVE  Tidy'
<1> DEFINE old == requests[q]
<1>1. requests' = [requests EXCEPT ![q] = s] /\ Idle.touches = {} /\ Idle.rel = "none"
  BY IdleIs DEF Becomes
<1>2. \A x \in Ids : relationships'[x] = IF x = r THEN doc ELSE relationships[x]
  BY DEF Base
<1>3. ASSUME NEW m \in Owned, m \notin torn'.memories PROVE Tended(m) /\ Tended(m)'
  <2>1. Tended(m) /\ Whole(m)
    BY <1>3 DEF Tidy, AllTended, Whole
  <2>2. CASE m \in s.touches
    <3>1. m \in old.touches
      BY <1>1, <2>2
    <3>2. \A p \in Requests \ {q} : ~ Touch(p, m)
      BY <2>1, <3>1 DEF Tended, Touch
    <3>3. FitsIn(s, m, memories'[m])
      BY <2>1, <2>2
    <3>4. QED  BY <1>1, <2>1, <2>2, <3>2, <3>3, TendedStep
  <2>3. CASE m \notin s.touches
    <3>1. m \in old.touches => memories'[m].count = Cardinality(memories'[m].links)
      BY <2>1, <2>3
    <3>2. QED  BY <1>1, <2>1, <2>3, <3>1, TendedStep
  <2>4. QED  BY <2>1, <2>2, <2>3
<1>4. AllTended'
  BY <1>3 DEF AllTended, Whole
<1>5. AllLinked'
  <2> SUFFICES ASSUME NEW m \in Owned, NEW x \in Ids, m \notin torn'.memories,
                      x \notin torn'.relationships
               PROVE  Linked(m, x)'
    BY DEF AllLinked, Whole, WholeRelationship
  <2>1. Linked(m, x) /\ Whole(m) /\ WholeRelationship(x)
    BY DEF Tidy, AllLinked, Whole, WholeRelationship
  <2>2. CASE x = r
    <3>1. \A p \in Requests \ {q} : ~ Involved(p, m, x)
      BY <2>1, <2>2 DEF Involved
    <3>2. (m \in s.touches /\ s.rel = x) => Agrees(s, m, memories'[m], relationships'[x])
      BY <1>2, <2>1, <2>2
    <3>3. ~ (m \in s.touches /\ s.rel = x) => (x \in memories'[m].links <=> Lists(relationships'[x], m))
      BY <1>1, <1>2, <2>1, <2>2
    <3>4. QED  BY <1>1, <2>1, <3>1, <3>2, <3>3, LinkedStep
  <2>3. CASE x # r
    <3>1. ~ Involved(q, m, x)
      BY <2>3, ConstantsAssumption DEF Involved, ConstantsAssumption
    <3>2. ~ (m \in s.touches /\ s.rel = x)
      BY <1>1, <2>3
    <3>3. QED  BY <1>1, <1>2, <2>1, <2>3, <3>1, <3>2, LinkedStep
  <2>4. QED  BY <2>2, <2>3
<1>6. AllStaged'
  BY <1>1, StagedStep DEF Tidy
<1>7. QED  BY <1>4, <1>5, <1>6 DEF Tidy

\* What a request may begin with: a call to link, with one for the count, and one to
\* unlink that waits for them.
LEMMA FitsStart ==
  ASSUME NEW work \in SUBSET Call, NEW now \in SUBSET work, NEW rel, NEW mem \in Memory,
         mem.count = Cardinality(mem.links),
         \A t \in work : t.kind \in {"link", "readUp", "unlink"} /\ t.read.links = mem.links,
         \A t, u \in work : t.kind = u.kind => t = u,
         \A t \in work : t \notin now => t.kind \in {"link", "unlink"},
         \A t \in now : t.kind = "unlink" => work = {t},
         \A t, u \in work : t \notin now /\ t.kind = "link" => u.kind # "unlink",
         Pend(work, {"link"}) <=> Pend(work, {"readUp"}),
         Pend(work, {"link"}) => rel \notin mem.links,
         Pend(work, {"unlink"}) => Pend(work, {"link"}) \/ rel \in mem.links
  PROVE  Fits(work, now, rel, mem)
<1>1. \A t \in work : t.kind \notin {"set", "cut", "readDown", "replace"}
  OBVIOUS
<1>2. ~ Pend(work, {"set"}) /\ ~ Pend(work, {"cut"}) /\ ~ Pend(work, {"readDown"})
  BY <1>1 DEF Pend
<1>3. Planned(work, now, rel, mem)
  <2>1. \A t, u \in work : Lane(t.kind) = Lane(u.kind) => t = u
    BY DEF Lane
  <2>2. \A t \in work : Lane(t.kind) = "down" => t.kind = "unlink"
    BY DEF Lane
  <2>3. \A t \in now : Lane(t.kind) = "down" => work = {t}
    BY <2>2
  <2>4. \A t, u \in work : t \notin now /\ t.kind = "link" => Lane(u.kind) # "down"
    BY <2>2
  <2>5. QED  BY <1>1, <1>2, <2>1, <2>3, <2>4 DEF Planned
<1>4. Balance(work, mem) = Cardinality(mem.links)
  <2>1. Tally(work, "link") = Tally(work, "readUp") /\ Tally(work, "readDown") = 0
    BY <1>2 DEF Tally
  <2>2. Tally(work, "link") \in 0..1 /\ Cardinality(mem.links) \in Nat
    BY BalanceIs, LinksCount
  <2>3. QED  BY <2>1, <2>2 DEF Balance
<1>5. Counted(work, mem)
  BY <1>1, <1>4 DEF Counted
<1>6. QED  BY <1>3, <1>5 DEF Fits

\* The calls of one kind for one memory.
LEMMA TasksOf ==
  ASSUME Base, NEW kind \in TaskKinds, NEW ms \in SUBSET Memories, NEW m \in Memories
  PROVE  LET u == Task(kind, m, memories[m]) IN
         /\ u \in Call /\ u.kind = kind /\ u.memory = m /\ u.read = memories[m]
         /\ \A t : (t \in Tasks(kind, ms) /\ t.memory = m) <=> (m \in ms /\ t = u)
         /\ \A t \in Tasks(kind, ms) : t.kind = kind
<1>1. memories[m] \in Memory
  BY DEF Base
<1> DEFINE u == Task(kind, m, memories[m])
<1>2. u \in Call /\ u.kind = kind /\ u.memory = m /\ u.read = memories[m]
  BY <1>1, TaskIs
<1>3. \A t : (t \in Tasks(kind, ms) /\ t.memory = m) <=> (m \in ms /\ t = u)
  <2>1. ASSUME NEW t, t \in Tasks(kind, ms), t.memory = m PROVE m \in ms /\ t = u
    <3>1. PICK x \in ms : t = Task(kind, x, memories[x])
      BY <2>1 DEF Tasks
    <3>2. x = m
      BY <2>1, <3>1 DEF Task
    <3>3. QED  BY <3>1, <3>2
  <2>2. ASSUME m \in ms PROVE u \in Tasks(kind, ms) /\ u.memory = m
    BY <1>2, <2>2 DEF Tasks
  <2>3. QED  BY <2>1, <2>2
<1>4. \A t \in Tasks(kind, ms) : t.kind = kind
  BY DEF Tasks, Task
<1>5. QED  BY <1>2, <1>3, <1>4

LEMMA MineIs ==
  ASSUME NEW s, IsRequest(s), NEW m
  PROVE  /\ Mine(s, m) \in SUBSET Call /\ Now(s, m) \in SUBSET Mine(s, m)
         /\ \A t : t \in Mine(s, m) <=> (t \in s.tasks \/ t \in s.later) /\ t.memory = m
         /\ \A t : t \in Now(s, m) <=> t \in s.tasks /\ t.memory = m
<1>1. s.tasks \in SUBSET Call /\ s.later \in SUBSET Call
  BY RequestFields
<1>2. QED  BY <1>1 DEF Mine, Now, Work

LEMMA TidyCreate ==
  ASSUME Base, Tidy, NEW q \in Requests, NEW s, Good(s), Begun(q, s), NEW ids \in Members,
         StartCreate(s, ids)
  PROVE  Tidy'
<1> DEFINE ms == ToSet(ids) \cap Owned
<1>1. /\ s.kind = "create" /\ s.phase = "insert" /\ s.rel = "none" /\ s.doc = Fresh(ids)
      /\ s.tasks = Tasks("readUp", ms) /\ s.later = Tasks("link", ms) /\ s.touches = ToSet(ids)
  BY DEF StartCreate
<1>2. ms \in SUBSET Memories /\ "readUp" \in TaskKinds /\ "link" \in TaskKinds /\ Owned \subseteq Memories
  BY ConstantsAssumption DEF TaskKinds, ConstantsAssumption
<1>3. ASSUME NEW m \in Owned
      PROVE  \E up \in Call, link \in Call :
               /\ up.kind = "readUp" /\ up.read = memories[m]
               /\ link.kind = "link" /\ link.read = memories[m]
               /\ \A t : t \in Mine(s, m) <=> m \in ms /\ (t = up \/ t = link)
               /\ \A t : t \in Now(s, m) <=> m \in ms /\ t = up
  <2> DEFINE up == Task("readUp", m, memories[m])
             link == Task("link", m, memories[m])
  <2>1. m \in Memories
    BY <1>2
  <2>2. /\ up \in Call /\ up.kind = "readUp" /\ up.read = memories[m]
        /\ \A t : (t \in s.tasks /\ t.memory = m) <=> (m \in ms /\ t = up)
    BY <1>1, <1>2, <2>1, TasksOf
  <2>3. /\ link \in Call /\ link.kind = "link" /\ link.read = memories[m]
        /\ \A t : (t \in s.later /\ t.memory = m) <=> (m \in ms /\ t = link)
    BY <1>1, <1>2, <2>1, TasksOf
  <2> HIDE DEF up, link, ms
  <2>4. /\ \A t : t \in Mine(s, m) <=> (t \in s.tasks \/ t \in s.later) /\ t.memory = m
        /\ \A t : t \in Now(s, m) <=> t \in s.tasks /\ t.memory = m
    BY MineIs DEF Good
  <2>5. QED  BY <2>2, <2>3, <2>4
<1>4. Staged(s)
  <2>1. \A t \in s.later : t.kind = "link" /\ t \notin s.tasks
    <3>1. \A t \in s.tasks : t.kind = "readUp"
      BY <1>1 DEF Tasks, Task
    <3>2. \A t \in s.later : t.kind = "link"
      BY <1>1 DEF Tasks, Task
    <3>3. QED  BY <3>1, <3>2
  <2>2. \A m \in Owned : /\ Pend(Mine(s, m), {"link"}) <=> Pend(Mine(s, m), {"readUp"})
                         /\ ~ Pend(Mine(s, m), {"set", "readDown", "cut"})
                         /\ m \in s.touches => /\ Pend(Mine(s, m), {"link"})
                                               /\ ~ Pend(Mine(s, m), {"unlink", "cut"})
    <3> SUFFICES ASSUME NEW m \in Owned
                 PROVE  /\ Pend(Mine(s, m), {"link"}) <=> Pend(Mine(s, m), {"readUp"})
                        /\ ~ Pend(Mine(s, m), {"set", "readDown", "cut"})
                        /\ m \in s.touches => /\ Pend(Mine(s, m), {"link"})
                                              /\ ~ Pend(Mine(s, m), {"unlink", "cut"})
      OBVIOUS
    <3>1. PICK up \in Call, link \in Call :
               /\ up.kind = "readUp" /\ link.kind = "link"
               /\ \A t : t \in Mine(s, m) <=> m \in ms /\ (t = up \/ t = link)
      BY <1>3
    <3>2. m \in s.touches => m \in ms
      BY <1>1
    <3> HIDE DEF ms
    <3>3. QED  BY <3>1, <3>2 DEF Pend
  <2>3. s.touches = ToSet(s.doc.related)
    BY <1>1 DEF Fresh
  <2>4. QED  BY <1>1, <2>1, <2>2, <2>3 DEF Staged
<1>5. s.rel \notin Ids
  BY <1>1, ConstantsAssumption DEF ConstantsAssumption
<1>6. ASSUME NEW m \in s.touches \cap Owned, memories[m].count = Cardinality(memories[m].links)
      PROVE  FitsIn(s, m, memories[m])
  <2>1. memories[m] \in Memory /\ m \in ms
    BY <1>1, <1>2 DEF Base
  <2>2. PICK up \in Call, link \in Call :
               /\ up.kind = "readUp" /\ up.read = memories[m]
               /\ link.kind = "link" /\ link.read = memories[m]
               /\ \A t : t \in Mine(s, m) <=> m \in ms /\ (t = up \/ t = link)
               /\ \A t : t \in Now(s, m) <=> m \in ms /\ t = up
    BY <1>3
  <2> DEFINE work == Mine(s, m)
             now == Now(s, m)
  <2>3. work \in SUBSET Call /\ now \in SUBSET work
    BY MineIs DEF Good
  <2>4. (\A t : t \in work <=> t = up \/ t = link) /\ (\A t : t \in now <=> t = up)
    BY <2>1, <2>2
  <2>5. s.rel \notin memories[m].links
    BY <1>5, <2>1, LinksCount
  <2> HIDE DEF work, now, ms
  <2>6. /\ \A t \in work : t.kind \in {"link", "readUp", "unlink"} /\ t.read.links = memories[m].links
        /\ \A t, u \in work : t.kind = u.kind => t = u
        /\ \A t \in work : t \notin now => t.kind \in {"link", "unlink"}
        /\ \A t \in work : t.kind # "unlink"
        /\ Pend(work, {"link"}) /\ Pend(work, {"readUp"}) /\ ~ Pend(work, {"unlink"})
    BY <2>2, <2>4 DEF Pend
  <2>7. Fits(work, now, s.rel, memories[m])
    BY <1>6, <2>1, <2>3, <2>5, <2>6, FitsStart
  <2>8. QED  BY <2>7 DEF work, now, FitsIn
<1>7. QED  BY <1>4, <1>5, <1>6, TidyBegun

LEMMA TidyUpdate ==
  ASSUME Base, Tidy, NEW q \in Requests, NEW s, Good(s), Begun(q, s), NEW r \in Ids,
         NEW new \in SUBSET Memories, NEW removed \in SUBSET Memories,
         StartUpdate(s, r, new, removed)
  PROVE  Tidy'
<1> DEFINE doc == relationships[r]
           ms == new \cap Owned
<1>1. /\ doc.exists /\ new \cap ToSet(doc.related) = {} /\ removed \subseteq ToSet(doc.related) \cup new
      /\ s.kind = "update" /\ s.phase = "write" /\ s.rel = r
      /\ ToSet(s.doc.related) = (ToSet(doc.related) \cup new) \ removed
      /\ s.tasks = Tasks("link", ms) \cup Tasks("readUp", ms)
      /\ s.later = Tasks("unlink", removed) /\ s.touches = new \cup removed
  BY DEF StartUpdate
<1>2. /\ ms \in SUBSET Memories /\ Owned \subseteq Memories
      /\ "readUp" \in TaskKinds /\ "link" \in TaskKinds /\ "unlink" \in TaskKinds
  BY ConstantsAssumption DEF TaskKinds, ConstantsAssumption
<1>3. ASSUME NEW m \in Owned
      PROVE  \E up \in Call, link \in Call, down \in Call :
               /\ up.kind = "readUp" /\ up.read = memories[m]
               /\ link.kind = "link" /\ link.read = memories[m]
               /\ down.kind = "unlink" /\ down.read = memories[m]
               /\ \A t : t \in Mine(s, m) <=> (m \in new /\ (t = up \/ t = link)) \/ (m \in removed /\ t = down)
               /\ \A t : t \in Now(s, m) <=> m \in new /\ (t = up \/ t = link)
  <2> DEFINE up == Task("readUp", m, memories[m])
             link == Task("link", m, memories[m])
             down == Task("unlink", m, memories[m])
             ups == Tasks("readUp", ms)
             links == Tasks("link", ms)
             downs == Tasks("unlink", removed)
  <2>1. m \in Memories /\ (m \in ms <=> m \in new)
    BY <1>2
  <2>2. /\ up \in Call /\ up.kind = "readUp" /\ up.read = memories[m]
        /\ \A t : (t \in ups /\ t.memory = m) <=> (m \in ms /\ t = up)
    BY <1>2, <2>1, TasksOf
  <2>3. /\ link \in Call /\ link.kind = "link" /\ link.read = memories[m]
        /\ \A t : (t \in links /\ t.memory = m) <=> (m \in ms /\ t = link)
    BY <1>2, <2>1, TasksOf
  <2>4. /\ down \in Call /\ down.kind = "unlink" /\ down.read = memories[m]
        /\ \A t : (t \in downs /\ t.memory = m) <=> (m \in removed /\ t = down)
    BY <1>2, <2>1, TasksOf
  <2>5. s.tasks = links \cup ups /\ s.later = downs
    BY <1>1
  <2> HIDE DEF up, link, down, ups, links, downs, ms
  <2>6. /\ \A t : t \in Mine(s, m) <=> (t \in s.tasks \/ t \in s.later) /\ t.memory = m
        /\ \A t : t \in Now(s, m) <=> t \in s.tasks /\ t.memory = m
    BY MineIs DEF Good
  <2>7. \A t : t \in Now(s, m) <=> m \in new /\ (t = up \/ t = link)
    BY <2>1, <2>2, <2>3, <2>5, <2>6
  <2>8. \A t : t \in Mine(s, m) <=> t \in Now(s, m) \/ (m \in removed /\ t = down)
    BY <2>4, <2>5, <2>6
  <2>9. QED  BY <2>2, <2>3, <2>4, <2>7, <2>8
<1>4. Staged(s)
  <2>1. \A t \in s.later : t.kind = "unlink" /\ t \notin s.tasks
    <3>1. \A t \in s.tasks : t.kind # "unlink"
      BY <1>1 DEF Tasks, Task
    <3>2. \A t \in s.later : t.kind = "unlink"
      BY <1>1 DEF Tasks, Task
    <3>3. QED  BY <3>1, <3>2
  <2>2. \A m \in Owned : /\ Pend(Mine(s, m), {"link"}) <=> Pend(Mine(s, m), {"readUp"})
                         /\ ~ Pend(Mine(s, m), {"set", "readDown", "cut"})
    <3> SUFFICES ASSUME NEW m \in Owned
                 PROVE  /\ Pend(Mine(s, m), {"link"}) <=> Pend(Mine(s, m), {"readUp"})
                        /\ ~ Pend(Mine(s, m), {"set", "readDown", "cut"})
      OBVIOUS
    <3>1. PICK up \in Call, link \in Call, down \in Call :
               /\ up.kind = "readUp" /\ link.kind = "link" /\ down.kind = "unlink"
               /\ \A t : t \in Mine(s, m) <=> (m \in new /\ (t = up \/ t = link)) \/ (m \in removed /\ t = down)
      BY <1>3
    <3>2. QED  BY <3>1 DEF Pend
  <2>3. QED  BY <1>1, <2>1, <2>2 DEF Staged
<1>5. ASSUME NEW m \in s.touches \cap Owned, memories[m].count = Cardinality(memories[m].links),
             r \in memories[m].links <=> Lists(doc, m)
      PROVE  FitsIn(s, m, memories[m]) /\ Agrees(s, m, memories[m], doc)
  <2>1. memories[m] \in Memory /\ m \in Owned /\ (m \in new \/ m \in removed)
    BY <1>1, <1>2 DEF Base
  <2>2. PICK up \in Call, link \in Call, down \in Call :
               /\ up.kind = "readUp" /\ up.read = memories[m]
               /\ link.kind = "link" /\ link.read = memories[m]
               /\ down.kind = "unlink" /\ down.read = memories[m]
               /\ \A t : t \in Mine(s, m) <=> (m \in new /\ (t = up \/ t = link)) \/ (m \in removed /\ t = down)
               /\ \A t : t \in Now(s, m) <=> m \in new /\ (t = up \/ t = link)
    BY <1>3, <2>1
  <2> DEFINE work == Mine(s, m)
             now == Now(s, m)
             mem == memories[m]
  <2>3. work \in SUBSET Call /\ now \in SUBSET work
    BY MineIs DEF Good
  <2>4. /\ \A t : t \in work <=> (m \in new /\ (t = up \/ t = link)) \/ (m \in removed /\ t = down)
        /\ \A t : t \in now <=> m \in new /\ (t = up \/ t = link)
    BY <2>2
  <2>5. r \in mem.links <=> m \in ToSet(doc.related)
    BY <1>1, <1>5 DEF Lists
  <2>6. (m \in new => r \notin mem.links) /\ (m \in removed => m \in new \/ r \in mem.links)
    BY <1>1, <2>5
  <2>7. mem \in Memory /\ mem.count = Cardinality(mem.links)
        /\ up.read = mem /\ link.read = mem /\ down.read = mem
    BY <1>5, <2>1, <2>2
  <2> HIDE DEF work, now, ms, mem
  <2>8. /\ \A t \in work : t.kind \in {"link", "readUp", "unlink"} /\ t.read.links = mem.links
        /\ \A t, u \in work : t.kind = u.kind => t = u
        /\ \A t \in work : t \notin now => t.kind = "unlink"
        /\ \A t \in now : t.kind # "unlink"
    BY <2>2, <2>4, <2>7
  <2>9. /\ Pend(work, {"link"}) <=> m \in new
        /\ Pend(work, {"readUp"}) <=> m \in new
        /\ Pend(work, {"unlink"}) <=> m \in removed
        /\ Pend(work, {"unlink", "cut"}) <=> m \in removed
    BY <2>2, <2>4 DEF Pend
  <2>10. Fits(work, now, r, mem)
    BY <2>3, <2>6, <2>7, <2>8, <2>9, FitsStart
  <2>11. FitsIn(s, m, mem)
    BY <1>1, <2>10 DEF work, now, FitsIn
  <2>12. Will(s, m, mem) <=> m \in ToSet(s.doc.related)
    <3>1. WillLink(work, r, mem) <=> m \notin removed /\ (m \in new \/ r \in mem.links)
      BY <2>9 DEF WillLink
    <3>2. QED  BY <1>1, <2>5, <3>1 DEF Will, work
  <2>13. Agrees(s, m, mem, doc)
    BY <1>1, <2>5, <2>12 DEF Agrees, Lists
  <2>14. QED  BY <2>11, <2>13 DEF mem
<1>6. QED  BY <1>1, <1>4, <1>5, TidyBegun

LEMMA TidyReorder ==
  ASSUME Base, Tidy, NEW q \in Requests, NEW s, Good(s), Begun(q, s), NEW r \in Ids,
         StartReorder(s, r)
  PROVE  Tidy'
<1>1. /\ s.kind = "reorder" /\ s.phase = "write" /\ s.tasks = {} /\ s.later = {} /\ s.touches = {}
  BY DEF StartReorder
<1>2. \A m : Mine(s, m) = {}
  BY <1>1 DEF Mine, Work
<1>3. Staged(s)
  BY <1>1, <1>2 DEF Staged, Pend
<1>4. QED  BY <1>1, <1>3, TidyBegun

LEMMA TidyDelete ==
  ASSUME Base, Tidy, NEW q \in Requests, NEW s, Good(s), Begun(q, s), NEW r \in Ids,
         StartDelete(s, r)
  PROVE  Tidy'
<1> DEFINE doc == relationships[r]
           ms == ToSet(doc.related) \cap Owned
<1>1. /\ doc.exists /\ s.kind = "delete" /\ s.phase = "tasks" /\ s.rel = r
      /\ s.tasks = Tasks("unlink", ms) /\ s.later = {} /\ s.touches = ms
  BY DEF StartDelete
<1>2. ms \in SUBSET Memories /\ Owned \subseteq Memories /\ "unlink" \in TaskKinds
  BY ConstantsAssumption DEF TaskKinds, ConstantsAssumption
<1>3. Staged(s)
  BY <1>1 DEF Staged
<1>4. ASSUME NEW m \in s.touches \cap Owned, memories[m].count = Cardinality(memories[m].links),
             r \in memories[m].links <=> Lists(doc, m)
      PROVE  FitsIn(s, m, memories[m]) /\ Agrees(s, m, memories[m], doc)
  <2> DEFINE work == Mine(s, m)
             now == Now(s, m)
             mem == memories[m]
             down == Task("unlink", m, mem)
  <2>1. mem \in Memory /\ m \in ms /\ m \in Memories
    BY <1>1, <1>2 DEF Base
  <2>2. /\ down \in Call /\ down.kind = "unlink" /\ down.read = mem
        /\ \A t : (t \in s.tasks /\ t.memory = m) <=> (m \in ms /\ t = down)
    BY <1>1, <1>2, <2>1, TasksOf
  <2>3. /\ \A t : t \in work <=> (t \in s.tasks \/ t \in s.later) /\ t.memory = m
        /\ \A t : t \in now <=> t \in s.tasks /\ t.memory = m
        /\ work \in SUBSET Call /\ now \in SUBSET work
    BY MineIs DEF Good
  <2>4. r \in mem.links
    BY <1>1, <1>4, <2>1 DEF Lists
  <2>5. mem.count = Cardinality(mem.links)
    BY <1>4
  <2> HIDE DEF work, now, mem, down, ms
  <2>6. work = {down} /\ now = {down}
    BY <1>1, <2>1, <2>2, <2>3
  <2>7. Fits({down}, {down}, r, mem)
    <3>1. Pend({down}, {"unlink"}) /\ ~ Pend({down}, {"link"}) /\ ~ Pend({down}, {"readUp"})
      BY <2>2 DEF Pend
    <3>2. {down} \in SUBSET Call /\ {down} \in SUBSET {down}
      BY <2>2
    <3>3. /\ \A t \in {down} : t.kind \in {"link", "readUp", "unlink"} /\ t.read.links = mem.links
          /\ \A t, u \in {down} : t.kind = u.kind => t = u
      BY <2>2
    <3>4. QED  BY <2>1, <2>2, <2>4, <2>5, <3>1, <3>2, <3>3, FitsStart
  <2>8. ~ WillLink({down}, r, mem)
    BY <2>1, <2>2, LoneLink
  <2>9. FitsIn(s, m, mem) /\ ~ Will(s, m, mem)
    BY <1>1, <2>6, <2>7, <2>8 DEF FitsIn, Will, work, now
  <2>10. QED  BY <1>1, <2>9 DEF Agrees, mem
<1>5. QED  BY <1>1, <1>3, <1>4, TidyBegun

LEMMA TidyEdit ==
  ASSUME Base, Tidy, NEW q \in Requests, NEW s, Good(s), Begun(q, s), NEW m \in Memories,
         NEW memory \in Memory, StartEdit(s, m, memory)
  PROVE  Tidy'
<1> DEFINE t == Task("replace", m, memory)
           mem == memories[m]
<1>1. /\ m \in Owned /\ memory.links = mem.links /\ memory.count = mem.count
      /\ s.kind = "edit" /\ s.phase = "tasks" /\ s.rel = "none"
      /\ s.tasks = {t} /\ s.later = {} /\ s.touches = {m}
  BY DEF StartEdit
<1>2. t \in Call /\ t.kind = "replace" /\ t.memory = m /\ t.read = memory
  BY TaskIs DEF TaskKinds
<1>3. mem \in Memory
  BY DEF Base
<1>4. Staged(s)
  BY <1>1 DEF Staged
<1>5. s.rel \notin Ids
  BY <1>1, ConstantsAssumption DEF ConstantsAssumption
<1>6. ASSUME mem.count = Cardinality(mem.links) PROVE FitsIn(s, m, mem)
  <2>1. Mine(s, m) = {t} /\ Now(s, m) = {t}
    <3> HIDE DEF t
    <3>1. QED  BY <1>1, <1>2 DEF Mine, Now, Work
  <2> HIDE DEF t, mem
  <2>2. Planned({t}, {t}, s.rel, mem)
    BY <1>1, <1>2, <1>3, LoneCall
  <2>3. Counted({t}, mem)
    <3>1. Balance({t}, mem) = Cardinality(mem.links)
      BY <1>2, <1>3, LoneCall
    <3>2. QED  BY <1>2, <1>6, <3>1 DEF Counted
  <2>4. QED  BY <2>1, <2>2, <2>3 DEF FitsIn, Fits
<1>7. \A x \in s.touches \cap Owned : x = m
  BY <1>1
<1>8. QED  BY <1>4, <1>5, <1>6, <1>7, TidyBegun

\* A request that has not written its relationship has changed no memory.
LEMMA NotBegun ==
  ASSUME NEW s, Staged(s), s.phase \in {"insert", "write"}, NEW m \in Owned, NEW mem \in Memory,
         FitsIn(s, m, mem)
  PROVE  mem.count = Cardinality(mem.links)
<1> DEFINE work == Mine(s, m)
<1>1. /\ Pend(work, {"link"}) <=> Pend(work, {"readUp"})
      /\ ~ Pend(work, {"set", "readDown", "cut"})
  BY DEF Staged
<1>2. Counted(work, mem)
  BY DEF FitsIn, Fits
<1> HIDE DEF work
<1>3. ~ Pend(work, {"set"}) /\ ~ Pend(work, {"readDown"})
  BY <1>1 DEF Pend
<1>4. Tally(work, "link") = Tally(work, "readUp") /\ Tally(work, "readDown") = 0
  BY <1>1, <1>3 DEF Tally
<1>5. Tally(work, "link") \in 0..1 /\ Cardinality(mem.links) \in Nat
  BY BalanceIs, LinksCount
<1>6. Balance(work, mem) = Cardinality(mem.links)
  BY <1>4, <1>5 DEF Balance
<1>7. QED  BY <1>2, <1>3, <1>6 DEF Counted

LEMMA TidyWriteFails ==
  ASSUME Base, Tidy, NEW q \in Requests, requests[q].phase \in {"insert", "write"},
         Becomes(q, Idle), memories' = memories, relationships' = relationships, torn' = torn
  PROVE  Tidy'
<1> DEFINE old == requests[q]
<1>1. Good(old) /\ Staged(old)
  BY DEF Base, Tidy, AllStaged
<1>2. old.kind \in Kinds
  BY <1>1, RequestFields DEF Good
<1>3. old.phase = "insert" => old.rel \notin Ids
  BY <1>1, <1>2, ConstantsAssumption DEF Good, Shape, Kinds, Idle, ConstantsAssumption
<1>4. ASSUME NEW m \in old.touches \cap Owned, FitsIn(old, m, memories[m])
      PROVE  memories[m].count = Cardinality(memories[m].links)
  <2>1. memories[m] \in Memory
    BY ConstantsAssumption DEF Base, ConstantsAssumption
  <2>2. QED  BY <1>1, <1>4, <2>1, NotBegun
<1>5. ASSUME NEW m \in old.touches \cap Owned, old.rel \in Ids,
             Agrees(old, m, memories[m], relationships[old.rel])
      PROVE  old.rel \in memories[m].links <=> Lists(relationships[old.rel], m)
  BY <1>3, <1>5 DEF Agrees
<1>6. QED  BY <1>4, <1>5, TidyEnded

LEMMA DeedNext ==
  ASSUME NEW s, NEW t, NEW old, NEW new, NEW next, Deed(s, t, old, new, next)
  PROVE  \A u \in next : u.memory = t.memory /\ u.kind \notin {"link", "unlink"}
  BY DEF Deed, Task

LEMMA TidyPerform ==
  ASSUME Base, Tidy, NEW q \in Requests, Perform(q)
  PROVE  Tidy'
<1> DEFINE old == requests[q]
<1>1. old.phase = "tasks" /\ relationships' = relationships /\ torn' = torn
  BY PerformIs
<1>2. PICK t, new, next, s :
        /\ t \in old.tasks /\ new \in Memory /\ next \in SUBSET Call
        /\ t.memory \in old.touches /\ t.memory \in Memories
        /\ memories' = [memories EXCEPT ![t.memory] = new]
        /\ Deed(old, t, memories[t.memory], new, next)
        /\ Becomes(q, s) /\ GoesOn(old, s)
        /\ s.phase = "tasks" /\ s.tasks = (old.tasks \ {t}) \cup next /\ s.later = old.later
  BY PerformIs
<1>3. \A u \in next : u.memory = t.memory /\ u.kind \notin {"link", "unlink"}
  BY <1>2, DeedNext
<1>4. Good(old) /\ Good(s) /\ Staged(old)
  BY <1>2 DEF Base, Tidy, AllStaged, Becomes
<1>5. s.rel = old.rel /\ s.touches = old.touches
  BY <1>2 DEF GoesOn
<1>6. Staged(s)
  <2>1. \A u \in s.later : u.kind \in {"link", "unlink"} /\ u \notin s.tasks
    BY <1>2, <1>3, <1>4 DEF Staged
  <2>2. QED  BY <1>2, <2>1 DEF Staged
<1>7. memories \in [Memories -> Memory] /\ Owned \subseteq Memories
  BY ConstantsAssumption DEF Base, ConstantsAssumption
<1>8. \A m \in Owned : m \notin s.touches => memories'[m] = memories[m]
  BY <1>2, <1>5, <1>7
<1>9. ASSUME NEW m \in s.touches \cap Owned, FitsIn(old, m, memories[m])
      PROVE  /\ FitsIn(s, m, memories'[m])
             /\ Will(s, m, memories'[m]) <=> Will(old, m, memories[m])
             /\ \A r : r # s.rel => (r \in memories'[m].links <=> r \in memories[m].links)
  <2>1. /\ \A u : u \in Mine(old, m) <=> (u \in old.tasks \/ u \in old.later) /\ u.memory = m
        /\ \A u : u \in Now(old, m) <=> u \in old.tasks /\ u.memory = m
        /\ Mine(old, m) \in SUBSET Call /\ Now(old, m) \in SUBSET Mine(old, m)
    BY <1>4, MineIs DEF Good
  <2>2. /\ \A u : u \in Mine(s, m) <=> (u \in s.tasks \/ u \in s.later) /\ u.memory = m
        /\ \A u : u \in Now(s, m) <=> u \in s.tasks /\ u.memory = m
    BY <1>4, MineIs DEF Good
  <2>3. CASE m = t.memory
    <3>1. t \notin old.later
      BY <1>2, <1>4 DEF Staged
    <3>2. Mine(s, m) = (Mine(old, m) \ {t}) \cup next
      BY <1>2, <1>3, <2>1, <2>2, <2>3, <3>1
    <3>3. Now(s, m) = (Now(old, m) \ {t}) \cup next
      BY <1>2, <1>3, <2>1, <2>2, <2>3
    <3> DEFINE work == Mine(old, m)
               now == Now(old, m)
               mem == memories[m]
    <3>4. t \in now /\ mem \in Memory /\ work \in SUBSET Call /\ now \in SUBSET work
          /\ t.memory \in Owned
      BY <1>2, <1>7, <2>1, <2>3
    <3>5. Fits(work, now, old.rel, mem) /\ Deed(old, t, mem, new, next)
      BY <1>2, <1>9, <2>3 DEF FitsIn
    <3>6. memories'[m] = new
      BY <1>2, <1>7, <2>3
    <3> HIDE DEF work, now, mem
    <3>7. Fits((work \ {t}) \cup next, (now \ {t}) \cup next, old.rel, new)
      BY <1>2, <3>4, <3>5, FitsDone
    <3>8. WillLink((work \ {t}) \cup next, old.rel, new) <=> WillLink(work, old.rel, mem)
      BY <1>2, <3>4, <3>5, FitsDone
    <3>9. \A r : r # old.rel => (r \in new.links <=> r \in mem.links)
      <4> HIDE DEF old
      <4>1. Planned(work, now, old.rel, mem) /\ t \in work /\ t.kind \in TaskKinds
        BY <3>4, <3>5, CallIs DEF Fits
      <4>2. \/ new.links = mem.links
            \/ /\ t.read.links \ {old.rel} = mem.links \ {old.rel}
               /\ new.links \in {t.read.links, t.read.links \cup {old.rel}, t.read.links \ {old.rel}}
        BY <3>5, <4>1 DEF Planned, Deed, TaskKinds
      <4>3. QED  BY <4>2
    <3>10. FitsIn(s, m, new)
      BY <1>5, <3>2, <3>3, <3>7 DEF FitsIn, work, now
    <3>11. Will(s, m, new) <=> Will(old, m, mem)
      BY <1>5, <3>2, <3>8 DEF Will, work
    <3>12. QED  BY <1>5, <3>6, <3>9, <3>10, <3>11 DEF mem
  <2>4. CASE m # t.memory
    <3>1. Mine(s, m) = Mine(old, m) /\ Now(s, m) = Now(old, m)
      BY <1>2, <1>3, <2>1, <2>2, <2>4
    <3>2. memories'[m] = memories[m]
      BY <1>2, <1>7, <2>4
    <3>3. QED  BY <1>5, <1>9, <3>1, <3>2 DEF FitsIn, Will
  <2>5. QED  BY <2>3, <2>4
<1>10. QED  BY <1>1, <1>2, <1>6, <1>8, <1>9, TidyOn

LEMMA TidyTaskFails ==
  ASSUME Base, Tidy, NEW q \in Requests, TaskFails(q)
  PROVE  Tidy'
<1> DEFINE old == requests[q]
<1>1. old.phase = "tasks" /\ memories' = memories /\ relationships' = relationships
  BY TaskFailsIs
<1>2. PICK t, s :
        /\ t \in old.tasks
        /\ t.memory \in Memories
        /\ torn' = [memories |-> torn.memories \cup (IF t.kind = "replace" THEN {} ELSE {t.memory}),
                    relationships |-> torn.relationships]
        /\ Becomes(q, s) /\ GoesOn(old, s)
        /\ s.phase = "tasks" /\ s.tasks = old.tasks \ {t} /\ s.later = old.later
  BY TaskFailsIs
<1>3. /\ torn.memories \subseteq torn'.memories /\ torn.relationships \subseteq torn'.relationships
      /\ t.kind # "replace" => t.memory \in torn'.memories
  BY <1>2
<1>4. Good(old) /\ Good(s) /\ Staged(old)
  BY <1>2 DEF Base, Tidy, AllStaged, Becomes
<1>5. s.rel = old.rel /\ s.touches = old.touches
  BY <1>2 DEF GoesOn
<1>6. Staged(s)
  BY <1>2, <1>4 DEF Staged
<1>7. memories \in [Memories -> Memory] /\ Owned \subseteq Memories
  BY ConstantsAssumption DEF Base, ConstantsAssumption
<1>8. ASSUME NEW m \in s.touches \cap Owned, m \notin torn'.memories, FitsIn(old, m, memories[m])
      PROVE  FitsIn(s, m, memories[m]) /\ (Will(s, m, memories[m]) <=> Will(old, m, memories[m]))
  <2>1. /\ \A u : u \in Mine(old, m) <=> (u \in old.tasks \/ u \in old.later) /\ u.memory = m
        /\ \A u : u \in Now(old, m) <=> u \in old.tasks /\ u.memory = m
        /\ Mine(old, m) \in SUBSET Call /\ Now(old, m) \in SUBSET Mine(old, m)
    BY <1>4, MineIs DEF Good
  <2>2. /\ \A u : u \in Mine(s, m) <=> (u \in s.tasks \/ u \in s.later) /\ u.memory = m
        /\ \A u : u \in Now(s, m) <=> u \in s.tasks /\ u.memory = m
    BY <1>4, MineIs DEF Good
  <2>3. CASE m = t.memory
    <3> DEFINE mem == memories[m]
               work == Mine(old, m)
    <3>1. t.kind = "replace" /\ t \in work /\ t \in Call /\ mem \in Memory
      BY <1>2, <1>3, <1>7, <1>8, <2>1, <2>3
    <3>2. t \notin old.later
      BY <1>2, <1>4 DEF Staged
    <3>3. Planned(work, Now(old, m), old.rel, mem) /\ Counted(work, mem)
      BY <1>8 DEF FitsIn, Fits
    <3>4. work = {t}
      BY <3>1, <3>3 DEF Planned
    <3>5. Mine(s, m) = {} /\ Now(s, m) = {}
      BY <1>2, <2>1, <2>2, <3>2, <3>4
    <3> HIDE DEF mem, work
    <3>6. mem.count = Cardinality(mem.links)
      <4>1. ~ Pend({t}, {"set"}) /\ Balance({t}, mem) = Cardinality(mem.links)
        BY <3>1, LoneCall
      <4>2. QED  BY <3>3, <3>4, <4>1 DEF Counted
    <3>7. Fits({}, {}, s.rel, mem) /\ (WillLink({}, s.rel, mem) <=> s.rel \in mem.links)
      BY <3>1, <3>6, NothingLeft
    <3>8. WillLink({t}, s.rel, mem) <=> s.rel \in mem.links
      BY <3>1, LoneLink
    <3>9. FitsIn(s, m, mem)
      BY <3>5, <3>7 DEF FitsIn
    <3>10. Will(s, m, mem) <=> Will(old, m, mem)
      BY <1>5, <3>4, <3>5, <3>7, <3>8 DEF Will, work
    <3>11. QED  BY <3>9, <3>10 DEF mem
  <2>4. CASE m # t.memory
    <3>1. Mine(s, m) = Mine(old, m) /\ Now(s, m) = Now(old, m)
      BY <1>2, <2>1, <2>2, <2>4
    <3>2. QED  BY <1>5, <1>8, <3>1 DEF FitsIn, Will
  <2>5. QED  BY <2>3, <2>4
<1>9. QED  BY <1>1, <1>2, <1>3, <1>6, <1>8, TidyOn

\* Calls that waited may all be taken once the others have settled.
LEMMA FitsSettled ==
  ASSUME NEW work \in SUBSET Call, NEW rel, NEW mem \in Memory, Fits(work, {}, rel, mem)
  PROVE  Fits(work, work, rel, mem)
<1>1. Planned(work, {}, rel, mem) /\ Counted(work, mem)
  BY DEF Fits
<1>2. \A t \in work : t.kind \in {"link", "unlink"} /\ (t.kind = "link" => \A u \in work : Lane(u.kind) # "down")
  BY <1>1 DEF Planned
<1>3. ASSUME NEW t \in work, Lane(t.kind) = "down" PROVE work = {t}
  <2>1. \A u \in work : u.kind # "link"
    BY <1>2, <1>3
  <2>2. \A u \in work : u.kind = "unlink"
    BY <1>2, <2>1
  <2>3. \A u \in work : u = t
    BY <1>1, <2>2 DEF Planned
  <2>4. QED  BY <1>3, <2>3
<1>4. Planned(work, work, rel, mem)
  BY <1>1, <1>3 DEF Planned
<1>5. QED  BY <1>1, <1>4 DEF Fits

LEMMA TidySettle ==
  ASSUME Base, Tidy, NEW q \in Requests, Settle(q)
  PROVE  Tidy'
<1> DEFINE old == requests[q]
<1>1. /\ old.phase = "tasks" /\ old.tasks = {}
      /\ memories' = memories /\ relationships' = relationships /\ torn' = torn
  BY SettleIs
<1>2. Good(old) /\ Staged(old) /\ memories \in [Memories -> Memory] /\ Owned \subseteq Memories
  BY ConstantsAssumption DEF Base, Tidy, AllStaged, ConstantsAssumption
<1>3. ASSUME NEW s, Becomes(q, s), GoesOn(old, s), s.phase = "tasks", s.tasks = old.later, s.later = {}
      PROVE  Tidy'
  <2>1. Good(s) /\ s.rel = old.rel /\ s.touches = old.touches
    BY <1>3 DEF Becomes, GoesOn
  <2>2. Staged(s)
    BY <1>3 DEF Staged
  <2>3. ASSUME NEW m \in s.touches \cap Owned, FitsIn(old, m, memories[m])
        PROVE  FitsIn(s, m, memories[m]) /\ (Will(s, m, memories[m]) <=> Will(old, m, memories[m]))
    <3> DEFINE work == Mine(old, m)
               mem == memories[m]
    <3>1. Now(old, m) = {} /\ Mine(s, m) = work /\ Now(s, m) = work
      BY <1>1, <1>3 DEF Mine, Now, Work
    <3>2. work \in SUBSET Call /\ mem \in Memory
      BY <1>2, MineIs DEF Good
    <3>3. Fits(work, {}, s.rel, mem)
      BY <2>1, <2>3, <3>1 DEF FitsIn
    <3> HIDE DEF work, mem
    <3>4. Fits(work, work, s.rel, mem)
      BY <3>2, <3>3, FitsSettled
    <3>5. FitsIn(s, m, mem)
      BY <3>1, <3>4 DEF FitsIn
    <3>6. Will(s, m, mem) <=> Will(old, m, mem)
      BY <2>1, <3>1 DEF Will, work
    <3>7. QED  BY <3>5, <3>6 DEF mem
  <2>4. QED  BY <1>1, <1>3, <2>2, <2>3, TidyOn
<1>4. ASSUME NEW s, old.later = {}, Becomes(q, s), GoesOn(old, s), s.phase = "drop", s.tasks = {},
             s.later = {}
      PROVE  Tidy'
  <2>1. s.rel = old.rel
    BY <1>4 DEF GoesOn
  <2>2. Staged(s)
    BY <1>4 DEF Staged
  <2>3. \A m : Mine(s, m) = Mine(old, m) /\ Now(s, m) = Now(old, m)
    BY <1>1, <1>4 DEF Mine, Now, Work
  <2>4. \A m : /\ FitsIn(old, m, memories[m]) => FitsIn(s, m, memories[m])
               /\ Will(s, m, memories[m]) <=> Will(old, m, memories[m])
    BY <2>1, <2>3 DEF FitsIn, Will
  <2>5. QED  BY <1>1, <1>4, <2>2, <2>4, TidyOn
<1>5. ASSUME old.later = {}, old.kind # "delete", Becomes(q, Idle)
      PROVE  Tidy'
  <2>1. \A m : Mine(old, m) = {}
    BY <1>1, <1>5 DEF Mine, Work
  <2>2. ASSUME NEW m \in old.touches \cap Owned, FitsIn(old, m, memories[m])
        PROVE  /\ memories[m].count = Cardinality(memories[m].links)
               /\ Will(old, m, memories[m]) <=> old.rel \in memories[m].links
    <3>1. memories[m] \in Memory
      BY <1>2
    <3>2. QED  BY <2>1, <2>2, <3>1, NothingLeft DEF FitsIn, Will
  <2>3. ASSUME NEW m \in old.touches \cap Owned, FitsIn(old, m, memories[m]), old.rel \in Ids,
               Agrees(old, m, memories[m], relationships[old.rel])
        PROVE  old.rel \in memories[m].links <=> Lists(relationships[old.rel], m)
    <3>1. old.kind \in Kinds
      BY <1>2, RequestFields DEF Good
    <3>2. old.kind \in {"create", "update"}
      BY <1>1, <1>2, <1>5, <2>3, <3>1, IdleIs, ConstantsAssumption
         DEF Good, Shape, Kinds, ConstantsAssumption
    <3>3. QED  BY <1>1, <2>2, <2>3, <3>2 DEF Agrees
  <2>4. QED  BY <1>1, <1>5, <2>2, <2>3, TidyEnded
<1>6. QED  BY <1>3, <1>4, <1>5, SettleIs

LEMMA TidyDropFails ==
  ASSUME Base, Tidy, NEW q \in Requests, DropFails(q)
  PROVE  Tidy'
<1> DEFINE old == requests[q]
<1>1. /\ Work(old) = {} /\ Becomes(q, Idle) /\ memories' = memories /\ relationships' = relationships
      /\ torn' = [memories |-> torn.memories, relationships |-> torn.relationships \cup {old.rel}]
  BY DropFailsIs
<1>2. ASSUME NEW m \in old.touches \cap Owned, FitsIn(old, m, memories[m])
      PROVE  memories[m].count = Cardinality(memories[m].links)
  <2>1. memories[m] \in Memory /\ Mine(old, m) = {}
    BY <1>1, ConstantsAssumption DEF Base, ConstantsAssumption, Mine
  <2>2. QED  BY <1>2, <2>1, NothingLeft DEF FitsIn
<1>3. old.rel \in torn'.relationships /\ torn.relationships \subseteq torn'.relationships
      /\ torn.memories \subseteq torn'.memories
  BY <1>1
<1>4. QED  BY <1>1, <1>2, <1>3, TidyEnded

\* A memory that q does not touch lists r as it did before q came.
LEMMA LinkedElsewhere ==
  ASSUME Stored, Tidy, NEW q \in Requests, NEW m \in Owned, NEW r \in Ids, Whole(m),
         WholeRelationship(r), m \notin requests[q].touches,
         \A p \in Requests \ {q} : requests[p].rel # r
  PROVE  r \in memories[m].links <=> Lists(relationships[r], m)
<1>1. Linked(m, r)
  BY DEF Tidy, AllLinked
<1>2. QED  BY <1>1 DEF Linked, Involved

LEMMA TidyDrop ==
  ASSUME Base, Stored, Tidy, NEW q \in Requests, Drop(q)
  PROVE  Tidy'
<1> DEFINE old == requests[q]
           r == old.rel
           doc == [relationships[r] EXCEPT !.exists = FALSE]
<1>1. /\ old.kind = "delete" /\ Work(old) = {} /\ r \in Ids
      /\ Becomes(q, Idle) /\ memories' = memories /\ torn' = torn
      /\ relationships' = [relationships EXCEPT ![r] = doc]
  BY DropIs
<1>2. ~ doc.exists
  <2>1. Doc(relationships[r])
    BY <1>1 DEF Base
  <2>2. QED  BY <2>1, DroppedIs
<1>3. memories \in [Memories -> Memory] /\ Owned \subseteq Memories
  BY ConstantsAssumption DEF Base, ConstantsAssumption
<1>4. WholeRelationship(r) => \A p \in Requests \ {q} : requests[p].rel # r
  BY <1>1 DEF Stored, Alone
<1>5. ASSUME NEW m \in Owned, Whole(m), m \in old.touches
      PROVE  /\ memories[m].count = Cardinality(memories[m].links)
             /\ WholeRelationship(r) => r \notin memories[m].links
  <2>1. Tended(m) /\ FitsIn(old, m, memories[m])
    BY <1>5 DEF Tidy, AllTended, Tended, Touch
  <2>2. Mine(old, m) = {} /\ memories[m] \in Memory
    BY <1>1, <1>3 DEF Mine
  <2>3. /\ memories[m].count = Cardinality(memories[m].links)
        /\ Will(old, m, memories[m]) <=> r \in memories[m].links
    BY <2>1, <2>2, NothingLeft DEF FitsIn, Will
  <2>4. ASSUME WholeRelationship(r) PROVE ~ Will(old, m, memories[m])
    <3>1. Agrees(old, m, memories[m], relationships[r])
      BY <1>1, <1>5, <2>4 DEF Tidy, AllLinked, Linked, Involved
    <3>2. QED  BY <1>1, <3>1 DEF Agrees
  <2>5. QED  BY <2>3, <2>4
<1>6. ASSUME NEW m \in Owned, Whole(m), WholeRelationship(r), m \notin old.touches
      PROVE  r \notin memories[m].links
  <2>1. Ready(old, relationships[r])
    BY <1>6 DEF Stored, AllReady
  <2>2. m \notin ToSet(relationships[r].related)
    BY <1>1, <1>6, <2>1 DEF Ready
  <2>3. r \in memories[m].links <=> Lists(relationships[r], m)
    BY <1>1, <1>4, <1>6, LinkedElsewhere
  <2>4. QED  BY <2>2, <2>3 DEF Lists
<1>7. \A m \in Owned : Whole(m) =>
           /\ m \in old.touches => memories[m].count = Cardinality(memories[m].links)
           /\ WholeRelationship(r) => (r \in memories[m].links <=> Lists(doc, m))
  <2> HIDE DEF doc
  <2>1. QED  BY <1>2, <1>5, <1>6 DEF Lists
<1>8. \A m : m \notin Idle.touches
  BY IdleIs
<1>9. Staged(Idle) /\ requests[q].rel \in {r, "none"}
  BY IdleStaged
<1> DEFINE Written(x, d) ==
       /\ x \in Ids /\ requests[q].rel \in {x, "none"}
       /\ relationships' = [relationships EXCEPT ![x] = d]
       /\ WholeRelationship(x) => \A p \in Requests \ {q} : requests[p].rel # x
       /\ \A m \in Owned : Whole(m) =>
            /\ (m \in requests[q].touches /\ Idle = Idle) =>
                 memories[m].count = Cardinality(memories[m].links)
            /\ m \in Idle.touches => /\ FitsIn(Idle, m, memories[m])
                                     /\ WholeRelationship(x) => Agrees(Idle, m, memories[m], d)
            /\ (m \notin Idle.touches /\ WholeRelationship(x)) =>
                 (x \in memories[m].links <=> Lists(d, m))
<1>10. \E x, d : Written(x, d)
  <2> HIDE DEF doc, r
  <2>1. Written(r, doc)
    BY <1>1, <1>4, <1>7, <1>8, <1>9
  <2>2. QED  BY <2>1
<1>11. PICK x, d : Written(x, d)
  BY <1>10
<1>12. Becomes(q, Idle) /\ Staged(Idle) /\ memories' = memories /\ torn' = torn
  BY <1>1, <1>9
<1> HIDE DEF old, doc, r
<1>13. QED  BY <1>11, <1>12, TidyWritten

\* A relationship that has just got its id is one no memory lists.
LEMMA FitsNamed ==
  ASSUME NEW work \in SUBSET Call, NEW now, NEW mem \in Memory, Fits(work, now, "none", mem),
         NEW r \in Ids, r \notin mem.links, ~ Pend(work, {"unlink", "cut"})
  PROVE  Fits(work, now, r, mem)
<1>1. Planned(work, now, "none", mem) /\ Counted(work, mem)
  BY DEF Fits
<1>2. mem.links \in SUBSET Ids /\ \A t \in work : t.read.links \in SUBSET Ids
  BY CallIs, LinksCount
<1>3. "none" \notin Ids
  BY ConstantsAssumption DEF ConstantsAssumption
<1>4. \A t \in work : t.read.links = mem.links
  <2> SUFFICES ASSUME NEW t \in work PROVE t.read.links = mem.links
    OBVIOUS
  <2>1. t.read.links \ {"none"} = mem.links \ {"none"}
    BY <1>1 DEF Planned
  <2>2. "none" \notin t.read.links /\ "none" \notin mem.links
    BY <1>2, <1>3
  <2>3. QED  BY <2>1, <2>2
<1>5. ~ Pend(work, {"unlink"}) /\ ~ Pend(work, {"cut"})
  BY DEF Pend
<1>6. Planned(work, now, r, mem)
  BY <1>1, <1>4, <1>5 DEF Planned
<1>7. QED  BY <1>1, <1>6 DEF Fits

LEMMA TidyInsert ==
  ASSUME Base, Stored, Tidy, NEW q \in Requests, Insert(q)
  PROVE  Tidy'
<1> DEFINE old == requests[q]
           doc == old.doc
<1>1. /\ old.kind = "create" /\ old.phase = "insert" /\ old.rel = "none"
      /\ memories' = memories /\ torn' = torn
  BY InsertIs
<1>2. PICK r, s :
        /\ r \in Ids
        /\ relationships[r] = Absent
        /\ relationships' = [relationships EXCEPT ![r] = old.doc]
        /\ Becomes(q, s)
        /\ s.kind = "create" /\ s.phase = "tasks" /\ s.rel = r
        /\ s.tasks = old.tasks /\ s.later = old.later /\ s.touches = old.touches
  BY InsertIs
<1>3. Good(old) /\ Staged(old) /\ memories \in [Memories -> Memory] /\ Owned \subseteq Memories
  BY ConstantsAssumption DEF Base, Tidy, AllStaged, ConstantsAssumption
<1>4. Staged(s)
  BY <1>2, <1>3 DEF Staged
<1>5. WholeRelationship(r) /\ \A p \in Requests : requests[p].rel # r
  <2>1. Absent.version = 0
    BY DEF Absent
  <2>2. QED  BY <1>2, <2>1 DEF Stored, Known, WholeRelationship
<1>6. doc.exists /\ old.touches = ToSet(doc.related)
  BY <1>1, <1>3 DEF Good, Shape, Staged
<1>7. \A m \in Owned : Whole(m) => r \notin memories[m].links
  <2> SUFFICES ASSUME NEW m \in Owned, Whole(m) PROVE r \notin memories[m].links
    OBVIOUS
  <2>1. Linked(m, r)
    BY <1>2, <1>5 DEF Tidy, AllLinked
  <2>2. r \in memories[m].links <=> Lists(relationships[r], m)
    BY <1>5, <2>1 DEF Linked, Involved
  <2>3. ~ Lists(relationships[r], m)
    BY <1>2 DEF Lists, Absent
  <2>4. QED  BY <2>2, <2>3
<1>8. ASSUME NEW m \in Owned, Whole(m), m \in s.touches
      PROVE  FitsIn(s, m, memories[m]) /\ Agrees(s, m, memories[m], doc)
  <2> DEFINE work == Mine(old, m)
             now == Now(old, m)
             mem == memories[m]
  <2>1. Mine(s, m) = work /\ Now(s, m) = now
    BY <1>2 DEF Mine, Now, Work
  <2>2. work \in SUBSET Call /\ mem \in Memory /\ r \notin mem.links
    BY <1>3, <1>7, <1>8, MineIs DEF Good
  <2>3. Pend(work, {"link"}) /\ ~ Pend(work, {"unlink", "cut"})
    BY <1>1, <1>2, <1>3, <1>8 DEF Staged
  <2>4. Tended(m)
    BY <1>8 DEF Tidy, AllTended
  <2>5. Fits(work, now, "none", mem)
    BY <1>1, <1>2, <1>8, <2>4 DEF Tended, Touch, FitsIn
  <2> HIDE DEF work, now, mem
  <2>6. Fits(work, now, r, mem)
    BY <1>2, <2>2, <2>3, <2>5, FitsNamed
  <2>7. WillLink(work, r, mem)
    BY <2>3 DEF WillLink
  <2>8. FitsIn(s, m, mem) /\ Will(s, m, mem)
    BY <1>2, <2>1, <2>6, <2>7 DEF FitsIn, Will
  <2>9. Lists(doc, m)
    BY <1>2, <1>6, <1>8 DEF Lists
  <2>10. QED  BY <1>2, <2>8, <2>9 DEF Agrees, mem
<1>9. ASSUME NEW m \in Owned, Whole(m), m \notin s.touches
      PROVE  r \in memories[m].links <=> Lists(doc, m)
  BY <1>2, <1>6, <1>7, <1>9 DEF Lists
<1>10. s # Idle
  BY <1>2, IdleIs
<1>11. requests[q].rel \in {r, "none"} /\ s.touches = requests[q].touches
       /\ relationships' = [relationships EXCEPT ![r] = doc]
  BY <1>1, <1>2
<1>12. s = Idle \/ (s.rel = r /\ s.touches = requests[q].touches)
  BY <1>2
<1>13. WholeRelationship(r) => \A p \in Requests \ {q} : requests[p].rel # r
  BY <1>5
<1> HIDE DEF old, doc
<1>14. \A m \in Owned : Whole(m) =>
         /\ (m \in requests[q].touches /\ s = Idle) =>
              memories[m].count = Cardinality(memories[m].links)
         /\ m \in s.touches => /\ FitsIn(s, m, memories[m])
                               /\ WholeRelationship(r) => Agrees(s, m, memories[m], doc)
         /\ (m \notin s.touches /\ WholeRelationship(r)) =>
              (r \in memories[m].links <=> Lists(doc, m))
  BY <1>8, <1>9, <1>10
<1>15. Becomes(q, s) /\ memories' = memories /\ torn' = torn
  BY <1>1, <1>2
<1>16. r \in Ids
  BY <1>2
<1>17. QED  BY <1>4, <1>11, <1>12, <1>13, <1>14, <1>15, <1>16, TidyWritten

LEMMA TidyWrite ==
  ASSUME Base, Stored, Tidy, NEW q \in Requests, Write(q)
  PROVE  Tidy'
<1> DEFINE old == requests[q]
           r == old.rel
           was == relationships[r]
           doc == IF old.kind = "reorder" THEN Merged(was, old.doc) ELSE old.doc
<1>1. /\ old.kind \in {"update", "reorder"} /\ old.phase = "write" /\ r \in Ids
      /\ memories' = memories /\ torn' = torn
  BY WriteIs
<1>2. CASE relationships' = relationships /\ Becomes(q, Idle)
  BY <1>1, <1>2, TidyWriteFails
<1>3. ASSUME was.exists, relationships' = [relationships EXCEPT ![r] = doc], NEW s, Becomes(q, s),
             s.kind = old.kind, s.phase = "tasks", s.rel = r,
             s.tasks = old.tasks, s.later = old.later, s.touches = old.touches
      PROVE  Tidy'
  <2>1. /\ Good(old) /\ Staged(old) /\ Doc(was) /\ memories \in [Memories -> Memory]
        /\ Owned \subseteq Memories
    BY <1>1, ConstantsAssumption DEF Base, Tidy, AllStaged, ConstantsAssumption
  <2>2. Staged(s)
    BY <1>3, <2>1 DEF Staged
  <2>3. WholeRelationship(r) => \A p \in Requests \ {q} : requests[p].rel # r
    BY <1>1 DEF Stored, Alone
  <2>4. \A m : Mine(s, m) = Mine(old, m) /\ Now(s, m) = Now(old, m)
    BY <1>3 DEF Mine, Now, Work
  <2>5. old.kind = "reorder" => old.touches = {} /\ doc.exists /\ doc.related = was.related
    <3>1. old.kind = "reorder" => old.touches = {}
      BY <2>1 DEF Good, Shape
    <3>2. Doc(old.doc)
      BY <2>1 DEF Good
    <3>3. ASSUME old.kind = "reorder" PROVE doc.exists /\ doc.related = was.related
      <4> DEFINE new == Merged(was, old.doc)
                 d == old.doc
      <4>1. new = Merged(was, d) /\ Doc(d) /\ Doc(was) /\ was.exists
        BY <1>3, <2>1, <3>2
      <4>2. doc = new
        BY <3>3
      <4> HIDE DEF d, was, new, doc
      <4>3. Merged(was, d).exists = was.exists /\ Merged(was, d).related = was.related
        BY <4>1, WrittenIs
      <4>4. QED  BY <4>1, <4>2, <4>3
    <3>4. QED  BY <3>1, <3>3
  <2>6. old.kind = "update" => doc = old.doc /\ doc.exists
    BY <1>1, <2>1 DEF Good, Shape
  <2> HIDE DEF doc
  <2>7. ASSUME NEW m \in Owned, Whole(m), m \in s.touches
        PROVE  /\ FitsIn(s, m, memories[m])
               /\ WholeRelationship(r) => Agrees(s, m, memories[m], doc)
    <3>1. old.kind = "update" /\ m \in old.touches
      BY <1>1, <1>3, <2>5, <2>7
    <3>2. FitsIn(old, m, memories[m])
      BY <2>7, <3>1 DEF Tidy, AllTended, Tended, Touch
    <3>3. FitsIn(s, m, memories[m]) /\ (Will(s, m, memories[m]) <=> Will(old, m, memories[m]))
      BY <1>3, <2>4, <3>2 DEF FitsIn, Will
    <3>4. ASSUME WholeRelationship(r) PROVE Agrees(s, m, memories[m], doc)
      <4>1. Agrees(old, m, memories[m], was)
        BY <1>1, <2>7, <3>1, <3>4 DEF Tidy, AllLinked, Linked, Involved
      <4>2. Will(s, m, memories[m]) <=> Lists(doc, m)
        BY <1>1, <2>6, <3>1, <3>3, <4>1 DEF Agrees, Lists
      <4>3. QED  BY <1>3, <3>1, <4>2 DEF Agrees
    <3>5. QED  BY <3>3, <3>4
  <2>8. ASSUME NEW m \in Owned, Whole(m), m \notin s.touches, WholeRelationship(r)
        PROVE  r \in memories[m].links <=> Lists(doc, m)
    <3>1. r \in memories[m].links <=> Lists(was, m)
      BY <1>1, <1>3, <2>3, <2>8, LinkedElsewhere
    <3>2. Ready(old, was)
      BY <2>8 DEF Stored, AllReady
    <3>3. m \in ToSet(doc.related) <=> m \in ToSet(was.related)
      BY <1>1, <1>3, <2>1, <2>5, <2>6, <2>8, <3>2 DEF Ready
    <3>4. doc.exists
      BY <1>1, <2>5, <2>6
    <3>5. QED  BY <1>3, <3>1, <3>3, <3>4 DEF Lists
  <2>9. s # Idle
    BY <1>3, IdleIs
  <2>10. /\ r \in Ids /\ memories' = memories /\ torn' = torn /\ requests[q].rel \in {r, "none"}
         /\ s.rel = r /\ s.touches = requests[q].touches
         /\ relationships' = [relationships EXCEPT ![r] = doc]
    BY <1>1, <1>3
  <2>11. s = Idle \/ (s.rel = r /\ s.touches = requests[q].touches)
    BY <2>10
  <2> HIDE DEF old, r, was
  <2> DEFINE Written(x, d) ==
         /\ x \in Ids /\ requests[q].rel \in {x, "none"}
         /\ relationships' = [relationships EXCEPT ![x] = d]
         /\ s = Idle \/ (s.rel = x /\ s.touches = requests[q].touches)
         /\ WholeRelationship(x) => \A p \in Requests \ {q} : requests[p].rel # x
         /\ \A m \in Owned : Whole(m) =>
              /\ (m \in requests[q].touches /\ s = Idle) =>
                   memories[m].count = Cardinality(memories[m].links)
              /\ m \in s.touches => /\ FitsIn(s, m, memories[m])
                                    /\ WholeRelationship(x) => Agrees(s, m, memories[m], d)
              /\ (m \notin s.touches /\ WholeRelationship(x)) =>
                   (x \in memories[m].links <=> Lists(d, m))
  <2>12. \A m \in Owned : Whole(m) =>
           /\ (m \in requests[q].touches /\ s = Idle) =>
                memories[m].count = Cardinality(memories[m].links)
           /\ m \in s.touches => /\ FitsIn(s, m, memories[m])
                                 /\ WholeRelationship(r) => Agrees(s, m, memories[m], doc)
           /\ (m \notin s.touches /\ WholeRelationship(r)) =>
                (r \in memories[m].links <=> Lists(doc, m))
    BY <2>7, <2>8, <2>9
  <2>13. Becomes(q, s)
    BY <1>3
  <2>14. \E x, d : Written(x, d)
    <3>1. Written(r, doc)
      BY <2>3, <2>10, <2>11, <2>12
    <3>2. QED  BY <3>1
  <2>15. PICK x, d : Written(x, d)
    BY <2>14
  <2>16. memories' = memories /\ torn' = torn
    BY <2>10
  <2>17. QED  BY <2>2, <2>13, <2>15, <2>16, TidyWritten
<1>4. QED  BY <1>2, <1>3, WriteIs

LEMMA TidyInit ==
  ASSUME Init
  PROVE  Tidy
<1>1. PICK first \in Ids, doc \in {Absent} \cup {Fresh(ids) : ids \in Members}
                            \cup {[Fresh(ids) EXCEPT !.order = Unordered] : ids \in Members} :
       /\ relationships = [r \in Ids |-> IF r = first THEN doc ELSE Absent]
       /\ memories = [m \in Memories |->
            IF m \in Owned /\ m \in ToSet(doc.related)
            THEN [links |-> {first}, count |-> 1, deleted |-> FALSE]
            ELSE [links |-> {}, count |-> 0, deleted |-> FALSE]]
  BY DEF Init
<1>2. \A q \in Requests : requests[q] = Idle
  BY DEF Init
<1>3. \A q \in Requests : requests[q].touches = {}
  BY <1>2, IdleIs
<1>4. AllStaged
  BY <1>2, IdleStaged DEF AllStaged
<1>5. Owned \subseteq Memories
  BY ConstantsAssumption DEF ConstantsAssumption
<1>6. Cardinality({first}) = 1 /\ Cardinality({}) = 0
  BY FS_Singleton, FS_EmptySet
<1>7. ~ Absent.exists /\ ToSet(Absent.related) = {}
  BY AbsentIs DEF Absent
<1>8. doc.exists \/ ToSet(doc.related) = {}
  <2>1. CASE doc = Absent
    BY <1>7, <2>1
  <2>2. CASE doc # Absent
    <3>1. PICK ids \in Members : doc = Fresh(ids) \/ doc = [Fresh(ids) EXCEPT !.order = Unordered]
      BY <1>1, <2>2
    <3>2. Fresh(ids).exists /\ [Fresh(ids) EXCEPT !.order = Unordered].exists
      BY DEF Fresh
    <3>3. QED  BY <3>1, <3>2
  <2>3. QED  BY <2>1, <2>2
<1>9. ASSUME NEW m \in Owned
      PROVE  /\ memories[m].links = IF m \in ToSet(doc.related) THEN {first} ELSE {}
             /\ memories[m].count = IF m \in ToSet(doc.related) THEN 1 ELSE 0
  BY <1>1, <1>5
<1>10. AllTended
  <2> SUFFICES ASSUME NEW m \in Owned PROVE Tended(m)
    BY DEF AllTended
  <2>1. memories[m].count = Cardinality(memories[m].links)
    <3>1. CASE m \in ToSet(doc.related)
      BY <1>6, <1>9, <3>1
    <3>2. CASE m \notin ToSet(doc.related)
      BY <1>6, <1>9, <3>2
    <3>3. QED  BY <3>1, <3>2
  <2>2. QED  BY <1>3, <2>1 DEF Tended, Touch
<1>11. AllLinked
  <2> SUFFICES ASSUME NEW m \in Owned, NEW r \in Ids PROVE Linked(m, r)
    BY DEF AllLinked
  <2>1. r \in memories[m].links <=> Lists(relationships[r], m)
    <3>1. CASE r = first
      BY <1>1, <1>8, <1>9, <3>1 DEF Lists
    <3>2. CASE r # first
      BY <1>1, <1>7, <1>9, <3>2 DEF Lists
    <3>3. QED  BY <3>1, <3>2
  <2>2. QED  BY <1>3, <2>1 DEF Linked, Involved
<1>12. QED  BY <1>4, <1>10, <1>11 DEF Tidy

LEMMA TidyNext ==
  ASSUME Base, Stored, Tidy, [Next]_vars
  PROVE  Tidy'
<1>1. CASE UNCHANGED vars
  BY <1>1 DEF vars, Tidy, AllStaged, AllTended, AllLinked, Tended, Linked, Touch, Involved, Whole,
     WholeRelationship
<1>2. ASSUME NEW q \in Requests, CreateRelationship(q) PROVE Tidy'
  <2>1. PICK s : Begun(q, s) /\ Good(s) /\ \E ids \in Members : StartCreate(s, ids)
    BY <1>2, CreateIs
  <2>2. QED  BY <2>1, TidyCreate
<1>3. ASSUME NEW q \in Requests, NEW r \in Ids, UpdateRelationship(q, r) PROVE Tidy'
  <2>1. PICK s : /\ Begun(q, s) /\ Good(s)
                 /\ \E new \in SUBSET Memories, removed \in SUBSET Memories :
                      StartUpdate(s, r, new, removed)
    BY <1>3, UpdateIs
  <2>2. QED  BY <2>1, TidyUpdate
<1>4. ASSUME NEW q \in Requests, NEW r \in Ids, Reorder(q, r) PROVE Tidy'
  BY <1>4, ReorderStarts, TidyReorder
<1>5. ASSUME NEW q \in Requests, NEW r \in Ids, DeleteRelationship(q, r) PROVE Tidy'
  BY <1>5, DeleteStarts, TidyDelete
<1>6. ASSUME NEW q \in Requests, NEW m \in Memories, NEW delete \in BOOLEAN, EditMemory(q, m, delete)
      PROVE  Tidy'
  <2>1. PICK s : Begun(q, s) /\ Good(s) /\ \E memory \in Memory : StartEdit(s, m, memory)
    BY <1>6, EditStarts
  <2>2. QED  BY <2>1, TidyEdit
<1>7. ASSUME NEW q \in Requests, Insert(q) PROVE Tidy'
  BY <1>7, TidyInsert
<1>8. ASSUME NEW q \in Requests, Write(q) PROVE Tidy'
  BY <1>8, TidyWrite
<1>9. ASSUME NEW q \in Requests, WriteFails(q) PROVE Tidy'
  BY <1>9, WriteFailsIs, TidyWriteFails
<1>10. ASSUME NEW q \in Requests, Perform(q) PROVE Tidy'
  BY <1>10, TidyPerform
<1>11. ASSUME NEW q \in Requests, TaskFails(q) PROVE Tidy'
  BY <1>11, TidyTaskFails
<1>12. ASSUME NEW q \in Requests, Settle(q) PROVE Tidy'
  BY <1>12, TidySettle
<1>13. ASSUME NEW q \in Requests, Drop(q) PROVE Tidy'
  BY <1>13, TidyDrop
<1>14. ASSUME NEW q \in Requests, DropFails(q) PROVE Tidy'
  BY <1>14, TidyDropFails
<1>15. QED
  BY <1>1, <1>2, <1>3, <1>4, <1>5, <1>6, <1>7, <1>8, <1>9, <1>10, <1>11, <1>12, <1>13, <1>14
     DEF Next

LEMMA AlwaysTidy == Spec => [](Base /\ Stored /\ Tidy)
<1>1. Init => Base /\ Stored /\ Tidy
  BY BaseInit, StoredInit, TidyInit
<1>2. (Base /\ Stored /\ Tidy) /\ [Next]_vars => (Base /\ Stored /\ Tidy)'
  BY BaseNext, StoredNext, TidyNext
<1>3. QED  BY <1>1, <1>2, PTL DEF Spec

\* Nobody touches a memory on which no request is at work.
LEMMA QuietIs ==
  ASSUME Base, NEW m, Quiet(m)
  PROVE  \A q \in Requests : ~ Touch(q, m)
<1> SUFFICES ASSUME NEW q \in Requests PROVE ~ Touch(q, m)
  OBVIOUS
<1>1. CASE q \in Running
  BY <1>1 DEF Quiet, Touch
<1>2. CASE q \notin Running
  <2>1. requests[q] = Idle
    BY <1>2, AtWork DEF Running
  <2>2. QED  BY <2>1, IdleIs DEF Touch
<1>3. QED  BY <1>1, <1>2

\* A memory nobody is at work on, no call of which failed and on which no two requests
\* overlapped, lists exactly the relationships that list it: whatever creates, updates,
\* reorderings, deletions and edits went before, in any number and for any number of
\* relationships, and wherever others failed or overlapped.
THEOREM LinksAlwaysMatch == Spec => []LinksMatch
<1>1. ASSUME Base, Tidy PROVE LinksMatch
  <2> SUFFICES ASSUME NEW m \in Owned, NEW r \in Ids, Whole(m), Quiet(m), WholeRelationship(r)
               PROVE  r \in memories[m].links <=>
                        relationships[r].exists /\ m \in ToSet(relationships[r].related)
    BY DEF LinksMatch
  <2>1. \A q \in Requests : ~ Touch(q, m)
    BY <1>1, QuietIs
  <2>2. Linked(m, r)
    BY <1>1 DEF Tidy, AllLinked
  <2>3. QED  BY <2>1, <2>2 DEF Linked, Involved, Touch, Lists
<1>2. QED  BY AlwaysTidy, <1>1, PTL

\* And its count is the number of those it lists: the increments and decrements that
\* requests make of counts they read, in calls of their own, add up.
THEOREM CountsAlwaysMatch == Spec => []CountMatches
<1>1. ASSUME Base, Tidy PROVE CountMatches
  <2> SUFFICES ASSUME NEW m \in Owned, Whole(m), Quiet(m)
               PROVE  memories[m].count = Cardinality(memories[m].links)
    BY DEF CountMatches
  <2>1. \A q \in Requests : ~ Touch(q, m)
    BY <1>1, QuietIs
  <2>2. Tended(m)
    BY <1>1 DEF Tidy, AllTended
  <2>3. QED  BY <2>1, <2>2 DEF Tended
<1>2. QED  BY AlwaysTidy, <1>1, PTL

=============================================================================

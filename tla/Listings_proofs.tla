---------------------------- MODULE Listings_proofs ----------------------------
(***************************************************************************)
(* Theorems about reading a listing page by page, for any number of        *)
(* memories, collections and pages, whatever comes and goes meanwhile.     *)
(***************************************************************************)
EXTENDS Listings, FiniteSetTheorems, FunctionTheorems, SequenceTheorems, WellFoundedInduction,
        TLAPS

-----------------------------------------------------------------------------
(* Numbers                                                                 *)

LEMMA LeastNumber ==
  ASSUME NEW S \in SUBSET Nat, S # {}
  PROVE  \E x \in S : \A y \in S : x <= y
<1> DEFINE Less == {p \in Nat \X Nat : p[1] < p[2]}
<1>1. IsWellFoundedOn(Less, Nat)
  BY NatLessThanWellFounded DEF OpToRel
<1>2. \A x, y \in Nat : <<y, x>> \in Less <=> y < x
  OBVIOUS
<1> HIDE DEF Less
<1>3. PICK x \in S : \A y \in S : ~ (<<y, x>> \in Less)
  BY <1>1, WFMin
<1>4. \A y \in S : ~ (y < x)
  BY <1>2, <1>3
<1>5. QED  BY <1>4

LEMMA GreatestNumber ==
  ASSUME NEW S \in SUBSET Nat, S # {}, NEW n \in Nat, \A x \in S : x <= n
  PROVE  \E x \in S : \A y \in S : y <= x
<1> DEFINE Below == {k \in Nat : n - k \in S}
<1>1. Below \in SUBSET Nat /\ Below # {}
  <2>1. PICK x \in S : TRUE
    OBVIOUS
  <2>2. x \in Nat /\ n - x \in Nat /\ n - (n - x) = x
    BY <2>1
  <2>3. QED  BY <2>1, <2>2
<1>2. \A y \in S : n - y \in Below
  OBVIOUS
<1>3. \A k \in Below : n - k \in S
  OBVIOUS
<1> HIDE DEF Below
<1>4. PICK k \in Below : \A l \in Below : k <= l
  BY <1>1, LeastNumber
<1>5. n - k \in S /\ k \in Nat
  BY <1>1, <1>3, <1>4
<1>6. \A y \in S : y <= n - k
  BY <1>2, <1>4, <1>5
<1>7. QED  BY <1>5, <1>6

LEMMA UpTo ==
  ASSUME NEW n \in Nat
  PROVE  IsFiniteSet(1..n) /\ Cardinality(1..n) = n
<1>1. IsFiniteSet(1..n) /\ Cardinality(1..n) = IF 1 > n THEN 0 ELSE n - 1 + 1
  BY FS_Interval
<1>2. QED  BY <1>1

LEMMA Times ==
  ASSUME NEW n \in Nat \ {0}, NEW l \in Nat \ {0}
  PROVE  n * l \in Nat /\ n <= n * l /\ (l # 1 => n < n * l)
<1> DEFINE k == l - 1
<1>1. k \in Nat /\ (l # 1 => k # 0)
  OBVIOUS
<1>2. n * l = n * k + n
  OBVIOUS
<1> HIDE DEF k
<1>3. n * k \in Nat /\ (k # 0 => n * k >= n)
  BY <1>1
<1> DEFINE x == n * k
           y == n * l
<1>4. x \in Nat /\ (k # 0 => x >= n) /\ y = x + n
  BY <1>2, <1>3
<1> HIDE DEF x, y
<1>5. y \in Nat /\ n <= y /\ (l # 1 => n < y)
  BY <1>1, <1>4
<1>6. QED  BY <1>5 DEF y

LEMMA Quotient ==
  ASSUME NEW a \in Nat, NEW q \in Nat \ {0}
  PROVE  /\ a \div q \in Nat
         /\ (a \div q) * q <= a /\ a < (a \div q) * q + q
  OBVIOUS

-----------------------------------------------------------------------------
(* Slices                                                                  *)

\* Two lists agree in their first n places.
Agree(s, t, n) ==
  \A k \in 1..n : /\ k <= Len(s) <=> k <= Len(t)
                  /\ k <= Len(s) => s[k] = t[k]

LEMMA SliceIs ==
  ASSUME NEW S, NEW s \in Seq(S), NEW offset \in Nat, NEW limit \in Nat
  PROVE  LET cut == Slice(s, offset, limit) IN
         /\ cut \in Seq(S)
         /\ Len(cut) = IF Len(s) <= offset THEN 0 ELSE Smaller(limit, Len(s) - offset)
         /\ \A i \in 1..Len(cut) : offset + i <= Len(s) /\ cut[i] = s[offset + i]
<1>1. Len(s) \in Nat /\ s \in [1..Len(s) -> S]
  BY LenProperties
<1>2. Slice(s, offset, limit) = [i \in 1..(Smaller(offset + limit, Len(s)) - offset) |-> s[offset + i]]
  BY <1>1 DEF Slice, Smaller
<1> DEFINE n == IF Len(s) <= offset THEN 0 ELSE Smaller(limit, Len(s) - offset)
           cut == [i \in 1..n |-> s[offset + i]]
<1>3. n \in Nat /\ 1..(Smaller(offset + limit, Len(s)) - offset) = 1..n
  BY <1>1 DEF Smaller
<1>4. \A i \in 1..n : offset + i \in 1..Len(s)
  BY <1>1 DEF Smaller
<1>5. Slice(s, offset, limit) = cut
  BY <1>2, <1>3
<1> HIDE DEF n
<1>6. cut \in [1..n -> S]
  BY <1>1, <1>4
<1>7. \A i \in 1..n : offset + i <= Len(s) /\ cut[i] = s[offset + i]
  BY <1>1, <1>4
<1> HIDE DEF cut
<1>8. cut \in Seq(S) /\ Len(cut) = n
  BY <1>3, <1>6
<1>9. QED  BY <1>5, <1>7, <1>8 DEF n

LEMMA SliceSame ==
  ASSUME NEW S, NEW s \in Seq(S), NEW t \in Seq(S), NEW offset \in Nat, NEW limit \in Nat,
         Agree(s, t, offset + limit)
  PROVE  Slice(s, offset, limit) = Slice(t, offset, limit)
<1>1. Len(s) \in Nat /\ Len(t) \in Nat
  BY LenProperties
<1>0. ASSUME NEW u \in Seq(S)
      PROVE  /\ Slice(u, offset, limit) \in Seq(S)
             /\ Len(Slice(u, offset, limit)) = IF Len(u) <= offset THEN 0 ELSE Smaller(limit, Len(u) - offset)
             /\ \A i \in 1..Len(Slice(u, offset, limit)) :
                  offset + i <= Len(u) /\ Slice(u, offset, limit)[i] = u[offset + i]
  BY SliceIs
<1> DEFINE n == offset + limit
           a == Slice(s, offset, limit)
           b == Slice(t, offset, limit)
<1>2. \/ Len(s) = Len(t) /\ Len(s) <= n
      \/ Len(s) > n /\ Len(t) >= n
      \/ Len(s) >= n /\ Len(t) > n
  <2>1. \A k \in 1..n : k <= Len(s) <=> k <= Len(t)
    BY DEF Agree
  <2>2. n >= 1 => (n <= Len(s) <=> n <= Len(t))
    BY <2>1
  <2>3. Len(s) >= 1 /\ Len(s) <= n => Len(s) <= Len(t)
    BY <1>1, <2>1
  <2>4. Len(t) >= 1 /\ Len(t) <= n => Len(t) <= Len(s)
    BY <1>1, <2>1
  <2>5. QED  BY <1>1, <2>2, <2>3, <2>4
<1>3. /\ a \in Seq(S) /\ b \in Seq(S)
      /\ Len(a) = IF Len(s) <= offset THEN 0 ELSE Smaller(limit, Len(s) - offset)
      /\ Len(b) = IF Len(t) <= offset THEN 0 ELSE Smaller(limit, Len(t) - offset)
      /\ \A i \in 1..Len(a) : offset + i <= Len(s) /\ a[i] = s[offset + i]
      /\ \A i \in 1..Len(b) : offset + i <= Len(t) /\ b[i] = t[offset + i]
  BY <1>0
<1> HIDE DEF a, b
<1>4. Len(a) = Len(b) /\ Len(a) \in Nat /\ Len(a) <= limit
  BY <1>1, <1>2, <1>3 DEF Smaller
<1>5. \A i \in 1..Len(a) : a[i] = b[i]
  <2> SUFFICES ASSUME NEW i \in 1..Len(a) PROVE a[i] = b[i]
    OBVIOUS
  <2>1. offset + i \in 1..n /\ offset + i <= Len(s)
    BY <1>3, <1>4
  <2>2. QED  BY <1>3, <1>4, <2>1 DEF Agree
<1>6. QED  BY <1>3, <1>4, <1>5, SeqEqual DEF a, b

-----------------------------------------------------------------------------
(* Memories in groups.  No two have as many ahead of them, and these       *)
(* numbers are as many as the memories: so there is one for each place.    *)

LEMMA AheadGrows ==
  ASSUME NEW S \in SUBSET Memories, NEW group \in [S -> Nat],
         NEW f \in Fields, NEW a \in S, NEW b \in S, a # b
  PROVE  /\ a \in Ahead(group, f, b) \/ b \in Ahead(group, f, a)
         /\ a \in Ahead(group, f, b) =>
              /\ b \notin Ahead(group, f, a)
              /\ Cardinality(Ahead(group, f, a)) < Cardinality(Ahead(group, f, b))
<1>1. Order[f] \in [Memories -> Nat] /\ Order[f][a] # Order[f][b]
  BY ListingsAssumption DEF IsInjective
<1>2. \A x \in S : Order[f][x] \in Nat /\ group[x] \in Nat
  BY <1>1
<1> DEFINE A == Ahead(group, f, a)
           B == Ahead(group, f, b)
<1>3. a \in B \/ b \in A
  BY <1>1, <1>2 DEF Ahead
<1>4. ASSUME a \in B PROVE b \notin A /\ Cardinality(A) < Cardinality(B)
  <2>1. A \in SUBSET B /\ a \notin A /\ b \notin A
    BY <1>2, <1>4 DEF Ahead
  <2>2. B \in SUBSET S
    BY DEF Ahead
  <2> HIDE DEF A, B
  <2>3. IsFiniteSet(B)
    BY <2>2, FS_Subset, ListingsAssumption
  <2>4. /\ IsFiniteSet(A) /\ Cardinality(A) <= Cardinality(B)
        /\ Cardinality(B) = Cardinality(A) => B = A
    BY <2>1, <2>3, FS_Subset
  <2>5. Cardinality(A) # Cardinality(B)
    BY <1>4, <2>1, <2>4
  <2>6. QED  BY <2>1, <2>3, <2>4, <2>5, FS_CardinalityType
<1>5. QED  BY <1>3, <1>4

\* How many have it at least as far ahead: the place of m.
Place(group, f, m) == Cardinality(Ahead(group, f, m)) + 1

LEMMA ArrangedIs ==
  ASSUME NEW S \in SUBSET Memories, NEW group \in [S -> Nat],
         NEW f \in Fields
  PROVE  LET list == Arranged(group, f)
             n == Cardinality(S) IN
         /\ IsFiniteSet(S) /\ n \in Nat
         /\ list \in Seq(S) /\ Len(list) = n /\ DOMAIN list = 1..n
         /\ \A m \in S : Place(group, f, m) \in 1..n /\ list[Place(group, f, m)] = m
         /\ \A i \in 1..n : list[i] \in S /\ Place(group, f, list[i]) = i
<1> DEFINE n == Cardinality(S)
           ahead(m) == Cardinality(Ahead(group, f, m))
           rank == [m \in S |-> ahead(m) + 1]
           list == [i \in 1..n |-> CHOOSE m \in S : ahead(m) = i - 1]
<1>1. IsFiniteSet(S) /\ n \in Nat
  BY FS_Subset, FS_CardinalityType, ListingsAssumption
<1>2. IsFiniteSet(1..n) /\ Cardinality(1..n) = n
  BY <1>1, FS_Interval
<1>3. \A a \in S : ahead(a) \in 0..(n - 1)
  <2> SUFFICES ASSUME NEW a \in S PROVE ahead(a) \in 0..(n - 1)
    OBVIOUS
  <2> DEFINE A == Ahead(group, f, a)
  <2>1. A \in SUBSET (S \ {a})
    <3>1. Order[f][a] \in Nat /\ group[a] \in Nat
      BY ListingsAssumption
    <3>2. QED  BY <3>1 DEF Ahead
  <2>2. IsFiniteSet(S \ {a}) /\ Cardinality(S \ {a}) = n - 1
    BY <1>1, FS_RemoveElement
  <2> HIDE DEF A, n
  <2>3. IsFiniteSet(A) /\ Cardinality(A) <= n - 1
    BY <2>1, <2>2, FS_Subset
  <2>4. Cardinality(A) \in Nat
    BY <2>3, FS_CardinalityType
  <2>5. QED  BY <1>1, <2>3, <2>4 DEF A
<1>4. \A a, b \in S : a # b => ahead(a) # ahead(b)
  <2> SUFFICES ASSUME NEW a \in S, NEW b \in S, a # b PROVE ahead(a) # ahead(b)
    OBVIOUS
  <2>1. \/ Cardinality(Ahead(group, f, a)) < Cardinality(Ahead(group, f, b))
        \/ Cardinality(Ahead(group, f, b)) < Cardinality(Ahead(group, f, a))
    BY AheadGrows
  <2>2. ahead(a) \in Int /\ ahead(b) \in Int
    BY <1>3
  <2>3. QED  BY <2>1, <2>2
<1>5. Arranged(group, f) = list
  BY DEF Arranged
<1> HIDE DEF n, ahead
<1>6. rank \in [S -> 1..n] /\ \A m \in S : rank[m] = ahead(m) + 1
  BY <1>1, <1>3
<1>7. \A a, b \in S : rank[a] = rank[b] => a = b
  BY <1>1, <1>3, <1>4, <1>6
<1> HIDE DEF rank
<1>8. rank \in Injection(S, 1..n)
  BY <1>6, <1>7, Fun_IsInj
<1>9. rank \in Surjection(S, 1..n)
  BY <1>2, <1>8, FS_Injection DEF n
<1>10. \A i \in 1..n : \E m \in S : rank[m] = i
  BY <1>9, Fun_SurjectionProperties
<1>11. \A i \in 1..n : list[i] \in S /\ ahead(list[i]) = i - 1
  <2> SUFFICES ASSUME NEW i \in 1..n PROVE list[i] \in S /\ ahead(list[i]) = i - 1
    OBVIOUS
  <2>1. PICK m \in S : rank[m] = i
    BY <1>10
  <2>2. ahead(m) = i - 1
    BY <1>1, <1>3, <1>6, <2>1
  <2>3. list[i] = CHOOSE x \in S : ahead(x) = i - 1
    OBVIOUS
  <2>4. QED  BY <2>2, <2>3
<1>12. list \in [1..n -> S] /\ DOMAIN list = 1..n
  BY <1>11
<1> HIDE DEF list
<1>13. list \in Seq(S) /\ Len(list) = n
  BY <1>1, <1>12
<1>14. \A m \in S : ahead(m) + 1 \in 1..n /\ list[ahead(m) + 1] = m
  <2> SUFFICES ASSUME NEW m \in S PROVE ahead(m) + 1 \in 1..n /\ list[ahead(m) + 1] = m
    OBVIOUS
  <2>1. ahead(m) \in Int /\ ahead(m) + 1 \in 1..n
    BY <1>1, <1>3
  <2>2. list[ahead(m) + 1] \in S /\ ahead(list[ahead(m) + 1]) = ahead(m)
    BY <1>11, <2>1
  <2>3. QED  BY <1>4, <2>1, <2>2
<1>15. \A i \in 1..n : list[i] \in S /\ ahead(list[i]) + 1 = i
  BY <1>1, <1>11
<1>16. QED  BY <1>1, <1>5, <1>12, <1>13, <1>14, <1>15 DEF n, ahead, Place

\* A list that has, in the same order, at least those with fewer than n ahead agrees
\* in n places; others come later in it than they should.
LEMMA ArrangedAgree ==
  ASSUME NEW S \in SUBSET Memories, NEW group \in [S -> Nat], NEW f \in Fields, NEW n \in Nat,
         NEW T \in SUBSET S, NEW found \in [T -> Nat],
         \A m \in T : group[m] <= found[m],
         \A m \in S : Cardinality(Ahead(group, f, m)) < n => m \in T /\ found[m] = group[m]
  PROVE  Agree(Arranged(group, f), Arranged(found, f), n)
<1> DEFINE whole == Arranged(group, f)
           part == Arranged(found, f)
<1>1. /\ IsFiniteSet(S) /\ Cardinality(S) \in Nat
      /\ Len(whole) = Cardinality(S)
      /\ \A i \in 1..Cardinality(S) : whole[i] \in S /\ Place(group, f, whole[i]) = i
      /\ \A m \in S : Place(group, f, m) \in 1..Cardinality(S) /\ whole[Place(group, f, m)] = m
  BY ArrangedIs, SMTT(30)
<1>2. T \in SUBSET Memories
  OBVIOUS
<1>3. /\ IsFiniteSet(T) /\ Cardinality(T) \in Nat
      /\ Len(part) = Cardinality(T)
      /\ \A m \in T : Place(found, f, m) \in 1..Cardinality(T) /\ part[Place(found, f, m)] = m
  BY <1>2, ArrangedIs
<1>4. Cardinality(T) <= Cardinality(S)
  BY <1>1, FS_Subset
<1>5. ASSUME NEW m \in S, Cardinality(Ahead(group, f, m)) < n
      PROVE  m \in T /\ Ahead(found, f, m) = Ahead(group, f, m)
  <2>1. m \in T /\ found[m] = group[m]
    BY <1>5
  <2>2. \A x \in S : Order[f][x] \in Nat /\ group[x] \in Nat
    BY ListingsAssumption
  <2>3. \A x \in T : found[x] \in Nat /\ group[x] <= found[x]
    OBVIOUS
  <2>4. Ahead(found, f, m) \subseteq Ahead(group, f, m)
    BY <2>1, <2>2, <2>3 DEF Ahead
  <2>5. ASSUME NEW x \in Ahead(group, f, m) PROVE x \in Ahead(found, f, m)
    <3>1. x \in S /\ x # m
      BY <2>2 DEF Ahead
    <3>2. Cardinality(Ahead(group, f, x)) < Cardinality(Ahead(group, f, m))
      BY <3>1, <2>5, AheadGrows
    <3>3. Cardinality(Ahead(group, f, x)) \in Int /\ Cardinality(Ahead(group, f, m)) \in Int
      <4>1. \A y \in S : IsFiniteSet(Ahead(group, f, y))
        BY <1>1, FS_Subset DEF Ahead
      <4>2. QED  BY <3>1, <4>1, FS_CardinalityType
    <3>4. x \in T /\ found[x] = group[x]
      BY <1>5, <3>1, <3>2, <3>3
    <3>5. QED  BY <2>1, <2>5, <3>1, <3>4 DEF Ahead
  <2>6. QED  BY <2>1, <2>4, <2>5
<1>6. ASSUME NEW k \in 1..n, k <= Len(whole)
      PROVE  k <= Len(part) /\ whole[k] = part[k]
  <2>1. k \in 1..Cardinality(S)
    BY <1>1, <1>6
  <2>2. whole[k] \in S /\ Place(group, f, whole[k]) = k
    BY <1>1, <2>1
  <2> DEFINE m == whole[k]
             a == Cardinality(Ahead(group, f, m))
  <2>3. IsFiniteSet(Ahead(group, f, m))
    BY <1>1, <2>2, FS_Subset DEF Ahead
  <2>4. a \in Nat /\ a + 1 = k
    BY <2>2, <2>3, FS_CardinalityType DEF Place
  <2>5. m \in S /\ a < n
    BY <2>2, <2>4
  <2> HIDE DEF m
  <2>6. m \in T /\ Ahead(found, f, m) = Ahead(group, f, m)
    BY <1>5, <2>5
  <2>7. Place(found, f, m) = k
    BY <2>4, <2>6 DEF Place
  <2>8. k \in 1..Cardinality(T) /\ part[k] = m
    BY <1>3, <2>6, <2>7
  <2>9. QED  BY <1>3, <2>8 DEF m
<1>7. ASSUME NEW k \in 1..n, k <= Len(part)
      PROVE  k <= Len(whole)
  BY <1>1, <1>3, <1>4, <1>7
<1>8. QED  BY <1>6, <1>7 DEF Agree

\* Every memory of a list is in the other, no earlier.
Later(s, t) == \A i \in 1..Len(s) : \E j \in 1..Len(t) : t[j] = s[i] /\ i <= j

LEMMA ArrangedLater ==
  ASSUME NEW T \in SUBSET Memories, NEW after \in [T -> Nat], NEW f \in Fields,
         NEW S \in SUBSET T, NEW before \in [S -> Nat],
         \A m \in S : after[m] = before[m]
  PROVE  /\ Later(Arranged(before, f), Arranged(after, f))
         /\ Len(Arranged(before, f)) <= Len(Arranged(after, f))
<1> DEFINE short == Arranged(before, f)
           long == Arranged(after, f)
<1>1. S \in SUBSET Memories
  OBVIOUS
<1>2. /\ Len(short) = Cardinality(S)
      /\ \A i \in 1..Cardinality(S) : short[i] \in S /\ Place(before, f, short[i]) = i
  BY <1>1, ArrangedIs
<1>3. /\ IsFiniteSet(T) /\ Len(long) = Cardinality(T) /\ Cardinality(T) \in Nat
      /\ \A m \in T : Place(after, f, m) \in 1..Cardinality(T) /\ long[Place(after, f, m)] = m
  BY ArrangedIs
<1>4. Cardinality(S) <= Cardinality(T)
  BY <1>3, FS_Subset
<1>5. ASSUME NEW m \in S PROVE Place(before, f, m) <= Place(after, f, m)
  <2>1. Ahead(before, f, m) \subseteq Ahead(after, f, m) /\ Ahead(after, f, m) \subseteq T
    BY DEF Ahead
  <2>2. IsFiniteSet(Ahead(after, f, m))
    BY <1>3, <2>1, FS_Subset
  <2>3. /\ IsFiniteSet(Ahead(before, f, m))
        /\ Cardinality(Ahead(before, f, m)) <= Cardinality(Ahead(after, f, m))
    BY <2>1, <2>2, FS_Subset
  <2>4. QED  BY <2>2, <2>3, FS_CardinalityType DEF Place
<1>6. ASSUME NEW i \in 1..Len(short) PROVE \E j \in 1..Len(long) : long[j] = short[i] /\ i <= j
  <2>1. short[i] \in S /\ Place(before, f, short[i]) = i
    BY <1>2, <1>6
  <2>2. i <= Place(after, f, short[i])
    BY <1>5, <2>1
  <2>3. QED  BY <1>3, <2>1, <2>2
<1>7. QED  BY <1>2, <1>3, <1>4, <1>6 DEF Later

-----------------------------------------------------------------------------
(* The two pools.  How many of the first p places are for the discovery    *)
(* pool, when a are rated and b are not, and where each of a pool stands.  *)

LEMMA QuotientBounds ==
  ASSUME NEW a \in Nat, NEW q \in Nat \ {0}, NEW t \in Nat
  PROVE  /\ t * q <= a => t <= a \div q
         /\ a < t * q + q => a \div q <= t
<1> DEFINE d == a \div q
<1>1. d \in Nat /\ d * q <= a /\ a < d * q + q
  BY Quotient
<1> HIDE DEF d
<1>2. ASSUME t * q <= a PROVE t <= d
  <2>1. SUFFICES ASSUME d + 1 <= t PROVE FALSE
    BY <1>1
  <2>2. (d + 1) * q <= t * q
    BY <1>1, <2>1
  <2>3. (d + 1) * q = d * q + q
    BY <1>1
  <2>4. d * q \in Nat /\ t * q \in Nat
    BY <1>1
  <2>5. QED  BY <1>1, <1>2, <2>2, <2>3, <2>4
<1>3. ASSUME a < t * q + q PROVE d <= t
  <2>1. SUFFICES ASSUME t + 1 <= d PROVE FALSE
    BY <1>1
  <2>2. (t + 1) * q <= d * q
    BY <1>1, <2>1
  <2>3. (t + 1) * q = t * q + q
    OBVIOUS
  <2>4. d * q \in Nat /\ t * q \in Nat
    BY <1>1
  <2>5. QED  BY <1>1, <1>3, <2>2, <2>3, <2>4
<1>4. QED  BY <1>2, <1>3 DEF d

LEMMA QuotientLess ==
  ASSUME NEW a \in Nat, NEW q \in Nat \ {0}
  PROVE  a \div q <= a
<1>1. a * q >= a /\ a * q \in Nat
  OBVIOUS
<1>2. a < a * q + q
  BY <1>1
<1>3. QED  BY <1>2, QuotientBounds

LEMMA QuotientGrows ==
  ASSUME NEW a \in Nat, NEW b \in Nat, NEW q \in Nat \ {0}, a <= b
  PROVE  /\ a \div q <= b \div q
         /\ b \div q - a \div q <= b - a
<1> DEFINE d == a \div q
<1>1. d \in Nat /\ d * q <= a /\ a < d * q + q
  BY Quotient
<1>2. b \div q \in Nat
  BY Quotient
<1>3. d <= b \div q
  BY <1>1, QuotientBounds
<1>4. b \div q <= d + (b - a)
  <2> DEFINE t == d + (b - a)
  <2>1. t \in Nat /\ b - a \in Nat
    BY <1>1
  <2>2. t * q = d * q + (b - a) * q
    BY <1>1, <2>1
  <2>3. (b - a) * q >= b - a /\ (b - a) * q \in Nat /\ d * q \in Nat
    BY <1>1, <2>1
  <2> HIDE DEF t, d
  <2>4. b < t * q + q
    BY <1>1, <2>1, <2>2, <2>3
  <2>5. b \div q <= t
    BY <2>1, <2>4, QuotientBounds
  <2>6. QED  BY <2>5 DEF t
<1>5. QED  BY <1>1, <1>2, <1>3, <1>4

Share(a, b, p) == Smaller(b, Larger(p \div (Ratio + 1), p - a))

LEMMA ShareIs ==
  ASSUME NEW a \in Nat, NEW b \in Nat, NEW p \in 0..(a + b)
  PROVE  Share(a, b, p) \in 0..b /\ p - Share(a, b, p) \in 0..a
<1> DEFINE d == p \div (Ratio + 1)
<1>1. Ratio + 1 \in Nat \ {0} /\ p \in Nat
  BY ListingsAssumption
<1>2. d \in Nat
  BY <1>1, Quotient
<1>3. d <= p
  BY <1>1, QuotientLess
<1> HIDE DEF d
<1>4. QED  BY <1>1, <1>2, <1>3 DEF Share, Smaller, Larger, d

LEMMA ShareGrows ==
  ASSUME NEW a \in Nat, NEW b \in Nat, NEW p \in Nat, NEW r \in Nat, p <= r
  PROVE  /\ Share(a, b, p) <= Share(a, b, r)
         /\ p - Share(a, b, p) <= r - Share(a, b, r)
<1> DEFINE d == p \div (Ratio + 1)
           e == r \div (Ratio + 1)
<1>1. Ratio + 1 \in Nat \ {0}
  BY ListingsAssumption
<1>2. d \in Nat /\ e \in Nat /\ d <= e /\ e - d <= r - p
  BY <1>1, Quotient, QuotientGrows
<1> HIDE DEF d, e
<1>3. QED  BY <1>2 DEF Share, Smaller, Larger, d, e

NewPlace(a, k) == Smaller(k * (Ratio + 1), a + k)

RatedPlace(b, j) == j + Smaller(b, (j - 1) \div Ratio)

LEMMA NewPlaceIs ==
  ASSUME NEW a \in Nat, NEW b \in Nat, NEW k \in 1..b
  PROVE  LET p == NewPlace(a, k) IN
         /\ p \in 1..(a + b)
         /\ Share(a, b, p) = k /\ Share(a, b, p - 1) = k - 1
<1> DEFINE q == Ratio + 1
           p == NewPlace(a, k)
<1>1. q \in Nat \ {0} /\ k \in Nat
  BY ListingsAssumption
<1>2. k * q \in Nat /\ k * q >= k /\ (k - 1) * q = k * q - q
  <2>1. Ratio \in Nat
    BY ListingsAssumption
  <2>2. k * q = k * Ratio + k /\ k * Ratio \in Nat
    BY <1>1, <2>1
  <2>3. (k - 1) * q = k * q - q
    BY <1>1
  <2>4. QED  BY <1>1, <2>2, <2>3
<1> HIDE DEF q
<1>3. p = IF k * q < a + k THEN k * q ELSE a + k
  BY DEF NewPlace, Smaller, q
<1> HIDE DEF p
<1>4. p \in 1..(a + b) /\ p <= k * q /\ p <= a + k /\ p - 1 \in Nat /\ p \in Nat
  BY <1>1, <1>2, <1>3
<1>5. p \div q <= k /\ (p - 1) \div q <= k - 1 /\ p \div q \in Nat /\ (p - 1) \div q \in Nat
  <2>1. p < k * q + q /\ p - 1 < (k - 1) * q + q
    BY <1>1, <1>2, <1>4
  <2>2. k - 1 \in Nat
    BY <1>1
  <2>3. p \div q <= k
    BY <1>1, <1>4, <2>1, QuotientBounds
  <2>4. (p - 1) \div q <= k - 1
    BY <1>1, <1>4, <2>1, <2>2, QuotientBounds
  <2>5. QED  BY <1>1, <1>4, <2>3, <2>4, Quotient
<1>6. (p \div q = k /\ (p - 1) \div q = k - 1) \/ p = a + k
  <2>1. SUFFICES ASSUME p = k * q PROVE p \div q = k /\ (p - 1) \div q = k - 1
    BY <1>3
  <2>2. k * q <= p /\ (k - 1) * q <= p - 1
    BY <1>1, <1>2, <1>4, <2>1
  <2>3. k - 1 \in Nat
    BY <1>1
  <2>4. k <= p \div q
    BY <1>1, <1>4, <2>2, QuotientBounds
  <2>5. k - 1 <= (p - 1) \div q
    BY <1>1, <1>4, <2>2, <2>3, QuotientBounds
  <2>6. QED  BY <1>1, <1>5, <2>4, <2>5
<1>7. Share(a, b, p) = k
  <2> DEFINE d == p \div q
  <2>1. Share(a, b, p) = Smaller(b, Larger(d, p - a))
    BY DEF Share, q
  <2>2. d \in Nat /\ d <= k /\ (d = k \/ p = a + k)
    BY <1>5, <1>6
  <2> HIDE DEF d
  <2>3. QED  BY <1>1, <1>4, <2>1, <2>2 DEF Smaller, Larger
<1>8. Share(a, b, p - 1) = k - 1
  <2> DEFINE d == (p - 1) \div q
  <2>1. Share(a, b, p - 1) = Smaller(b, Larger(d, p - 1 - a))
    BY DEF Share, q
  <2>2. d \in Nat /\ d <= k - 1 /\ (d = k - 1 \/ p = a + k)
    BY <1>5, <1>6
  <2> HIDE DEF d
  <2>3. QED  BY <1>1, <1>4, <2>1, <2>2 DEF Smaller, Larger
<1>9. QED  BY <1>4, <1>7, <1>8 DEF p

LEMMA RatedPlaceIs ==
  ASSUME NEW a \in Nat, NEW b \in Nat, NEW j \in 1..a
  PROVE  LET p == RatedPlace(b, j) IN
         /\ p \in 1..(a + b)
         /\ Share(a, b, p) = p - j /\ Share(a, b, p - 1) = p - j
<1> DEFINE q == Ratio + 1
           t == (j - 1) \div Ratio
           s == Smaller(b, t)
           p == j + s
<1>1. q \in Nat \ {0} /\ j \in Nat /\ Ratio \in Nat \ {0} /\ j - 1 \in Nat
  BY ListingsAssumption
<1>2. t \in Nat /\ t * Ratio <= j - 1 /\ j - 1 < t * Ratio + Ratio
  BY <1>1, Quotient
<1> HIDE DEF t
<1>3. s \in Nat /\ s <= b /\ s <= t /\ (s = b \/ s = t)
  BY <1>2 DEF Smaller
<1>4. RatedPlace(b, j) = p
  BY DEF RatedPlace, t
<1>5. s * q = s * Ratio + s /\ s * Ratio <= t * Ratio /\ s * Ratio \in Nat /\ t * Ratio \in Nat
  BY <1>1, <1>2, <1>3
<1> HIDE DEF s, q
<1>6. p \in 1..(a + b) /\ p \in Nat /\ p - 1 \in Nat /\ p - s = j
  BY <1>1, <1>3
<1>7. s * q <= p - 1 /\ s * q <= p
  BY <1>1, <1>2, <1>3, <1>5, <1>6
<1>8. s = b \/ p < s * q + q
  BY <1>1, <1>2, <1>3, <1>5, <1>6 DEF q
<1> HIDE DEF p
<1> DEFINE d == p \div q
           e == (p - 1) \div q
<1>9. d \in Nat /\ e \in Nat /\ s <= d /\ s <= e /\ (s = b \/ d <= s) /\ e <= d
  <2>1. s <= d
    BY <1>1, <1>3, <1>6, <1>7, QuotientBounds
  <2>2. s <= e
    BY <1>1, <1>3, <1>6, <1>7, QuotientBounds
  <2>3. s = b \/ d <= s
    BY <1>1, <1>3, <1>6, <1>8, QuotientBounds
  <2>4. e <= d
    <3>1. p - 1 <= p
      BY <1>6
    <3>2. QED  BY <1>1, <1>6, <3>1, QuotientGrows
  <2>5. QED  BY <1>1, <1>6, <2>1, <2>2, <2>3, <2>4, Quotient
<1>10. /\ Share(a, b, p) = Smaller(b, Larger(d, p - a))
       /\ Share(a, b, p - 1) = Smaller(b, Larger(e, p - 1 - a))
  BY DEF Share, q
<1> HIDE DEF d, e
<1>11. Share(a, b, p) = s /\ Share(a, b, p - 1) = s
  BY <1>1, <1>3, <1>6, <1>9, <1>10 DEF Smaller, Larger
<1>12. s = p - j
  BY <1>1, <1>3, <1>6
<1>13. QED  BY <1>4, <1>6, <1>11, <1>12

\* Every place of the merged list is that of one of either pool.
Merges(merged, rated, discovery) ==
  LET a == Len(rated)
      b == Len(discovery) IN
  /\ a \in Nat /\ b \in Nat /\ Len(merged) = a + b
  /\ \A p \in 1..(a + b) :
       \/ \E k \in 1..b : p = NewPlace(a, k) /\ merged[p] = discovery[k]
       \/ \E j \in 1..a : p = RatedPlace(b, j) /\ merged[p] = rated[j]
  /\ \A k \in 1..b : NewPlace(a, k) \in 1..(a + b) /\ merged[NewPlace(a, k)] = discovery[k]
  /\ \A j \in 1..a : RatedPlace(b, j) \in 1..(a + b) /\ merged[RatedPlace(b, j)] = rated[j]

LEMMA InterleaveIs ==
  ASSUME NEW S, NEW rated \in Seq(S), NEW discovery \in Seq(S)
  PROVE  /\ InterleaveDiscovery(rated, discovery) \in Seq(S)
         /\ Merges(InterleaveDiscovery(rated, discovery), rated, discovery)
<1> DEFINE a == Len(rated)
           b == Len(discovery)
           new(p) == Share(a, b, p)
           merged == [p \in 1..(a + b) |->
                        IF new(p) > new(p - 1) THEN discovery[new(p)] ELSE rated[p - new(p)]]
<1>1. /\ a \in Nat /\ b \in Nat
      /\ rated \in [1..a -> S] /\ discovery \in [1..b -> S]
  BY LenProperties
<1>2. InterleaveDiscovery(rated, discovery) = merged
  BY DEF InterleaveDiscovery, Share
<1> HIDE DEF a, b
<1>3. ASSUME NEW p \in 1..(a + b)
      PROVE  /\ new(p) \in 0..b /\ p - new(p) \in 0..a
             /\ new(p - 1) \in 0..b /\ p - 1 - new(p - 1) \in 0..a
             /\ new(p - 1) <= new(p) /\ p - 1 - new(p - 1) <= p - new(p)
  <2>1. p \in 0..(a + b) /\ p - 1 \in 0..(a + b) /\ p - 1 <= p /\ p \in Nat /\ p - 1 \in Nat
    BY <1>1
  <2>2. new(p) \in 0..b /\ p - new(p) \in 0..a
    BY <1>1, <2>1, ShareIs
  <2>3. new(p - 1) \in 0..b /\ p - 1 - new(p - 1) \in 0..a
    BY <1>1, <2>1, ShareIs
  <2>4. new(p - 1) <= new(p) /\ p - 1 - new(p - 1) <= p - new(p)
    BY <1>1, <2>1, ShareGrows
  <2>5. QED  BY <2>2, <2>3, <2>4
<1>4. ASSUME NEW p \in 1..(a + b), new(p) > new(p - 1)
      PROVE  /\ new(p) \in 1..b /\ new(p - 1) = new(p) - 1
             /\ p = NewPlace(a, new(p)) /\ merged[p] = discovery[new(p)]
  <2> DEFINE k == new(p)
             r == NewPlace(a, k)
  <2>1. k \in 1..b /\ new(p - 1) = k - 1
    <3> HIDE DEF new
    <3>1. /\ new(p) \in 0..b /\ new(p - 1) \in 0..b
          /\ p - 1 - new(p - 1) <= p - new(p) /\ new(p) > new(p - 1)
      BY <1>3, <1>4
    <3>2. QED  BY <1>1, <3>1
  <2>2. merged[p] = discovery[k]
    BY <1>4
  <2>3. r \in 1..(a + b) /\ new(r) = k /\ new(r - 1) = k - 1
    BY <1>1, <2>1, NewPlaceIs
  <2>4. p \in Nat /\ p - 1 \in Nat /\ r \in Nat /\ r - 1 \in Nat
    BY <1>1, <2>3
  <2>5. r <= p - 1 => new(r) <= new(p - 1)
    BY <1>1, <2>4, ShareGrows
  <2>6. p <= r - 1 => new(p) <= new(r - 1)
    BY <1>1, <2>4, ShareGrows
  <2> HIDE DEF r
  <2>7. p = r
    <3> HIDE DEF new
    <3>1. new(p) \in Nat
      BY <2>1
    <3>2. QED  BY <2>1, <2>3, <2>4, <2>5, <2>6, <3>1
  <2>8. QED  BY <2>1, <2>2, <2>7 DEF r
<1>5. ASSUME NEW p \in 1..(a + b), ~ (new(p) > new(p - 1))
      PROVE  /\ p - new(p) \in 1..a
             /\ p = RatedPlace(b, p - new(p)) /\ merged[p] = rated[p - new(p)]
  <2> DEFINE j == p - new(p)
             r == RatedPlace(b, j)
  <2>1. j \in 1..a /\ new(p - 1) = new(p) /\ new(p) \in Nat
    BY <1>1, <1>3, <1>5, SMTT(30)
  <2>2. merged[p] = rated[j]
    BY <1>5
  <2>3. r \in 1..(a + b) /\ new(r) = r - j /\ new(r - 1) = r - j
    BY <1>1, <2>1, RatedPlaceIs
  <2>4. p \in Nat /\ p - 1 \in Nat /\ r \in Nat /\ r - 1 \in Nat
    BY <1>1, <2>3
  <2>5. r <= p - 1 => r - new(r) <= p - 1 - new(p - 1)
    BY <1>1, <2>4, ShareGrows
  <2>6. p <= r - 1 => p - new(p) <= r - 1 - new(r - 1)
    BY <1>1, <2>4, ShareGrows
  <2> HIDE DEF r
  <2>7. p = r
    <3> HIDE DEF new
    <3>1. QED  BY <2>1, <2>3, <2>4, <2>5, <2>6
  <2>8. QED  BY <2>1, <2>2, <2>7 DEF r
<1>6. ASSUME NEW k \in 1..b
      PROVE  NewPlace(a, k) \in 1..(a + b) /\ merged[NewPlace(a, k)] = discovery[k]
  <2>1. /\ NewPlace(a, k) \in 1..(a + b)
        /\ new(NewPlace(a, k)) = k /\ new(NewPlace(a, k) - 1) = k - 1
    BY <1>1, NewPlaceIs
  <2>2. new(NewPlace(a, k)) > new(NewPlace(a, k) - 1)
    BY <1>1, <2>1
  <2>3. QED  BY <1>4, <2>1, <2>2
<1>7. ASSUME NEW j \in 1..a
      PROVE  RatedPlace(b, j) \in 1..(a + b) /\ merged[RatedPlace(b, j)] = rated[j]
  <2> DEFINE r == RatedPlace(b, j)
  <2>1. r \in 1..(a + b) /\ new(r) = r - j /\ new(r - 1) = r - j
    BY <1>1, RatedPlaceIs
  <2>2. ~ (new(r) > new(r - 1)) /\ r - new(r) = j
    BY <1>1, <2>1
  <2>3. QED  BY <1>5, <2>1, <2>2
<1>8. ASSUME NEW p \in 1..(a + b)
      PROVE  \/ \E k \in 1..b : p = NewPlace(a, k) /\ merged[p] = discovery[k]
             \/ \E j \in 1..a : p = RatedPlace(b, j) /\ merged[p] = rated[j]
  BY <1>4, <1>5
<1>9. merged \in [1..(a + b) -> S]
  <2> SUFFICES ASSUME NEW p \in 1..(a + b) PROVE merged[p] \in S
    OBVIOUS
  <2>1. QED  BY <1>1, <1>8
<1> HIDE DEF merged
<1>10. merged \in Seq(S) /\ Len(merged) = a + b
  BY <1>1, <1>9
<1>11. QED  BY <1>1, <1>2, <1>6, <1>7, <1>8, <1>10 DEF a, b, Merges

Distinct(s) == \A i, j \in 1..Len(s) : s[i] = s[j] => i = j

LEMMA InterleaveDistinct ==
  ASSUME NEW S, NEW rated \in Seq(S), NEW discovery \in Seq(S),
         Distinct(rated), Distinct(discovery),
         \A j \in 1..Len(rated), k \in 1..Len(discovery) : rated[j] # discovery[k]
  PROVE  Distinct(InterleaveDiscovery(rated, discovery))
<1> DEFINE a == Len(rated)
           b == Len(discovery)
           merged == InterleaveDiscovery(rated, discovery)
<1>1. /\ Len(merged) = a + b
      /\ \A p \in 1..(a + b) :
           \/ \E k \in 1..b : p = NewPlace(a, k) /\ merged[p] = discovery[k]
           \/ \E j \in 1..a : p = RatedPlace(b, j) /\ merged[p] = rated[j]
  <2>1. Merges(merged, rated, discovery)
    BY InterleaveIs
  <2> HIDE DEF merged
  <2>2. QED  BY <2>1 DEF Merges
<1> HIDE DEF merged
<1>2. SUFFICES ASSUME NEW p \in 1..(a + b), NEW r \in 1..(a + b), merged[p] = merged[r]
               PROVE  p = r
  BY <1>1 DEF Distinct, merged
<1>3. ASSUME NEW k \in 1..b, p = NewPlace(a, k), merged[p] = discovery[k]
      PROVE  p = r
  <2>1. \A j \in 1..a : rated[j] # merged[r]
    BY <1>2, <1>3
  <2>2. PICK l \in 1..b : r = NewPlace(a, l) /\ merged[r] = discovery[l]
    BY <1>1, <2>1
  <2>3. k = l
    BY <1>2, <1>3, <2>2 DEF Distinct
  <2>4. QED  BY <1>3, <2>2, <2>3
<1>4. ASSUME NEW j \in 1..a, p = RatedPlace(b, j), merged[p] = rated[j]
      PROVE  p = r
  <2>1. \A k \in 1..b : discovery[k] # merged[r]
    BY <1>2, <1>4
  <2>2. PICK l \in 1..a : r = RatedPlace(b, l) /\ merged[r] = rated[l]
    BY <1>1, <2>1
  <2>3. j = l
    BY <1>2, <1>4, <2>2 DEF Distinct
  <2>4. QED  BY <1>4, <2>2, <2>3
<1>5. QED  BY <1>1, <1>3, <1>4

\* A longer pool moves no memory of either to an earlier place.
LEMMA InterleaveLater ==
  ASSUME NEW S, NEW rated \in Seq(S), NEW discovery \in Seq(S),
         NEW rated2 \in Seq(S), NEW discovery2 \in Seq(S),
         Later(rated, rated2), Len(rated) <= Len(rated2),
         Later(discovery, discovery2), Len(discovery) <= Len(discovery2)
  PROVE  Later(InterleaveDiscovery(rated, discovery), InterleaveDiscovery(rated2, discovery2))
<1> DEFINE a == Len(rated)
           b == Len(discovery)
           c == Len(rated2)
           d == Len(discovery2)
           merged == InterleaveDiscovery(rated, discovery)
           merged2 == InterleaveDiscovery(rated2, discovery2)
<1>1. /\ a \in Nat /\ b \in Nat /\ Len(merged) = a + b
      /\ \A p \in 1..(a + b) :
           \/ \E k \in 1..b : p = NewPlace(a, k) /\ merged[p] = discovery[k]
           \/ \E j \in 1..a : p = RatedPlace(b, j) /\ merged[p] = rated[j]
  <2>1. Merges(merged, rated, discovery)
    BY InterleaveIs
  <2> HIDE DEF merged
  <2>2. QED  BY <2>1 DEF Merges
<1>2. /\ c \in Nat /\ d \in Nat /\ Len(merged2) = c + d
      /\ \A k \in 1..d : NewPlace(c, k) \in 1..(c + d) /\ merged2[NewPlace(c, k)] = discovery2[k]
      /\ \A j \in 1..c : RatedPlace(d, j) \in 1..(c + d) /\ merged2[RatedPlace(d, j)] = rated2[j]
  <2>1. Merges(merged2, rated2, discovery2)
    BY InterleaveIs
  <2> HIDE DEF merged2
  <2>2. QED  BY <2>1 DEF Merges
<1>3. /\ \A i \in 1..a : \E j \in 1..c : rated2[j] = rated[i] /\ i <= j
      /\ \A i \in 1..b : \E j \in 1..d : discovery2[j] = discovery[i] /\ i <= j
      /\ a <= c /\ b <= d
  BY DEF Later
<1> HIDE DEF a, b, c, d, merged, merged2
<1>4. ASSUME NEW p \in 1..(a + b)
      PROVE  \E r \in 1..(c + d) : merged2[r] = merged[p] /\ p <= r
  <2>1. ASSUME NEW k \in 1..b, p = NewPlace(a, k), merged[p] = discovery[k]
        PROVE  \E r \in 1..(c + d) : merged2[r] = merged[p] /\ p <= r
    <3>1. PICK l \in 1..d : discovery2[l] = discovery[k] /\ k <= l
      BY <1>3
    <3>2. k * (Ratio + 1) <= l * (Ratio + 1) /\ k * (Ratio + 1) \in Nat /\ l * (Ratio + 1) \in Nat
      <4>1. Ratio + 1 \in Nat
        BY ListingsAssumption
      <4>2. QED  BY <1>1, <1>2, <3>1, <4>1, SMTT(30)
    <3> DEFINE x == k * (Ratio + 1)
               y == l * (Ratio + 1)
    <3>3. NewPlace(a, k) <= NewPlace(c, l)
      <4>1. x \in Nat /\ y \in Nat /\ x <= y
        BY <3>2
      <4>2. NewPlace(a, k) = Smaller(x, a + k) /\ NewPlace(c, l) = Smaller(y, c + l)
        BY DEF NewPlace
      <4> HIDE DEF x, y
      <4>3. QED  BY <1>1, <1>2, <1>3, <3>1, <4>1, <4>2, SMTT(30) DEF Smaller
    <3>4. QED  BY <1>2, <2>1, <3>1, <3>3
  <2>2. ASSUME NEW j \in 1..a, p = RatedPlace(b, j), merged[p] = rated[j]
        PROVE  \E r \in 1..(c + d) : merged2[r] = merged[p] /\ p <= r
    <3>1. PICK l \in 1..c : rated2[l] = rated[j] /\ j <= l
      BY <1>3
    <3> DEFINE s == (j - 1) \div Ratio
               t == (l - 1) \div Ratio
    <3>2. s \in Nat /\ t \in Nat /\ s <= t
      <4>1. Ratio \in Nat \ {0}
        BY ListingsAssumption
      <4>2. j - 1 \in Nat /\ l - 1 \in Nat /\ j - 1 <= l - 1
        BY <1>1, <1>2, <3>1
      <4>3. QED  BY <4>1, <4>2, Quotient, QuotientGrows
    <3>3. RatedPlace(b, j) = j + Smaller(b, s) /\ RatedPlace(d, l) = l + Smaller(d, t)
      BY DEF RatedPlace
    <3> HIDE DEF s, t
    <3>4. RatedPlace(b, j) <= RatedPlace(d, l)
      BY <1>1, <1>2, <1>3, <3>1, <3>2, <3>3, SMTT(30) DEF Smaller
    <3>5. QED  BY <1>2, <2>2, <3>1, <3>4
  <2>3. QED  BY <1>1, <2>1, <2>2
<1>5. QED  BY <1>1, <1>2, <1>4 DEF Later, merged, merged2

\* Numbers that are one up to n.
Alike(a, b, n) == a = b \/ (a >= n /\ b >= n)

LEMMA AgreeLengths ==
  ASSUME NEW S, NEW s \in Seq(S), NEW t \in Seq(S), NEW n \in Nat, Agree(s, t, n)
  PROVE  Alike(Len(s), Len(t), n)
<1>1. Len(s) \in Nat /\ Len(t) \in Nat
  BY LenProperties
<1>2. \A k \in 1..n : k <= Len(s) <=> k <= Len(t)
  BY DEF Agree
<1>3. Len(s) >= 1 /\ Len(s) <= n => Len(s) <= Len(t)
  BY <1>1, <1>2
<1>4. Len(t) >= 1 /\ Len(t) <= n => Len(t) <= Len(s)
  BY <1>1, <1>2
<1>5. n >= 1 => (n <= Len(s) <=> n <= Len(t))
  BY <1>2
<1>6. QED  BY <1>1, <1>3, <1>4, <1>5 DEF Alike

LEMMA InterleaveAt ==
  ASSUME NEW S, NEW rated \in Seq(S), NEW discovery \in Seq(S),
         NEW p \in 1..(Len(rated) + Len(discovery))
  PROVE  LET k == Share(Len(rated), Len(discovery), p)
             l == Share(Len(rated), Len(discovery), p - 1) IN
         /\ InterleaveDiscovery(rated, discovery)[p] =
              IF k > l THEN discovery[k] ELSE rated[p - k]
         /\ k > l => k \in 1..Len(discovery) /\ k <= p
         /\ ~ (k > l) => p - k \in 1..Len(rated) /\ p - k <= p
<1> DEFINE a == Len(rated)
           b == Len(discovery)
           k == Share(a, b, p)
           l == Share(a, b, p - 1)
<1>1. a \in Nat /\ b \in Nat
  BY LenProperties
<1>2. InterleaveDiscovery(rated, discovery)[p] = IF k > l THEN discovery[k] ELSE rated[p - k]
  BY DEF InterleaveDiscovery, Share
<1> HIDE DEF a, b
<1>3. p \in 0..(a + b) /\ p - 1 \in 0..(a + b) /\ p \in Nat /\ p - 1 \in Nat /\ p - 1 <= p
  BY <1>1 DEF a, b
<1>4. k \in 0..b /\ p - k \in 0..a
  BY <1>1, <1>3, ShareIs
<1>5. l \in 0..b /\ p - 1 - l \in 0..a
  BY <1>1, <1>3, ShareIs
<1> HIDE DEF k, l
<1>6. k > l => k \in 1..b /\ k <= p
  BY <1>1, <1>3, <1>4, <1>5
<1>7. ~ (k > l) => p - k \in 1..a /\ p - k <= p
  BY <1>1, <1>3, <1>4, <1>5
<1>8. QED  BY <1>2, <1>6, <1>7 DEF k, l, a, b

\* Pools that agree in as many places as are asked for are merged alike.
LEMMA InterleaveAgree ==
  ASSUME NEW S, NEW rated \in Seq(S), NEW discovery \in Seq(S),
         NEW rated2 \in Seq(S), NEW discovery2 \in Seq(S), NEW n \in Nat,
         Agree(rated, rated2, n), Agree(discovery, discovery2, n)
  PROVE  Agree(InterleaveDiscovery(rated, discovery), InterleaveDiscovery(rated2, discovery2), n)
<1> DEFINE a == Len(rated)
           b == Len(discovery)
           c == Len(rated2)
           d == Len(discovery2)
           merged == InterleaveDiscovery(rated, discovery)
           merged2 == InterleaveDiscovery(rated2, discovery2)
<1>1. a \in Nat /\ b \in Nat /\ c \in Nat /\ d \in Nat
  BY LenProperties
<1>2. Alike(a, c, n) /\ Alike(b, d, n)
  BY AgreeLengths
<1>3. Len(merged) = a + b /\ Len(merged2) = c + d
  <2>1. Merges(merged, rated, discovery) /\ Merges(merged2, rated2, discovery2)
    BY InterleaveIs
  <2> HIDE DEF merged, merged2
  <2>2. QED  BY <2>1 DEF Merges
<1>4. \A p \in 0..n : Share(a, b, p) = Share(c, d, p)
  <2> SUFFICES ASSUME NEW p \in 0..n PROVE Share(a, b, p) = Share(c, d, p)
    OBVIOUS
  <2> HIDE DEF a, b, c, d
  <2> DEFINE q == p \div (Ratio + 1)
  <2>1. q \in Nat /\ q <= p
    <3>1. Ratio + 1 \in Nat \ {0} /\ p \in Nat
      BY ListingsAssumption
    <3>2. QED  BY <3>1, Quotient, QuotientLess
  <2>2. /\ Share(a, b, p) = Smaller(b, Larger(q, p - a))
        /\ Share(c, d, p) = Smaller(d, Larger(q, p - c))
    BY DEF Share
  <2> HIDE DEF q
  <2>3. QED  BY <1>1, <1>2, <2>1, <2>2 DEF Smaller, Larger, Alike
<1>5. ASSUME NEW p \in 1..n
      PROVE  /\ p <= a + b <=> p <= c + d
             /\ p <= a + b => merged[p] = merged2[p]
  <2>1. p <= a + b <=> p <= c + d
    BY <1>1, <1>2 DEF Alike
  <2>2. ASSUME p <= a + b PROVE merged[p] = merged2[p]
    <3> DEFINE k == Share(a, b, p)
               l == Share(a, b, p - 1)
    <3>1. p \in 1..(a + b) /\ p \in 1..(c + d) /\ p \in 0..n /\ p - 1 \in 0..n
      BY <1>1, <2>1, <2>2
    <3>2. Share(c, d, p) = k
      BY <1>4, <3>1
    <3>3. Share(c, d, p - 1) = l
      BY <1>4, <3>1
    <3>4. /\ merged[p] = IF k > l THEN discovery[k] ELSE rated[p - k]
          /\ k > l => k \in 1..b /\ k <= p
          /\ ~ (k > l) => p - k \in 1..a /\ p - k <= p
      BY <3>1, InterleaveAt
    <3>5. merged2[p] = IF k > l THEN discovery2[k] ELSE rated2[p - k]
      BY <3>1, <3>2, <3>3, InterleaveAt
    <3> HIDE DEF k, l, merged, merged2
    <3>6. CASE k > l
      <4>1. k \in 1..n /\ k <= b
        BY <1>1, <3>4, <3>6
      <4>2. discovery[k] = discovery2[k]
        BY <4>1 DEF Agree
      <4>3. QED  BY <3>4, <3>5, <3>6, <4>2
    <3>7. CASE ~ (k > l)
      <4>1. p - k \in 1..n /\ p - k <= a
        BY <1>1, <3>4, <3>7
      <4>2. rated[p - k] = rated2[p - k]
        BY <4>1 DEF Agree
      <4>3. QED  BY <3>4, <3>5, <3>7, <4>2
    <3>8. QED  BY <3>6, <3>7
  <2>3. QED  BY <2>1, <2>2
<1>6. QED  BY <1>3, <1>5 DEF Agree

LEMMA InterleaveNone ==
  ASSUME NEW S, NEW rated \in Seq(S), NEW none \in Seq(S), Len(none) = 0
  PROVE  InterleaveDiscovery(rated, none) = rated
<1> DEFINE a == Len(rated)
           merged == InterleaveDiscovery(rated, none)
<1>1. a \in Nat
  BY LenProperties
<1>2. ASSUME NEW p \in 0..a PROVE Share(a, 0, p) = 0
  <2>1. Ratio + 1 \in Nat \ {0} /\ p \in Nat
    BY ListingsAssumption
  <2>2. p \div (Ratio + 1) \in Nat
    BY <2>1, Quotient
  <2>3. QED  BY <1>1, <2>1, <2>2 DEF Share, Smaller, Larger
<1>3. merged \in Seq(S) /\ Len(merged) = a
  <2>1. merged \in Seq(S) /\ Merges(merged, rated, none)
    BY InterleaveIs
  <2> HIDE DEF merged
  <2>2. QED  BY <1>1, <2>1 DEF Merges
<1>4. ASSUME NEW p \in 1..a PROVE merged[p] = rated[p]
  <2>1. p \in 0..a /\ p - 1 \in 0..a /\ p \in 1..(Len(rated) + Len(none))
    BY <1>1
  <2>2. Share(a, Len(none), p) = 0 /\ Share(a, Len(none), p - 1) = 0
    BY <1>2, <2>1
  <2> DEFINE k == Share(Len(rated), Len(none), p)
             l == Share(Len(rated), Len(none), p - 1)
  <2>3. merged[p] = IF k > l THEN none[k] ELSE rated[p - k]
    BY ONLY <2>1, InterleaveAt, rated \in Seq(S), none \in Seq(S)
  <2>4. k = 0 /\ l = 0
    BY <2>2
  <2> HIDE DEF k, l, merged
  <2>5. QED  BY <2>1, <2>3, <2>4
<1> HIDE DEF merged
<1>5. merged = rated
  BY <1>3, <1>4, SeqEqual
<1>6. QED  BY <1>5 DEF merged

-----------------------------------------------------------------------------
(* What queries find                                                       *)

LEMMA OneGroupIs ==
  ASSUME NEW S
  PROVE  OneGroup(S) \in [S -> Nat] /\ \A m \in S : OneGroup(S)[m] = 1
BY DEF OneGroup

LEMMA TopIs ==
  ASSUME NEW S \in SUBSET Memories, NEW f \in Fields, NEW limit \in Nat
  PROVE  LET found == Top(S, f, limit) IN
         /\ found \in SUBSET S /\ IsFiniteSet(found) /\ Cardinality(found) \in Nat
         /\ Cardinality(S) <= limit => found = S
         /\ Cardinality(found) < limit => found = S
<1> DEFINE group == OneGroup(S)
           found == Top(S, f, limit)
           list == Arranged(group, f)
           n == Cardinality(S)
<1>1. group \in [S -> Nat]
  BY OneGroupIs
<1> HIDE DEF group
<1>2. /\ IsFiniteSet(S) /\ n \in Nat
      /\ \A m \in S : Place(group, f, m) \in 1..n
      /\ \A i \in 1..n : list[i] \in S /\ Place(group, f, list[i]) = i
  BY <1>1, ArrangedIs
<1>3. \A m \in S : /\ Cardinality(Ahead(group, f, m)) \in Nat
                   /\ Place(group, f, m) = Cardinality(Ahead(group, f, m)) + 1
  <2> SUFFICES ASSUME NEW m \in S PROVE Cardinality(Ahead(group, f, m)) \in Nat
    BY DEF Place
  <2>1. Ahead(group, f, m) \in SUBSET S
    BY <1>1 DEF Ahead
  <2>2. QED  BY <1>2, <2>1, FS_Subset, FS_CardinalityType
<1>4. found = {m \in S : Cardinality(Ahead(group, f, m)) < limit}
  BY DEF Top, group
<1> HIDE DEF found, list
<1>5. IsFiniteSet(found) /\ Cardinality(found) \in Nat
  BY <1>2, <1>4, FS_Subset, FS_CardinalityType
<1>6. n <= limit => found = S
  <2> SUFFICES ASSUME n <= limit, NEW m \in S PROVE Cardinality(Ahead(group, f, m)) < limit
    BY <1>4
  <2> HIDE DEF n
  <2>1. QED  BY <1>2, <1>3
<1>7. Cardinality(found) < limit => found = S
  <2> SUFFICES ASSUME limit < n PROVE limit <= Cardinality(found)
    BY <1>2, <1>5, <1>6
  <2> DEFINE first == [i \in 1..limit |-> list[i]]
  <2> HIDE DEF n
  <2>1. \A i \in 1..limit : i \in 1..n /\ list[i] \in found
    <3> SUFFICES ASSUME NEW i \in 1..limit PROVE i \in 1..n /\ list[i] \in found
      OBVIOUS
    <3>1. i \in 1..n
      BY <1>2
    <3>2. list[i] \in S /\ Place(group, f, list[i]) = i
      BY <1>2, <3>1
    <3>3. Cardinality(Ahead(group, f, list[i])) < limit
      BY <1>3, <3>2
    <3>4. QED  BY <1>4, <3>1, <3>2, <3>3
  <2>2. \A i, j \in 1..limit : list[i] = list[j] => i = j
    BY <1>2, <2>1
  <2>3. first \in [1..limit -> found] /\ \A i \in 1..limit : first[i] = list[i]
    BY <2>1
  <2> HIDE DEF first
  <2>4. first \in Injection(1..limit, found)
    BY <2>2, <2>3, Fun_IsInj
  <2>5. Cardinality(1..limit) <= Cardinality(found)
    BY <1>5, <2>4, FS_Injection
  <2>6. Cardinality(1..limit) = limit
    BY FS_Interval
  <2>7. QED  BY <2>5, <2>6
<1>8. QED  BY <1>4, <1>5, <1>6, <1>7 DEF found, n

\* A query for those of S, of which E is not wanted, finds m, if few enough of the
\* wanted are ahead of m in a list.
LEMMA TopHas ==
  ASSUME NEW U \in SUBSET Memories, NEW group \in [U -> Nat], NEW f \in Fields,
         NEW E \in SUBSET Memories, NEW S \in SUBSET (U \cup E), NEW m \in S \cap U,
         \A x \in S \cap U : group[x] <= group[m],
         NEW n \in Nat, Cardinality(Ahead(group, f, m)) < n,
         NEW limit \in Nat, n + Cardinality(E) <= limit
  PROVE  m \in Top(S, f, limit)
<1> DEFINE A == Ahead(group, f, m)
           B == Ahead(OneGroup(S), f, m)
<1>1. IsFiniteSet(E) /\ Cardinality(E) \in Nat
  BY FS_Subset, FS_CardinalityType, ListingsAssumption
<1>2. IsFiniteSet(A) /\ Cardinality(A) \in Nat
  <2>1. A \in SUBSET Memories
    BY DEF Ahead
  <2>2. QED  BY <2>1, FS_Subset, FS_CardinalityType, ListingsAssumption
<1>3. B \in SUBSET (A \cup E)
  <2> SUFFICES ASSUME NEW x \in B, x \notin E PROVE x \in A
    OBVIOUS
  <2>1. x \in S /\ Order[f][x] < Order[f][m]
    BY DEF Ahead, OneGroup
  <2>2. x \in U /\ group[x] <= group[m] /\ group[x] \in Nat /\ group[m] \in Nat
    BY <2>1
  <2>3. QED  BY <2>1, <2>2 DEF Ahead
<1> HIDE DEF A, B
<1>4. /\ IsFiniteSet(A \cup E)
      /\ Cardinality(A \cup E) = Cardinality(A) + Cardinality(E) - Cardinality(A \cap E)
  BY <1>1, <1>2, FS_Union
<1>5. Cardinality(A \cap E) \in Nat
  BY <1>2, FS_Intersection, FS_CardinalityType
<1>6. Cardinality(B) <= Cardinality(A \cup E) /\ IsFiniteSet(B)
  BY <1>3, <1>4, FS_Subset
<1>7. Cardinality(B) < limit
  <2>1. Cardinality(A) < n
    BY DEF A
  <2>2. Cardinality(B) \in Nat
    BY <1>6, FS_CardinalityType
  <2>3. QED  BY <1>1, <1>2, <1>4, <1>5, <1>6, <2>1, <2>2
<1>8. QED  BY <1>7 DEF Top, B

LEMMA SortedAgree ==
  ASSUME NEW S \in SUBSET Memories, NEW f \in Fields, NEW n \in Nat, NEW T \in SUBSET S,
         \A m \in S : Cardinality(Ahead(OneGroup(S), f, m)) < n => m \in T
  PROVE  Agree(Sorted(S, f), Sorted(T, f), n)
<1> DEFINE group == OneGroup(S)
           found == OneGroup(T)
<1>1. group \in [S -> Nat] /\ \A m \in S : group[m] = 1
  BY OneGroupIs
<1>2. found \in [T -> Nat] /\ \A m \in T : found[m] = 1
  BY OneGroupIs
<1>3. \A m \in S : Cardinality(Ahead(group, f, m)) < n => m \in T
  OBVIOUS
<1> HIDE DEF group, found
<1>4. \A m \in T : group[m] <= found[m]
  BY <1>1, <1>2
<1>5. \A m \in S : Cardinality(Ahead(group, f, m)) < n => m \in T /\ found[m] = group[m]
  BY <1>1, <1>2, <1>3
<1>6. Agree(Arranged(group, f), Arranged(found, f), n)
  BY <1>1, <1>2, <1>4, <1>5, ArrangedAgree
<1>7. QED  BY <1>6 DEF Sorted, group, found

LEMMA TopFinds ==
  ASSUME NEW S \in SUBSET Memories, NEW f \in Fields, NEW n \in Nat,
         NEW E \in SUBSET Memories, NEW limit \in Nat, n + Cardinality(E) <= limit
  PROVE  \A m \in S \ E :
           Cardinality(Ahead(OneGroup(S \ E), f, m)) < n => m \in Top(S, f, limit) \ E
<1> DEFINE U == S \ E
           T == Top(S, f, limit) \ E
           group == OneGroup(U)
<1>1. group \in [U -> Nat] /\ \A m \in U : group[m] = 1
  BY OneGroupIs
<1>2. U \in SUBSET Memories
  OBVIOUS
<1> HIDE DEF group
<1>3. ASSUME NEW m \in U, Cardinality(Ahead(group, f, m)) < n PROVE m \in T
  <2>1. S \in SUBSET (U \cup E) /\ m \in S \cap U
    OBVIOUS
  <2>2. \A x \in S \cap U : group[x] <= group[m]
    BY <1>1
  <2>3. m \in Top(S, f, limit)
    BY <1>1, <1>2, <1>3, <2>1, <2>2, TopHas
  <2>4. QED  BY <2>3
<1>4. QED  BY <1>3 DEF group

LEMMA TopAgree ==
  ASSUME NEW S \in SUBSET Memories, NEW f \in Fields, NEW n \in Nat,
         NEW E \in SUBSET Memories, NEW limit \in Nat, n + Cardinality(E) <= limit
  PROVE  Agree(Sorted(S \ E, f), Sorted(Top(S, f, limit) \ E, f), n)
<1> DEFINE U == S \ E
           T == Top(S, f, limit) \ E
<1>1. T \in SUBSET U /\ U \in SUBSET Memories
  BY DEF Top
<1>2. \A m \in U : Cardinality(Ahead(OneGroup(U), f, m)) < n => m \in T
  BY TopFinds
<1> HIDE DEF U, T
<1>3. Agree(Sorted(U, f), Sorted(T, f), n)
  BY <1>1, <1>2, SortedAgree
<1>4. QED  BY <1>3 DEF U, T

\* As far as the nearest agree, so do those near enough, which come before all others.
LEMMA NearAgree ==
  ASSUME NEW S \in SUBSET Memories, NEW T \in SUBSET S, NEW n \in Nat,
         \A m \in S : Cardinality(Ahead(OneGroup(S), "distance", m)) < n => m \in T
  PROVE  Agree(Sorted(S \cap Near, "distance"), Sorted(T \cap Near, "distance"), n)
<1> DEFINE U == S \cap Near
           R == T \cap Near
<1>1. U \in SUBSET Memories /\ R \in SUBSET U
  OBVIOUS
<1>2. ASSUME NEW m \in U PROVE Ahead(OneGroup(U), "distance", m) = Ahead(OneGroup(S), "distance", m)
  <2>1. ASSUME NEW x \in S, Order["distance"][x] < Order["distance"][m] PROVE x \in U
    <3>1. Order["distance"][x] \in Nat /\ Order["distance"][m] \in Nat
      BY ListingsAssumption DEF Fields
    <3>2. x \notin Near => Order["distance"][m] < Order["distance"][x]
      BY ListingsAssumption
    <3>3. QED  BY <2>1, <3>1, <3>2
  <2>2. U \subseteq S
    OBVIOUS
  <2> HIDE DEF U
  <2>3. QED  BY <2>1, <2>2 DEF Ahead, OneGroup
<1>3. \A m \in U : Cardinality(Ahead(OneGroup(U), "distance", m)) < n => m \in R
  BY <1>2
<1>4. "distance" \in Fields
  BY DEF Fields
<1> HIDE DEF U, R
<1>5. Agree(Sorted(U, "distance"), Sorted(R, "distance"), n)
  BY <1>1, <1>3, <1>4, SortedAgree
<1>6. QED  BY <1>5 DEF U, R

-----------------------------------------------------------------------------
(* What the collections return                                             *)

LEMMA ColsAre ==
  ASSUME NEW cols \in Sources \cup {<<Own>>}
  PROVE  /\ Len(cols) \in Nat \ {0} /\ DOMAIN cols = 1..Len(cols)
         /\ \A i \in DOMAIN cols : cols[i] \in ToSet(cols)
         /\ \A c \in ToSet(cols) : \E i \in DOMAIN cols : cols[i] = c
         /\ cols \in Sources => cols # <<Own>> /\ ToSet(cols) \subseteq ToSet(Precedence)
<1>1. \A c \in ToSet(cols) : \E i \in DOMAIN cols : cols[i] = c
  BY DEF ToSet
<1>2. \A i \in DOMAIN cols : cols[i] \in ToSet(cols)
  BY DEF ToSet
<1>3. CASE cols \in Sources
  <2>1. cols \in Seq(ToSet(Precedence)) /\ cols # <<>>
    BY <1>3, ListingsAssumption
  <2>2. Len(cols) \in Nat \ {0} /\ DOMAIN cols = 1..Len(cols)
    BY <2>1
  <2>3. \A i \in DOMAIN cols : cols[i] \in ToSet(Precedence)
    BY <2>1
  <2>4. cols # <<Own>>
    <3>1. SUFFICES ASSUME cols = <<Own>> PROVE FALSE
      OBVIOUS
    <3>2. 1 \in DOMAIN cols /\ cols[1] = Own
      BY <3>1
    <3>3. QED  BY <2>3, <3>2, ListingsAssumption
  <2>5. ToSet(cols) \subseteq ToSet(Precedence)
    BY <1>1, <2>3
  <2>6. QED  BY <1>1, <1>2, <2>2, <2>4, <2>5
<1>4. CASE cols = <<Own>> /\ cols \notin Sources
  <2>1. Len(cols) = 1 /\ DOMAIN cols = 1..1
    BY <1>4
  <2>2. QED  BY <1>1, <1>2, <1>4, <2>1
<1>5. QED  BY <1>3, <1>4

LEMMA FetchIs ==
  ASSUME NEW cols \in Sources, held \in [ToSet(cols) -> SUBSET Memories],
         NEW f \in Fields, NEW S \in SUBSET Memories, NEW fetchLimit \in Nat
  PROVE  LET objects == FetchAcrossCollections(cols, f, S, fetchLimit) IN
         /\ \A o \in objects : /\ o = [id |-> o.id, from |-> o.from]
                               /\ o.from \in DOMAIN cols
                               /\ o.id \in Top(held[cols[o.from]] \cap S, f, fetchLimit)
                               /\ o.id \in held[cols[o.from]] /\ o.id \in S
         /\ \A i \in DOMAIN cols : \A m \in Top(held[cols[i]] \cap S, f, fetchLimit) :
              [id |-> m, from |-> i] \in objects
<1> DEFINE found(i) == Top(held[cols[i]] \cap S, f, fetchLimit)
           objects == UNION {{[id |-> m, from |-> i] : m \in found(i)} : i \in DOMAIN cols}
<1>1. FetchAcrossCollections(cols, f, S, fetchLimit) = objects
  BY DEF FetchAcrossCollections
<1>2. \A i \in DOMAIN cols : found(i) \subseteq held[cols[i]] \cap S
  BY DEF Top
<1> HIDE DEF found
<1>3. ASSUME NEW o \in objects
      PROVE  \E i \in DOMAIN cols, m \in Memories : m \in found(i) /\ o = [id |-> m, from |-> i]
  <2>1. PICK i \in DOMAIN cols : o \in {[id |-> m, from |-> i] : m \in found(i)}
    OBVIOUS
  <2>2. PICK m \in found(i) : o = [id |-> m, from |-> i]
    BY <2>1
  <2>3. m \in Memories
    BY <1>2
  <2>4. QED  BY <2>2, <2>3
<1>4. ASSUME NEW i \in DOMAIN cols, NEW m \in found(i)
      PROVE  [id |-> m, from |-> i] \in objects
  OBVIOUS
<1> HIDE DEF objects
<1>5. ASSUME NEW o \in objects
      PROVE  /\ o = [id |-> o.id, from |-> o.from]
             /\ o.from \in DOMAIN cols /\ o.id \in found(o.from)
             /\ o.id \in held[cols[o.from]] /\ o.id \in S
  <2>1. PICK i \in DOMAIN cols, m \in Memories : m \in found(i) /\ o = [id |-> m, from |-> i]
    BY <1>3
  <2>2. o.id = m /\ o.from = i
    BY <2>1
  <2>3. QED  BY <1>2, <2>1, <2>2
<1>6. QED  BY <1>1, <1>4, <1>5 DEF found

\* There are at most as many copies as memories in as many collections; and as many
\* as any collection returned.
LEMMA FetchFinite ==
  ASSUME NEW cols \in Sources, held \in [ToSet(cols) -> SUBSET Memories],
         NEW f \in Fields, NEW S \in SUBSET Memories, NEW fetchLimit \in Nat
  PROVE  LET objects == FetchAcrossCollections(cols, f, S, fetchLimit) IN
         /\ IsFiniteSet(objects) /\ Cardinality(objects) \in Nat
         /\ Cardinality(objects) <= Cardinality(Memories) * Len(cols)
<1> DEFINE objects == FetchAcrossCollections(cols, f, S, fetchLimit)
           pairs == Memories \X (1..Len(cols))
           pair == [o \in objects |-> <<o.id, o.from>>]
<1>1. \A o \in objects : /\ o = [id |-> o.id, from |-> o.from]
                         /\ o.from \in 1..Len(cols) /\ o.id \in Memories
  <2>1. DOMAIN cols = 1..Len(cols)
    BY ColsAre
  <2> HIDE DEF objects
  <2>2. \A o \in objects : /\ o = [id |-> o.id, from |-> o.from]
                           /\ o.from \in DOMAIN cols /\ o.id \in S
    BY FetchIs DEF objects
  <2>3. QED  BY <2>1, <2>2
<1>2. IsFiniteSet(pairs) /\ Cardinality(pairs) = Cardinality(Memories) * Len(cols)
  <2>1. Len(cols) \in Nat
    BY ColsAre
  <2>2. IsFiniteSet(1..Len(cols)) /\ Cardinality(1..Len(cols)) = Len(cols)
    BY <2>1, UpTo
  <2>3. QED  BY <2>2, FS_Product, ListingsAssumption
<1> HIDE DEF objects
<1>3. pair \in [objects -> pairs] /\ \A o \in objects : pair[o] = <<o.id, o.from>>
  BY <1>1
<1> HIDE DEF pair, pairs
<1>4. \A a, b \in objects : pair[a] = pair[b] => a = b
  <2> SUFFICES ASSUME NEW a \in objects, NEW b \in objects, pair[a] = pair[b] PROVE a = b
    OBVIOUS
  <2>1. a.id = b.id /\ a.from = b.from
    BY <1>3
  <2>2. QED  BY <1>1, <2>1
<1>5. pair \in Injection(objects, pairs)
  BY <1>3, <1>4, Fun_IsInj
<1>6. IsFiniteSet(objects) /\ Cardinality(objects) <= Cardinality(pairs)
  BY <1>2, <1>5, FS_Injection
<1>7. QED  BY <1>2, <1>6, FS_CardinalityType DEF objects

\* What is counted of the copies is among them, with every copy from one collection.
HoldsFrom(counted, objects, i) ==
  counted \in SUBSET objects /\ \A o \in objects : o.from = i => o \in counted

\* A collection of those counted that returned all there were asked for has filled
\* the count.
LEMMA FetchCut ==
  ASSUME NEW cols \in Sources, held \in [ToSet(cols) -> SUBSET Memories],
         NEW f \in Fields, NEW S \in SUBSET Memories, NEW fetchLimit \in Nat,
         NEW i \in DOMAIN cols, NEW counted,
         HoldsFrom(counted, FetchAcrossCollections(cols, f, S, fetchLimit), i)
  PROVE  /\ Cardinality(counted) \in Nat
         /\ Cardinality(counted) < fetchLimit =>
              Top(held[cols[i]] \cap S, f, fetchLimit) = held[cols[i]] \cap S
<1> DEFINE objects == FetchAcrossCollections(cols, f, S, fetchLimit)
           found == Top(held[cols[i]] \cap S, f, fetchLimit)
           copy == [m \in found |-> [id |-> m, from |-> i]]
<1>1. \A m \in found : [id |-> m, from |-> i] \in objects
  BY FetchIs
<1>2. counted \in SUBSET objects /\ \A m \in found : [id |-> m, from |-> i] \in counted
  BY <1>1 DEF HoldsFrom
<1>3. IsFiniteSet(counted) /\ Cardinality(counted) \in Nat
  <2>1. IsFiniteSet(objects)
    BY FetchFinite
  <2>2. QED  BY <1>2, <2>1, FS_Subset, FS_CardinalityType
<1>4. copy \in [found -> counted] /\ \A m \in found : copy[m] = [id |-> m, from |-> i]
  BY <1>2
<1>5. held[cols[i]] \cap S \in SUBSET Memories
  OBVIOUS
<1> HIDE DEF copy, found
<1>6. \A m, x \in found : copy[m] = copy[x] => m = x
  <2> SUFFICES ASSUME NEW m \in found, NEW x \in found, copy[m] = copy[x] PROVE m = x
    OBVIOUS
  <2>1. copy[m].id = m /\ copy[x].id = x
    BY <1>4
  <2>2. QED  BY <2>1
<1>7. copy \in Injection(found, counted)
  BY <1>4, <1>6, Fun_IsInj
<1>8. Cardinality(found) <= Cardinality(counted)
  BY <1>3, <1>7, FS_Injection
<1>9. /\ Cardinality(found) \in Nat
      /\ Cardinality(found) < fetchLimit => found = held[cols[i]] \cap S
  BY <1>5, TopIs DEF found
<1>10. Cardinality(counted) < fetchLimit => found = held[cols[i]] \cap S
  BY <1>3, <1>8, <1>9
<1>11. QED  BY <1>3, <1>10 DEF found

Copies(objects, cols) ==
  \A o \in objects : o = [id |-> o.id, from |-> o.from] /\ o.from \in DOMAIN cols

\* No other copy of a memory is left, so deduplication by source has nothing to do.
LEMMA DedupePoolIs ==
  ASSUME NEW cols \in Sources, NEW objects, Copies(objects, cols),
         NEW S, \A o \in objects : o.id \in S
  PROVE  LET pool == Unblocked(DedupeBySourceId(cols, DedupePool(objects))) IN
         /\ pool \subseteq objects
         /\ \A o, p \in pool : o.id = p.id => o = p
         /\ \A o \in pool, p \in objects : o.id = p.id => o.from <= p.from
         /\ S \cap Blocked = {} => Ids(pool) = Ids(objects)
<1> DEFINE D == DedupePool(objects)
           pool == Unblocked(DedupeBySourceId(cols, D))
<1>1. \A o \in objects : o.from \in Nat
  BY ColsAre DEF Copies
<1>2. \A o \in D : o \in objects /\ \A p \in objects : p.id = o.id => o.from <= p.from
  BY DEF DedupePool
<1>3. ASSUME NEW o \in objects, \A p \in objects : p.id = o.id => o.from <= p.from PROVE o \in D
  BY <1>3 DEF DedupePool
<1> HIDE DEF D
<1>4. ASSUME NEW o \in D, NEW p \in D, o.id = p.id PROVE o = p
  <2>1. o.from <= p.from /\ p.from <= o.from
    BY <1>2, <1>4
  <2>2. o.from = p.from
    BY <1>1, <1>2, <2>1
  <2>3. QED  BY <1>2, <1>4, <2>2 DEF Copies
<1>5. pool = {o \in D : o.id \notin Blocked}
  BY <1>4 DEF Unblocked, DedupeBySourceId
<1> HIDE DEF pool
<1>6. ASSUME S \cap Blocked = {}, NEW o \in objects PROVE \E p \in pool : p.id = o.id
  <2> DEFINE F == {i \in Nat : \E p \in objects : p.id = o.id /\ p.from = i}
  <2>1. F \in SUBSET Nat /\ o.from \in F
    BY <1>1
  <2>2. \A i \in F : \E p \in objects : p.id = o.id /\ p.from = i
    OBVIOUS
  <2>3. \A p \in objects : p.id = o.id => p.from \in F
    BY <1>1
  <2> HIDE DEF F
  <2>4. PICK i \in F : \A j \in F : i <= j
    BY <2>1, LeastNumber
  <2>5. PICK p \in objects : p.id = o.id /\ p.from = i
    BY <2>2
  <2>6. p \in D
    BY <1>3, <2>3, <2>4, <2>5
  <2>7. QED  BY <1>5, <1>6, <2>5, <2>6
<1>7. S \cap Blocked = {} => Ids(pool) = Ids(objects)
  BY <1>2, <1>5, <1>6 DEF Ids
<1>8. QED  BY <1>2, <1>4, <1>5, <1>7 DEF pool, D

\* If all copies of a memory are from one collection, deduplication by source keeps
\* the last of them.
LEMMA DedupeBySourceIs ==
  ASSUME NEW cols \in Sources, NEW objects, Copies(objects, cols),
         \A o, p \in objects : o.id = p.id => cols[o.from] = cols[p.from]
  PROVE  Ids(DedupeBySourceId(cols, objects)) = Ids(objects)
<1> DEFINE kept == DedupeBySourceId(cols, objects)
<1>1. Len(cols) \in Nat /\ \A o \in objects : o.from \in Nat /\ o.from <= Len(cols)
  BY ColsAre DEF Copies
<1>2. \A o \in objects : ShouldPrefer(cols[o.from], cols[o.from])
  <2> SUFFICES ASSUME NEW o \in objects PROVE ShouldPrefer(cols[o.from], cols[o.from])
    OBVIOUS
  <2>1. cols[o.from] \in ToSet(Precedence)
    BY ColsAre DEF Copies
  <2>2. \E i \in DOMAIN Precedence : Precedence[i] = cols[o.from]
    BY <2>1 DEF ToSet
  <2>3. DOMAIN Precedence \subseteq Nat
    BY ListingsAssumption
  <2> DEFINE i == CHOOSE i \in DOMAIN Precedence : Precedence[i] = cols[o.from]
  <2>4. i \in Nat
    BY <2>2, <2>3
  <2> HIDE DEF i
  <2>5. i <= i
    BY <2>4
  <2>6. QED  BY <2>5 DEF ShouldPrefer, i
<1>3. kept = {o \in objects : \A p \in objects : p.id = o.id /\ p # o =>
                p.from < o.from /\ ShouldPrefer(cols[o.from], cols[p.from])}
  BY DEF DedupeBySourceId
<1> HIDE DEF kept
<1>4. ASSUME NEW o \in objects PROVE \E p \in kept : p.id = o.id
  <2> DEFINE F == {i \in Nat : \E p \in objects : p.id = o.id /\ p.from = i}
  <2>1. F \in SUBSET Nat /\ o.from \in F
    BY <1>1
  <2>2. \A i \in F : \E p \in objects : p.id = o.id /\ p.from = i
    OBVIOUS
  <2>3. \A p \in objects : p.id = o.id => p.from \in F
    BY <1>1
  <2>4. \A i \in F : i <= Len(cols)
    BY <1>1, <2>2
  <2> HIDE DEF F
  <2>5. PICK i \in F : \A j \in F : j <= i
    BY <1>1, <2>1, <2>4, GreatestNumber
  <2>6. PICK p \in objects : p.id = o.id /\ p.from = i
    BY <2>2
  <2>7. ASSUME NEW r \in objects, r.id = p.id, r # p
        PROVE  r.from < p.from /\ ShouldPrefer(cols[p.from], cols[r.from])
    <3>1. r.from <= p.from
      BY <2>3, <2>5, <2>6, <2>7
    <3>2. r.from # p.from
      BY <2>7 DEF Copies
    <3>3. ShouldPrefer(cols[p.from], cols[r.from])
      BY <1>2, <2>7
    <3>4. QED  BY <1>1, <3>1, <3>2, <3>3
  <2>8. QED  BY <1>3, <2>6, <2>7
<1>5. QED  BY <1>3, <1>4 DEF Ids, kept

-----------------------------------------------------------------------------
(* The whole of a listing: what its pages are cut from, with the memories  *)
(* and marks there are, if the pages fit together.                         *)

\* A list has the memories of S, each once.
Lists(s, S) ==
  /\ s \in Seq(Memories) /\ Len(s) \in Nat
  /\ Distinct(s)
  /\ \A i \in 1..Len(s) : s[i] \in S
  /\ \A m \in S : \E i \in 1..Len(s) : s[i] = m

LEMMA ArrangedLists ==
  ASSUME NEW S \in SUBSET Memories, NEW group \in [S -> Nat], NEW f \in Fields
  PROVE  /\ Lists(Arranged(group, f), S)
         /\ Len(Arranged(group, f)) = Cardinality(S)
<1> DEFINE list == Arranged(group, f)
           n == Cardinality(S)
<1>1. /\ n \in Nat
      /\ list \in Seq(S) /\ Len(list) = n
      /\ \A m \in S : Place(group, f, m) \in 1..n /\ list[Place(group, f, m)] = m
      /\ \A i \in 1..n : list[i] \in S /\ Place(group, f, list[i]) = i
  BY ArrangedIs
<1> HIDE DEF list, n
<1>2. list \in Seq(Memories)
  BY <1>1
<1>3. Distinct(list)
  BY <1>1 DEF Distinct
<1>4. QED  BY <1>1, <1>2, <1>3 DEF Lists, list, n

LEMMA ListsLength ==
  ASSUME NEW S \in SUBSET Memories, NEW s, Lists(s, S)
  PROVE  Len(s) = Cardinality(S)
<1> DEFINE n == Len(s)
<1>1. /\ n \in Nat /\ s \in Seq(Memories)
      /\ \A i \in 1..n : s[i] \in S
      /\ \A i, j \in 1..n : s[i] = s[j] => i = j
      /\ \A m \in S : \E i \in 1..n : s[i] = m
  BY DEF Lists, Distinct
<1>2. s \in [1..n -> Memories]
  BY <1>1
<1> HIDE DEF n
<1>3. s \in [1..n -> S]
  BY <1>1, <1>2
<1>4. s \in Injection(1..n, S)
  BY <1>1, <1>3, Fun_IsInj
<1>5. s \in Surjection(1..n, S)
  BY <1>1, <1>3, Fun_IsSurj
<1>6. IsFiniteSet(1..n) /\ Cardinality(1..n) = n
  BY <1>1, UpTo
<1>7. Cardinality(S) = n
  BY <1>4, <1>5, <1>6, FS_Surjection
<1>8. QED  BY <1>7 DEF n

LEMMA SortedLists ==
  ASSUME NEW S \in SUBSET Memories, NEW f \in Fields
  PROVE  Lists(Sorted(S, f), S) /\ Len(Sorted(S, f)) = Cardinality(S)
BY OneGroupIs, ArrangedLists DEF Sorted

LEMMA InterleaveLists ==
  ASSUME NEW A, NEW B, A \cap B = {},
         NEW rated, NEW discovery, Lists(rated, A), Lists(discovery, B)
  PROVE  /\ Lists(InterleaveDiscovery(rated, discovery), A \cup B)
         /\ Len(InterleaveDiscovery(rated, discovery)) = Len(rated) + Len(discovery)
<1> DEFINE a == Len(rated)
           b == Len(discovery)
           merged == InterleaveDiscovery(rated, discovery)
<1>1. rated \in Seq(Memories) /\ discovery \in Seq(Memories) /\ Distinct(rated) /\ Distinct(discovery)
  BY DEF Lists
<1>2. merged \in Seq(Memories) /\ Merges(merged, rated, discovery)
  BY <1>1, InterleaveIs
<1>3. \A j \in 1..a, k \in 1..b : rated[j] # discovery[k]
  BY DEF Lists
<1>4. Distinct(merged)
  BY <1>1, <1>3, InterleaveDistinct
<1> HIDE DEF merged
<1>5. /\ a \in Nat /\ b \in Nat /\ Len(merged) = a + b
      /\ \A p \in 1..(a + b) :
           \/ \E k \in 1..b : merged[p] = discovery[k]
           \/ \E j \in 1..a : merged[p] = rated[j]
      /\ \A k \in 1..b : \E p \in 1..(a + b) : merged[p] = discovery[k]
      /\ \A j \in 1..a : \E p \in 1..(a + b) : merged[p] = rated[j]
  BY <1>2 DEF Merges
<1>6. /\ \A j \in 1..a : rated[j] \in A
      /\ \A k \in 1..b : discovery[k] \in B
      /\ \A m \in A : \E j \in 1..a : rated[j] = m
      /\ \A m \in B : \E k \in 1..b : discovery[k] = m
  BY DEF Lists
<1> HIDE DEF a, b
<1>7. ASSUME NEW p \in 1..(a + b) PROVE merged[p] \in A \cup B
  <2>1. CASE \E k \in 1..b : merged[p] = discovery[k]
    BY <1>6, <2>1
  <2>2. CASE \E j \in 1..a : merged[p] = rated[j]
    BY <1>6, <2>2
  <2>3. QED  BY <1>5, <2>1, <2>2
<1>8. ASSUME NEW m \in A \cup B PROVE \E p \in 1..(a + b) : merged[p] = m
  <2>1. CASE m \in A
    <3>1. PICK j \in 1..a : rated[j] = m
      BY <1>6, <2>1
    <3>2. QED  BY <1>5, <3>1
  <2>2. CASE m \in B
    <3>1. PICK k \in 1..b : discovery[k] = m
      BY <1>6, <2>2
    <3>2. QED  BY <1>5, <3>1
  <2>3. QED  BY <2>1, <2>2
<1>9. QED  BY <1>2, <1>4, <1>5, <1>7, <1>8 DEF Lists, merged, a, b

\* The first of the collections that have m.
First(cols, h, m) ==
  CHOOSE i \in DOMAIN cols : /\ m \in h[cols[i]]
                             /\ \A j \in DOMAIN cols : m \in h[cols[j]] => i <= j

LEMMA HeldIs ==
  ASSUME NEW cols \in Sources \cup {<<Own>>}, NEW h \in [ToSet(cols) -> SUBSET Memories]
  PROVE  /\ Listed(h) \in SUBSET Memories
         /\ \A i \in DOMAIN cols : h[cols[i]] \in SUBSET Listed(h)
         /\ \A m \in Listed(h) : /\ First(cols, h, m) \in DOMAIN cols
                                 /\ First(cols, h, m) \in Nat
                                 /\ m \in h[cols[First(cols, h, m)]]
                                 /\ \A j \in DOMAIN cols :
                                      m \in h[cols[j]] => First(cols, h, m) <= j
<1>1. /\ DOMAIN cols \subseteq Nat /\ \A i \in DOMAIN cols : cols[i] \in ToSet(cols)
      /\ \A c \in ToSet(cols) : \E i \in DOMAIN cols : cols[i] = c
  BY ColsAre
<1>2. Listed(h) = UNION {h[c] : c \in ToSet(cols)}
  BY DEF Listed
<1>3. Listed(h) \in SUBSET Memories /\ \A i \in DOMAIN cols : h[cols[i]] \in SUBSET Listed(h)
  BY <1>1, <1>2
<1>4. ASSUME NEW m \in Listed(h)
      PROVE  \E i \in DOMAIN cols : /\ m \in h[cols[i]]
                                    /\ \A j \in DOMAIN cols : m \in h[cols[j]] => i <= j
  <2> DEFINE F == {i \in DOMAIN cols : m \in h[cols[i]]}
  <2>1. PICK c \in ToSet(cols) : m \in h[c]
    BY <1>2
  <2>2. F \in SUBSET Nat /\ F # {}
    BY <1>1, <2>1
  <2>3. PICK i \in F : \A j \in F : i <= j
    BY <2>2, LeastNumber
  <2>4. QED  BY <2>3
<1>5. QED  BY <1>1, <1>3, <1>4 DEF First

LEMMA OwnHeld ==
  ASSUME NEW h \in [ToSet(<<Own>>) -> SUBSET Memories]
  PROVE  Listed(h) = h[Own] /\ DOMAIN h = {Own} /\ h[Own] \in SUBSET Memories
<1>1. ToSet(<<Own>>) = {Own}
  BY DEF ToSet
<1>2. QED  BY <1>1 DEF Listed

\* A pool of all memories of S that the collections have.
Pool(cols, h, S, f) == Arranged([m \in Listed(h) \cap S |-> First(cols, h, m)], f)

LEMMA PoolIs ==
  ASSUME NEW cols \in Sources \cup {<<Own>>}, NEW h \in [ToSet(cols) -> SUBSET Memories],
         NEW S \in SUBSET Memories, NEW f \in Fields
  PROVE  /\ [m \in Listed(h) \cap S |-> First(cols, h, m)] \in [Listed(h) \cap S -> Nat]
         /\ Lists(Pool(cols, h, S, f), Listed(h) \cap S)
<1>1. [m \in Listed(h) \cap S |-> First(cols, h, m)] \in [Listed(h) \cap S -> Nat]
  BY HeldIs
<1>2. Listed(h) \cap S \in SUBSET Memories
  BY HeldIs
<1>3. QED  BY <1>1, <1>2, ArrangedLists DEF Pool

Content(listing, h, rated) ==
  CASE listing = "byRecommendation" -> (Listed(h) \ rated) \cap Near
    [] listing = "byMyRatings" -> rated
    [] listing = "byMyRatingsSearch" -> Listed(h) \cap rated
    [] OTHER -> Listed(h)

SortOf(listing) ==
  CASE listing \in {"search", "byMyRatingsSearch"} -> "score"
    [] listing \in {"byTime", "byBroad", "byTimeSlice"} -> "created_at"
    [] listing = "byDensity" -> "relationship_count"
    [] listing = "byRating" -> "rating_bayesian"
    [] listing = "byProperty" -> "sort_field"
    [] listing \in {"byCurated", "byCuratedSearch"} -> "curated_score"
    [] listing = "byRecommendation" -> "distance"
    [] listing = "byMyRatings" -> "rated_at"

AscendingSlices(h) ==
  OfCounts(BuildEvenDensitySlices(
    Count[CHOOSE m \in Top(h[Own], "relationship_count", 1) : TRUE]))

Whole(listing, cols, h, rated) ==
  CASE listing = "byDiscovery" ->
         InterleaveDiscovery(Pool(cols, h, rated, "rating_bayesian"),
                             Pool(cols, h, Memories \ rated, "created_at"))
    [] listing = "byDensitySlice" -> SliceBySlice(h[Own], OfCounts(GradedDensitySlices))
    [] listing = "byDensitySliceAsc" -> SliceBySlice(h[Own], AscendingSlices(h))
    [] OTHER -> Sorted(Content(listing, h, rated), SortOf(listing))

\* The even slices have every count up to the highest.
LEMMA EvenSlicesCover ==
  ASSUME NEW highest \in Nat, NEW count \in 0..highest
  PROVE  LET slices == BuildEvenDensitySlices(highest) IN
         \E i \in DOMAIN slices : i \in Nat /\ count \in slices[i]
<1> DEFINE n == Smaller(DensityBuckets, highest + 1)
           w == highest + 1
           S == {i \in 1..n : count < (i * w) \div n}
<1>1. n \in Nat \ {0} /\ w \in Nat
  BY ListingsAssumption DEF Smaller
<1>2. BuildEvenDensitySlices(highest)
        = [i \in 1..n |-> (((i - 1) * w) \div n)..((i * w) \div n - 1)]
  BY DEF BuildEvenDensitySlices
<1> HIDE DEF n
<1>3. n \in S
  <2>1. n * w \in Nat /\ w * n <= n * w
    BY <1>1
  <2>2. w <= (n * w) \div n
    BY <1>1, <2>1, QuotientBounds
  <2>3. (n * w) \div n \in Nat
    BY <1>1, <2>1, Quotient
  <2>4. QED  BY <1>1, <2>2, <2>3
<1>4. S \in SUBSET Nat
  BY <1>1
<1>5. PICK i \in S : \A j \in S : i <= j
  BY <1>3, <1>4, LeastNumber
<1>6. i \in 1..n /\ i \in Nat /\ count < (i * w) \div n
  BY <1>1, <1>5
<1>7. \A j \in 1..n : count < (j * w) \div n => i <= j
  BY <1>5
<1> HIDE DEF S
<1>8. i * w \in Nat /\ (i - 1) * w \in Nat
  BY <1>1, <1>6
<1>9. (i * w) \div n \in Nat /\ ((i - 1) * w) \div n \in Nat
  BY <1>1, <1>8, Quotient
<1>10. ((i - 1) * w) \div n <= count
  <2>1. CASE i = 1
    <3>1. (i - 1) * w = 0
      BY <1>1, <2>1
    <3>2. 0 \div n <= 0
      BY <1>1, QuotientLess
    <3>3. ((i - 1) * w) \div n <= 0
      BY <3>1, <3>2
    <3>4. QED  BY <1>9, <3>3
  <2>2. CASE i # 1
    <3>1. i - 1 \in 1..n /\ ~ (i <= i - 1)
      BY <1>1, <1>6, <2>2
    <3>2. ~ (count < ((i - 1) * w) \div n)
      BY <1>7, <3>1
    <3>3. QED  BY <1>9, <3>2
  <2>3. QED  BY <2>1, <2>2
<1>11. count \in (((i - 1) * w) \div n)..((i * w) \div n - 1)
  BY <1>6, <1>9, <1>10
<1>12. QED  BY <1>2, <1>6, <1>11

LEMMA DensestIs ==
  ASSUME NEW S \in SUBSET Memories
  PROVE  LET densest == Top(S, "relationship_count", 1)
             d == CHOOSE m \in densest : TRUE IN
         /\ densest = {} <=> S = {}
         /\ densest # {} => d \in S /\ \A m \in S : Count[m] <= Count[d]
<1> DEFINE f == "relationship_count"
           densest == Top(S, f, 1)
           d == CHOOSE m \in densest : TRUE
<1>1. f \in Fields /\ 1 \in Nat
  BY DEF Fields
<1> HIDE DEF f
<1>2. densest \in SUBSET S /\ IsFiniteSet(densest) /\ Cardinality(densest) \in Nat
  BY <1>1, TopIs
<1>3. Cardinality(densest) < 1 => densest = S
  BY <1>1, TopIs
<1>4. densest = {} <=> S = {}
  BY <1>2, <1>3, FS_EmptySet
<1>5. ASSUME densest # {} PROVE d \in S /\ \A m \in S : Count[m] <= Count[d]
  <2>1. d \in densest
    BY <1>5
  <2> HIDE DEF d
  <2>2. d \in S /\ Cardinality(Ahead(OneGroup(S), f, d)) < 1
    BY <2>1 DEF Top
  <2>3. Ahead(OneGroup(S), f, d) = {}
    <3>1. Ahead(OneGroup(S), f, d) \in SUBSET Memories
      BY DEF Ahead, OneGroup
    <3>2. IsFiniteSet(Ahead(OneGroup(S), f, d))
      BY <3>1, FS_Subset, ListingsAssumption
    <3>3. Cardinality(Ahead(OneGroup(S), f, d)) = 0
      BY <2>2, <3>2, FS_CardinalityType
    <3>4. QED  BY <3>2, <3>3, FS_EmptySet
  <2>4. ASSUME NEW m \in S PROVE Count[m] <= Count[d]
    <3>1. Count[m] \in Nat /\ Count[d] \in Nat
      BY <2>2, ListingsAssumption
    <3>2. ~ (Order[f][m] < Order[f][d])
      BY <2>2, <2>3 DEF Ahead, OneGroup
    <3>3. ~ (Count[m] > Count[d])
      BY <2>2, <3>2, ListingsAssumption DEF f
    <3>4. QED  BY <3>1, <3>3
  <2>5. QED  BY <2>2, <2>4
<1>6. QED  BY <1>4, <1>5 DEF f

\* Slices in which every memory of S is.
Slices(slices, S) ==
  S # {} => DOMAIN slices \subseteq Nat /\ \A m \in S : \E i \in DOMAIN slices : m \in slices[i]

LEMMA GradedSlices ==
  ASSUME NEW S \in SUBSET Memories
  PROVE  Slices(TimeSlices, S) /\ Slices(OfCounts(GradedDensitySlices), S)
<1>1. DOMAIN TimeSlices \subseteq Nat /\ DOMAIN GradedDensitySlices \subseteq Nat
  BY ListingsAssumption
<1>2. \A m \in S : \E i \in DOMAIN TimeSlices : m \in TimeSlices[i]
  <2>1. S \subseteq UNION {TimeSlices[i] : i \in DOMAIN TimeSlices}
    BY ListingsAssumption DEF ToSet
  <2>2. QED  BY <2>1
<1>3. \A m \in S : \E i \in DOMAIN GradedDensitySlices : Count[m] \in GradedDensitySlices[i]
  <2>1. \A m \in S : Count[m] \in UNION {GradedDensitySlices[i] : i \in DOMAIN GradedDensitySlices}
    BY ListingsAssumption DEF ToSet
  <2>2. QED  BY <2>1
<1>4. QED  BY <1>1, <1>2, <1>3 DEF Slices, OfCounts

LEMMA EvenSlices ==
  ASSUME NEW S \in SUBSET Memories, NEW d \in S, \A m \in S : Count[m] <= Count[d]
  PROVE  Slices(OfCounts(BuildEvenDensitySlices(Count[d])), S)
<1> DEFINE slices == BuildEvenDensitySlices(Count[d])
<1>1. \A m \in S : Count[m] \in Nat
  BY ListingsAssumption
<1>2. DOMAIN slices \subseteq Nat
  BY <1>1, ListingsAssumption DEF BuildEvenDensitySlices, Smaller
<1>3. ASSUME NEW m \in S PROVE \E i \in DOMAIN slices : Count[m] \in slices[i]
  <2>1. Count[m] \in 0..Count[d]
    BY <1>1
  <2>2. Count[d] \in Nat
    BY <1>1
  <2>3. QED  BY <2>1, <2>2, EvenSlicesCover
<1> HIDE DEF slices
<1>4. Slices(OfCounts(slices), S)
  BY <1>2, <1>3 DEF Slices, OfCounts
<1>5. QED  BY <1>4 DEF slices

LEMMA SliceBySliceIs ==
  ASSUME NEW S \in SUBSET Memories, NEW slices, Slices(slices, S)
  PROVE  /\ [m \in S |-> CHOOSE i \in DOMAIN slices : m \in slices[i]] \in [S -> Nat]
         /\ Lists(SliceBySlice(S, slices), S)
         /\ Len(SliceBySlice(S, slices)) = Cardinality(S)
<1> DEFINE group == [m \in S |-> CHOOSE i \in DOMAIN slices : m \in slices[i]]
<1>1. group \in [S -> Nat]
  BY DEF Slices
<1>2. SliceBySlice(S, slices) = Arranged(group, "score") /\ "score" \in Fields
  BY DEF SliceBySlice, Fields
<1> HIDE DEF group
<1>3. Lists(Arranged(group, "score"), S) /\ Len(Arranged(group, "score")) = Cardinality(S)
  BY <1>1, <1>2, ArrangedLists
<1>4. QED  BY <1>1, <1>2, <1>3 DEF group

LEMMA AscendingSlicesAre ==
  ASSUME NEW h \in [ToSet(<<Own>>) -> SUBSET Memories]
  PROVE  Slices(AscendingSlices(h), h[Own]) \/ h[Own] = {}
<1> DEFINE densest == Top(h[Own], "relationship_count", 1)
           d == CHOOSE m \in densest : TRUE
<1>1. h[Own] \in SUBSET Memories
  BY OwnHeld
<1>2. SUFFICES ASSUME h[Own] # {} PROVE Slices(AscendingSlices(h), h[Own])
  OBVIOUS
<1>3. d \in h[Own] /\ \A m \in h[Own] : Count[m] <= Count[d]
  BY <1>1, <1>2, DensestIs
<1>4. AscendingSlices(h) = OfCounts(BuildEvenDensitySlices(Count[d]))
  BY DEF AscendingSlices
<1> HIDE DEF d
<1>5. QED  BY <1>1, <1>3, <1>4, EvenSlices

LEMMA WholeIs ==
  ASSUME NEW listing, NEW cols, NEW h, NEW rated
  PROVE  LET whole == Whole(listing, cols, h, rated) IN
         /\ listing = "byDiscovery" =>
              /\ Content(listing, h, rated) = Listed(h)
              /\ whole = InterleaveDiscovery(Pool(cols, h, rated, "rating_bayesian"),
                                             Pool(cols, h, Memories \ rated, "created_at"))
         /\ listing = "byDensitySlice" =>
              /\ Content(listing, h, rated) = Listed(h)
              /\ whole = SliceBySlice(h[Own], OfCounts(GradedDensitySlices))
         /\ listing = "byDensitySliceAsc" =>
              /\ Content(listing, h, rated) = Listed(h)
              /\ whole = SliceBySlice(h[Own], AscendingSlices(h))
         /\ listing \notin {"byDiscovery", "byDensitySlice", "byDensitySliceAsc"} =>
              whole = Sorted(Content(listing, h, rated), SortOf(listing))
<1>1. ASSUME listing = "byDiscovery"
      PROVE  /\ Content(listing, h, rated) = Listed(h)
             /\ Whole(listing, cols, h, rated)
                  = InterleaveDiscovery(Pool(cols, h, rated, "rating_bayesian"),
                                        Pool(cols, h, Memories \ rated, "created_at"))
  BY <1>1 DEF Whole, Content
<1>2. ASSUME listing = "byDensitySlice"
      PROVE  /\ Content(listing, h, rated) = Listed(h)
             /\ Whole(listing, cols, h, rated)
                  = SliceBySlice(h[Own], OfCounts(GradedDensitySlices))
  BY <1>2 DEF Whole, Content
<1>3. ASSUME listing = "byDensitySliceAsc"
      PROVE  /\ Content(listing, h, rated) = Listed(h)
             /\ Whole(listing, cols, h, rated) = SliceBySlice(h[Own], AscendingSlices(h))
  BY <1>3 DEF Whole, Content
<1>4. ASSUME listing \notin {"byDiscovery", "byDensitySlice", "byDensitySliceAsc"}
      PROVE  Whole(listing, cols, h, rated) = Sorted(Content(listing, h, rated), SortOf(listing))
  BY <1>4 DEF Whole
<1>5. QED  BY <1>1, <1>2, <1>3, <1>4

LEMMA ContentIs ==
  ASSUME NEW listing, NEW h, NEW rated \in SUBSET Memories, Listed(h) \in SUBSET Memories
  PROVE  /\ Content(listing, h, rated) \in SUBSET Memories
         /\ \/ Content(listing, h, rated) = Listed(h)
            \/ Content(listing, h, rated) = (Listed(h) \ rated) \cap Near
            \/ Content(listing, h, rated) = Listed(h) \cap rated
            \/ Content(listing, h, rated) = rated
BY DEF Content

LEMMA SortOfIs ==
  ASSUME NEW listing \in OwnListings \cup SpaceListings,
         listing \notin {"byDiscovery", "byDensitySlice", "byDensitySliceAsc"}
  PROVE  SortOf(listing) \in Fields
BY DEF SortOf, Fields, OwnListings, SpaceListings

LEMMA WholeLists ==
  ASSUME NEW listing \in OwnListings \cup SpaceListings, NEW cols \in Sources \cup {<<Own>>},
         Reads(listing, cols),
         NEW h \in [ToSet(cols) -> SUBSET Memories], NEW rated \in SUBSET Memories
  PROVE  Lists(Whole(listing, cols, h, rated), Content(listing, h, rated))
<1>1. Listed(h) \in SUBSET Memories
  BY HeldIs
<1>2. CASE listing = "byDiscovery"
  <2> DEFINE old == Pool(cols, h, rated, "rating_bayesian")
             new == Pool(cols, h, Memories \ rated, "created_at")
             A == Listed(h) \cap rated
             B == Listed(h) \cap (Memories \ rated)
  <2>1. "rating_bayesian" \in Fields /\ "created_at" \in Fields /\ Memories \ rated \in SUBSET Memories
    BY DEF Fields
  <2>2. Lists(old, A) /\ Lists(new, B)
    BY <2>1, PoolIs
  <2>3. A \cap B = {} /\ A \cup B = Listed(h)
    BY <1>1
  <2> HIDE DEF A, B, old, new
  <2>4. Lists(InterleaveDiscovery(old, new), Listed(h))
    BY <2>2, <2>3, InterleaveLists
  <2>5. QED  BY <1>2, <2>4, WholeIs DEF old, new
<1>3. CASE listing \in {"byDensitySlice", "byDensitySliceAsc"}
  <2>1. cols = <<Own>>
    BY <1>3 DEF Reads, SpaceListings
  <2>2. Listed(h) = h[Own] /\ h[Own] \in SUBSET Memories
    BY <2>1, OwnHeld
  <2>3. CASE listing = "byDensitySlice"
    <3>1. Slices(OfCounts(GradedDensitySlices), h[Own])
      BY <2>2, GradedSlices
    <3>2. Lists(SliceBySlice(h[Own], OfCounts(GradedDensitySlices)), h[Own])
      BY <2>2, <3>1, SliceBySliceIs
    <3>3. /\ Content(listing, h, rated) = Listed(h)
          /\ Whole(listing, cols, h, rated) = SliceBySlice(h[Own], OfCounts(GradedDensitySlices))
      BY <2>3 DEF Whole, Content
    <3>4. QED  BY <2>2, <3>2, <3>3
  <2>4. CASE listing = "byDensitySliceAsc"
    <3>1. Slices(AscendingSlices(h), h[Own])
      <4>1. CASE h[Own] = {}
        BY <4>1 DEF Slices
      <4>2. QED  BY <2>1, <4>1, AscendingSlicesAre
    <3>2. Lists(SliceBySlice(h[Own], AscendingSlices(h)), h[Own])
      BY <2>2, <3>1, SliceBySliceIs
    <3>3. /\ Content(listing, h, rated) = Listed(h)
          /\ Whole(listing, cols, h, rated) = SliceBySlice(h[Own], AscendingSlices(h))
      BY <2>4 DEF Whole, Content
    <3>4. QED  BY <2>2, <3>2, <3>3
  <2>5. QED  BY <1>3, <2>3, <2>4
<1>4. CASE listing \notin {"byDiscovery", "byDensitySlice", "byDensitySliceAsc"}
  <2>1. SortOf(listing) \in Fields
    BY <1>4, SortOfIs
  <2>2. Content(listing, h, rated) \in SUBSET Memories
    BY <1>1, ContentIs
  <2>3. QED  BY <1>4, <2>1, <2>2, SortedLists, WholeIs
<1>5. QED  BY <1>2, <1>3, <1>4

-----------------------------------------------------------------------------
(* The pages of the user's own collection                                  *)

\* A page is cut from a list, and says that there is more if the list goes on.
Cuts(page, whole, offset, limit) ==
  /\ page.items = Slice(whole, offset, limit)
  /\ page.hasMore \in BOOLEAN
  /\ ~ page.hasMore => Len(whole) <= offset + limit

LEMMA TopAllAgree ==
  ASSUME NEW S \in SUBSET Memories, NEW f \in Fields, NEW n \in Nat, NEW limit \in Nat, n <= limit
  PROVE  Agree(Sorted(S, f), Sorted(Top(S, f, limit), f), n)
<1> DEFINE T == Top(S, f, limit)
           none == {}
<1>1. none \in SUBSET Memories /\ n + Cardinality(none) <= limit
  BY FS_EmptySet
<1>2. S \ none = S /\ T \ none = T
  OBVIOUS
<1> HIDE DEF none
<1>3. Agree(Sorted(S \ none, f), Sorted(T \ none, f), n)
  BY <1>1, TopAgree
<1>4. QED  BY <1>2, <1>3

LEMMA SortedSlice ==
  ASSUME NEW S \in SUBSET Memories, NEW T \in SUBSET Memories, NEW f \in Fields,
         NEW offset \in Nat, NEW limit \in Nat,
         Agree(Sorted(S, f), Sorted(T, f), offset + limit)
  PROVE  Slice(Sorted(T, f), offset, limit) = Slice(Sorted(S, f), offset, limit)
<1>1. Sorted(S, f) \in Seq(Memories) /\ Sorted(T, f) \in Seq(Memories)
  BY SortedLists DEF Lists
<1>2. QED  BY <1>1, SliceSame

LEMMA OwnPool ==
  ASSUME held \in [ToSet(<<Own>>) -> SUBSET Memories], NEW S \in SUBSET Memories, NEW f \in Fields
  PROVE  Pool(<<Own>>, held, S, f) = Sorted(held[Own] \cap S, f)
<1> DEFINE cols == <<Own>>
           U == held[Own] \cap S
<1>1. Listed(held) \cap S = U
  BY OwnHeld
<1>2. DOMAIN cols = {1}
  OBVIOUS
<1> HIDE DEF cols
<1>3. ASSUME NEW m \in U PROVE First(cols, held, m) = 1
  <2>1. First(cols, held, m) \in DOMAIN cols
    BY <1>1, HeldIs DEF cols
  <2>2. QED  BY <1>2, <2>1
<1>4. [m \in U |-> First(cols, held, m)] = OneGroup(U)
  BY <1>3 DEF OneGroup
<1>5. QED  BY <1>1, <1>4 DEF Pool, Sorted, cols

LEMMA SearchAllSlices ==
  ASSUME held[Own] \in SUBSET Memories, NEW slices, Slices(slices, held[Own]),
         FewInEach(slices, held), NEW offset \in Nat, NEW limit \in Nat
  PROVE  SearchSlices(slices, offset, limit) = held[Own]
<1> DEFINE few == PerSlice(offset, limit)
           found(i) == Top(held[Own] \cap slices[i], "score", few)
<1>1. few \in Nat /\ MinSlice <= few
  <2>1. limit + offset + 2 \in Nat /\ 3 \in Nat \ {0}
    OBVIOUS
  <2>2. (limit + offset + 2) \div 3 \in Nat
    BY <2>1, Quotient
  <2> DEFINE third == (limit + offset + 2) \div 3
  <2> HIDE DEF third
  <2>3. third \in Nat /\ few = Larger(third, MinSlice) /\ MinSlice \in Nat
    BY <2>2, ListingsAssumption DEF third, PerSlice
  <2>4. QED  BY <2>3 DEF Larger
<1> HIDE DEF few
<1>2. ASSUME NEW i \in DOMAIN slices PROVE found(i) = held[Own] \cap slices[i]
  <2> DEFINE S == held[Own] \cap slices[i]
  <2>1. S \in SUBSET Memories /\ Cardinality(S) <= MinSlice
    BY DEF FewInEach
  <2>2. IsFiniteSet(S) /\ Cardinality(S) \in Nat
    BY <2>1, FS_Subset, FS_CardinalityType, ListingsAssumption
  <2>3. Cardinality(S) <= few
    BY <1>1, <2>1, <2>2, ListingsAssumption
  <2>4. "score" \in Fields
    BY DEF Fields
  <2> HIDE DEF S
  <2>5. Top(S, "score", few) = S
    BY <1>1, <2>1, <2>3, <2>4, TopIs
  <2>6. QED  BY <2>5 DEF S
<1>3. SearchSlices(slices, offset, limit) = UNION {found(i) : i \in DOMAIN slices}
  BY DEF SearchSlices, few
<1> HIDE DEF found
<1>4. \A m \in held[Own] : \E i \in DOMAIN slices : m \in slices[i]
  BY DEF Slices
<1>5. QED  BY <1>2, <1>3, <1>4

LEMMA OwnPageIs ==
  ASSUME held \in [ToSet(<<Own>>) -> SUBSET Memories], marked \in SUBSET Memories,
         NEW listing \in OwnListings, NEW offset \in Nat, NEW limit \in Nat \ {0},
         FitsTogether(listing, <<Own>>, held)
  PROVE  OwnPage(listing, offset, limit).items
           = Slice(Whole(listing, <<Own>>, held, marked), offset, limit)
<1> DEFINE H == held[Own]
           n == offset + limit
           fetchLimit == (limit + offset) * 2
           items == OwnPage(listing, offset, limit).items
           whole == Whole(listing, <<Own>>, held, marked)
<1>1. Listed(held) = H /\ H \in SUBSET Memories
  BY OwnHeld
<1>2. n \in Nat /\ fetchLimit \in Nat /\ n <= fetchLimit
  OBVIOUS
<1>3. /\ "rating_bayesian" \in Fields /\ "created_at" \in Fields /\ "curated_score" \in Fields
      /\ "distance" \in Fields /\ "score" \in Fields
  BY DEF Fields
<1>4. CASE listing \in {"search", "byTime", "byDensity", "byRating", "byProperty", "byBroad"}
  <2>1. Content(listing, held, marked) = H
    BY <1>1, <1>4 DEF Content
  <2>2. items = StorePage(SortOf(listing), offset, limit)
    BY <1>4 DEF OwnPage, SortOf, OwnSearch, OwnByTime, OwnByDensity, OwnByRating, OwnByProperty, OwnByBroad
  <2>3. whole = Sorted(H, SortOf(listing))
    BY <1>4, <2>1 DEF Whole
  <2>4. QED  BY <2>2, <2>3 DEF StorePage
<1>5. CASE listing = "byMyRatings"
  <2>1. whole = Sorted(marked, "rated_at")
    BY <1>5 DEF Whole, Content, SortOf
  <2>2. items = OwnByMyRatings(offset, limit)
    BY <1>5 DEF OwnPage
  <2>3. QED  BY <2>1, <2>2 DEF OwnByMyRatings
<1>6. CASE listing = "byMyRatingsSearch"
  <2>1. whole = Sorted(H \cap marked, "score")
    BY <1>1, <1>6 DEF Whole, Content, SortOf
  <2>2. items = OwnByMyRatingsSearch(offset, limit)
    BY <1>6 DEF OwnPage
  <2>3. Cardinality(H) <= SearchLimit
    BY <1>6 DEF FitsTogether
  <2>4. Top(H, "score", SearchLimit) = H
    BY <1>1, <1>3, <2>3, TopIs, ListingsAssumption
  <2>5. QED  BY <2>1, <2>2, <2>4 DEF OwnByMyRatingsSearch
<1>7. CASE listing = "byRecommendation"
  <2>1. whole = Sorted((H \ marked) \cap Near, "distance")
    BY <1>1, <1>7 DEF Whole, Content, SortOf
  <2>2. items = OwnByRecommendation(offset, limit)
    BY <1>7 DEF OwnPage
  <2> DEFINE L == limit + offset + Cardinality(marked)
             found == Top(H, "distance", L)
  <2>3. L \in Nat /\ n + Cardinality(marked) <= L
    <3>1. Cardinality(marked) \in Nat
      BY FS_Subset, FS_CardinalityType, ListingsAssumption
    <3>2. QED  BY <3>1
  <2>4. items = Slice(Sorted((found \ marked) \cap Near, "distance"), offset, limit)
    BY <2>2 DEF OwnByRecommendation
  <2> HIDE DEF L
  <2> DEFINE S == H \ marked
             F == found \ marked
             T == F \cap Near
             U == S \cap Near
  <2>5. \A m \in S : Cardinality(Ahead(OneGroup(S), "distance", m)) < n => m \in F
    BY <1>1, <1>2, <1>3, <2>3, TopFinds
  <2>6. F \in SUBSET S /\ S \in SUBSET Memories
    BY <1>1 DEF Top
  <2>7. T \in SUBSET Memories /\ U \in SUBSET Memories
    BY <2>6
  <2>8. whole = Sorted(U, "distance") /\ items = Slice(Sorted(T, "distance"), offset, limit)
    BY <2>1, <2>4
  <2> HIDE DEF S, F, items, whole
  <2>9. Agree(Sorted(U, "distance"), Sorted(T, "distance"), n)
    BY <1>2, <2>5, <2>6, NearAgree
  <2> HIDE DEF T, U
  <2>10. Slice(Sorted(T, "distance"), offset, limit) = Slice(Sorted(U, "distance"), offset, limit)
    BY <1>3, <2>7, <2>9, SortedSlice
  <2>11. QED  BY <2>8, <2>10 DEF items, whole
<1>8. CASE listing = "byDiscovery"
  <2> DEFINE a == Sorted(H \cap marked, "rating_bayesian")
             b == Sorted(H \ marked, "created_at")
             c == Sorted(Top(H \cap marked, "rating_bayesian", fetchLimit), "rating_bayesian")
             d == Sorted(Top(H \ marked, "created_at", fetchLimit), "created_at")
  <2>1. whole = InterleaveDiscovery(a, b)
    <3>1. whole = InterleaveDiscovery(Pool(<<Own>>, held, marked, "rating_bayesian"),
                                      Pool(<<Own>>, held, Memories \ marked, "created_at"))
      BY <1>8 DEF Whole
    <3>2. H \cap (Memories \ marked) = H \ marked /\ Memories \ marked \in SUBSET Memories
      BY <1>1
    <3>3. Pool(<<Own>>, held, marked, "rating_bayesian") = a
      BY <1>3, OwnPool
    <3>4. Pool(<<Own>>, held, Memories \ marked, "created_at") = b
      BY <1>3, <3>2, OwnPool
    <3>5. QED  BY <3>1, <3>3, <3>4
  <2>2. items = Slice(InterleaveDiscovery(c, d), offset, limit)
    BY <1>8 DEF OwnPage, OwnByDiscovery
  <2>3. H \cap marked \in SUBSET Memories /\ H \ marked \in SUBSET Memories
    BY <1>1
  <2>4. Agree(a, c, n) /\ Agree(b, d, n)
    BY <1>2, <1>3, <2>3, TopAllAgree
  <2>5. a \in Seq(Memories) /\ b \in Seq(Memories) /\ c \in Seq(Memories) /\ d \in Seq(Memories)
    <3>1. /\ Top(H \cap marked, "rating_bayesian", fetchLimit) \in SUBSET Memories
          /\ Top(H \ marked, "created_at", fetchLimit) \in SUBSET Memories
      BY <2>3 DEF Top
    <3>2. QED  BY <1>3, <2>3, <3>1, SortedLists DEF Lists
  <2> HIDE DEF a, b, c, d
  <2>6. Agree(InterleaveDiscovery(a, b), InterleaveDiscovery(c, d), n)
    BY <1>2, <2>4, <2>5, InterleaveAgree
  <2>7. InterleaveDiscovery(a, b) \in Seq(Memories) /\ InterleaveDiscovery(c, d) \in Seq(Memories)
    BY <2>5, InterleaveIs
  <2>8. QED  BY <2>1, <2>2, <2>6, <2>7, SliceSame
<1>9. CASE listing = "byCurated"
  <2> DEFINE newest == Top(H, "created_at", (fetchLimit + 3) \div 4)
             best == Sorted(Top(H \cap marked, "curated_score", fetchLimit), "curated_score")
             rest == Sorted(newest \ marked, "created_at")
  <2>1. H \subseteq marked
    BY <1>9 DEF FitsTogether
  <2>2. whole = Sorted(H, "curated_score")
    BY <1>1, <1>9 DEF Whole, Content, SortOf
  <2>3. items = Slice(InterleaveDiscovery(best, rest), offset, limit)
    BY <1>9 DEF OwnPage, OwnByCurated
  <2>4. newest \ marked = {} /\ H \cap marked = H
    BY <2>1 DEF Top
  <2>5. rest \in Seq(Memories) /\ Len(rest) = 0
    <3>1. {} \in SUBSET Memories /\ Cardinality({}) = 0
      BY FS_EmptySet
    <3>2. /\ Lists(Sorted({}, "created_at"), {})
          /\ Len(Sorted({}, "created_at")) = Cardinality({})
      BY <1>3, <3>1, SortedLists
    <3>3. rest = Sorted({}, "created_at")
      BY <2>4
    <3>4. QED  BY <3>1, <3>2, <3>3 DEF Lists
  <2>6. Top(H, "curated_score", fetchLimit) \in SUBSET Memories
    BY <1>1 DEF Top
  <2>7. best \in Seq(Memories)
    BY <1>3, <2>4, <2>6, SortedLists DEF Lists
  <2>8. InterleaveDiscovery(best, rest) = best
    BY <2>5, <2>7, InterleaveNone
  <2>9. Agree(Sorted(H, "curated_score"), best, n)
    BY <1>1, <1>2, <1>3, <2>4, TopAllAgree
  <2> DEFINE T == Top(H, "curated_score", fetchLimit)
  <2>10. best = Sorted(T, "curated_score")
    BY <2>4
  <2> HIDE DEF T, best, rest
  <2>11. T \in SUBSET Memories /\ Agree(Sorted(H, "curated_score"), Sorted(T, "curated_score"), n)
    BY <2>6, <2>9, <2>10 DEF T
  <2>12. Slice(Sorted(T, "curated_score"), offset, limit) = Slice(Sorted(H, "curated_score"), offset, limit)
    BY <1>1, <1>3, <2>11, SortedSlice
  <2>13. QED  BY <2>2, <2>3, <2>8, <2>10, <2>12
<1>10. CASE listing = "byTimeSlice"
  <2>1. SearchSlices(TimeSlices, offset, limit) = H
    <3>1. FewInEach(TimeSlices, held) /\ Slices(TimeSlices, H)
      BY <1>1, <1>10, GradedSlices DEF FitsTogether
    <3>2. QED  BY <1>1, <3>1, SearchAllSlices
  <2>2. whole = Sorted(H, "created_at")
    BY <1>1, <1>10 DEF Whole, Content, SortOf
  <2>3. QED  BY <1>10, <2>1, <2>2 DEF OwnPage, OwnByTimeSlice
<1>11. CASE listing = "byDensitySlice"
  <2> DEFINE slices == OfCounts(GradedDensitySlices)
  <2>1. SearchSlices(slices, offset, limit) = H
    <3>1. FewInEach(slices, held) /\ Slices(slices, H)
      BY <1>1, <1>11, GradedSlices DEF FitsTogether
    <3>2. QED  BY <1>1, <3>1, SearchAllSlices
  <2>2. whole = SliceBySlice(H, slices)
    BY <1>11 DEF Whole
  <2>3. QED  BY <1>11, <2>1, <2>2 DEF OwnPage, OwnByDensitySlice
<1>12. CASE listing = "byDensitySliceAsc"
  <2> DEFINE densest == Top(H, "relationship_count", 1)
             d == CHOOSE m \in densest : TRUE
             slices == OfCounts(BuildEvenDensitySlices(Count[d]))
  <2>1. items = IF densest = {} THEN <<>>
                ELSE Slice(SliceBySlice(SearchSlices(slices, offset, limit), slices), offset, limit)
    BY <1>12 DEF OwnPage, OwnByDensitySliceAsc
  <2>2. whole = SliceBySlice(H, slices)
    BY <1>12 DEF Whole, AscendingSlices
  <2>3. Slices(slices, H)
    <3>1. Slices(AscendingSlices(held), H) \/ H = {}
      BY AscendingSlicesAre
    <3>2. QED  BY <3>1 DEF Slices, AscendingSlices
  <2>4. densest = {} <=> H = {}
    BY <1>1, DensestIs
  <2>5. CASE H = {}
    <3>1. whole \in Seq(Memories) /\ Len(whole) = 0
      BY <1>1, <2>2, <2>3, <2>5, FS_EmptySet, SliceBySliceIs DEF Lists
    <3> HIDE DEF whole
    <3>2. /\ Slice(whole, offset, limit) \in Seq(Memories)
          /\ Len(Slice(whole, offset, limit))
               = IF Len(whole) <= offset THEN 0 ELSE Smaller(limit, Len(whole) - offset)
      BY <3>1, SliceIs
    <3>3. Slice(whole, offset, limit) = <<>>
      BY <3>1, <3>2, EmptySeq
    <3>4. QED  BY <2>1, <2>4, <2>5, <3>3 DEF whole
  <2>6. CASE H # {}
    <3>1. d \in H
      BY <1>1, <2>4, <2>6, DensestIs
    <3>2. FewInEach(slices, held)
      BY <1>12, <3>1 DEF FitsTogether
    <3> HIDE DEF d
    <3>3. SearchSlices(slices, offset, limit) = H
      BY <1>1, <2>3, <3>2, SearchAllSlices
    <3>4. QED  BY <2>1, <2>2, <2>4, <2>6, <3>3
  <2>7. QED  BY <2>5, <2>6
<1>13. listing # "byCuratedSearch"
  BY DEF FitsTogether
<1>14. QED
  BY <1>4, <1>5, <1>6, <1>7, <1>8, <1>9, <1>10, <1>11, <1>12, <1>13 DEF OwnListings

LEMMA OwnPageCuts ==
  ASSUME held \in [ToSet(<<Own>>) -> SUBSET Memories], marked \in SUBSET Memories,
         NEW listing \in OwnListings, NEW offset \in Nat, NEW limit \in Nat \ {0},
         FitsTogether(listing, <<Own>>, held)
  PROVE  Cuts(OwnPage(listing, offset, limit), Whole(listing, <<Own>>, held, marked),
              offset, limit)
<1> DEFINE whole == Whole(listing, <<Own>>, held, marked)
           page == OwnPage(listing, offset, limit)
<1>1. page.items = Slice(whole, offset, limit)
  BY OwnPageIs
<1>2. page.hasMore = (Len(page.items) = limit)
  BY DEF OwnPage
<1>3. whole \in Seq(Memories) /\ Len(whole) \in Nat
  <2>1. <<Own>> \in Sources \cup {<<Own>>} /\ Reads(listing, <<Own>>)
    BY DEF Reads
  <2>2. QED  BY <2>1, WholeLists DEF Lists
<1> HIDE DEF whole, page
<1>4. Len(page.items) = IF Len(whole) <= offset THEN 0 ELSE Smaller(limit, Len(whole) - offset)
  BY <1>1, <1>3, SliceIs
<1>5. ~ page.hasMore => Len(whole) <= offset + limit
  <2> DEFINE l == Len(page.items)
  <2>1. ~ page.hasMore => l # limit
    BY <1>2
  <2>2. l = IF Len(whole) <= offset THEN 0 ELSE Smaller(limit, Len(whole) - offset)
    BY <1>4
  <2> HIDE DEF l
  <2>3. l # limit => Len(whole) <= offset + limit
    BY <1>3, <2>2 DEF Smaller
  <2>4. QED  BY <2>1, <2>3
<1>6. page.hasMore \in BOOLEAN
  BY <1>2
<1>7. QED  BY <1>1, <1>5, <1>6 DEF Cuts, whole, page

-----------------------------------------------------------------------------
(* The pages of published memories                                         *)

LEMMA FetchCopies ==
  ASSUME NEW cols \in Sources, held \in [ToSet(cols) -> SUBSET Memories],
         NEW f \in Fields, NEW S \in SUBSET Memories, NEW fetchLimit \in Nat
  PROVE  LET objects == FetchAcrossCollections(cols, f, S, fetchLimit) IN
         /\ Copies(objects, cols)
         /\ \A o \in objects : o.id \in Listed(held) \cap S
         /\ Ids(objects) \in SUBSET (Listed(held) \cap S)
         /\ InSeveral(held) = {} =>
              \A o, p \in objects : o.id = p.id => cols[o.from] = cols[p.from]
<1> DEFINE objects == FetchAcrossCollections(cols, f, S, fetchLimit)
<1>1. \A o \in objects : /\ o = [id |-> o.id, from |-> o.from]
                         /\ o.from \in DOMAIN cols
                         /\ o.id \in held[cols[o.from]] /\ o.id \in S
  BY FetchIs
<1> HIDE DEF objects
<1>2. Copies(objects, cols)
  BY <1>1 DEF Copies
<1>3. \A o \in objects : o.id \in Listed(held) \cap S
  BY <1>1, HeldIs
<1>4. Ids(objects) \in SUBSET (Listed(held) \cap S)
  BY <1>3 DEF Ids
<1>5. ASSUME InSeveral(held) = {}, NEW o \in objects, NEW p \in objects, o.id = p.id
      PROVE  cols[o.from] = cols[p.from]
  <2>1. /\ cols[o.from] \in DOMAIN held /\ cols[p.from] \in DOMAIN held
        /\ o.id \in held[cols[o.from]] \cap held[cols[p.from]] /\ o.id \in Memories
    BY <1>1, <1>5, ColsAre
  <2>2. QED  BY <1>5, <2>1 DEF InSeveral
<1>6. QED  BY <1>2, <1>3, <1>4, <1>5 DEF objects

\* All are fetched, if no collection was cut.
LEMMA FetchAll ==
  ASSUME NEW cols \in Sources, held \in [ToSet(cols) -> SUBSET Memories],
         NEW f \in Fields, NEW S \in SUBSET Memories, NEW fetchLimit \in Nat,
         \A i \in DOMAIN cols :
           Top(held[cols[i]] \cap S, f, fetchLimit) = held[cols[i]] \cap S
  PROVE  Ids(FetchAcrossCollections(cols, f, S, fetchLimit)) = Listed(held) \cap S
<1> DEFINE objects == FetchAcrossCollections(cols, f, S, fetchLimit)
<1>1. Ids(objects) \in SUBSET (Listed(held) \cap S)
  BY FetchCopies
<1>2. ASSUME NEW m \in Listed(held) \cap S PROVE m \in Ids(objects)
  <2> DEFINE i == First(cols, held, m)
  <2>1. i \in DOMAIN cols /\ m \in held[cols[i]]
    BY HeldIs
  <2> HIDE DEF i
  <2>2. [id |-> m, from |-> i] \in objects
    BY <2>1, FetchIs
  <2> HIDE DEF objects
  <2>3. [id |-> m, from |-> i].id = m
    OBVIOUS
  <2>4. QED  BY <2>2, <2>3 DEF Ids
<1>3. QED  BY <1>1, <1>2

\* Fewer copies than each collection was asked for: none was cut.
LEMMA FetchUncut ==
  ASSUME NEW cols \in Sources, held \in [ToSet(cols) -> SUBSET Memories],
         NEW f \in Fields, NEW S \in SUBSET Memories, NEW fetchLimit \in Nat
  PROVE  LET objects == FetchAcrossCollections(cols, f, S, fetchLimit) IN
         /\ Cardinality(objects) \in Nat
         /\ Cardinality(objects) < fetchLimit => Ids(objects) = Listed(held) \cap S
<1> DEFINE objects == FetchAcrossCollections(cols, f, S, fetchLimit)
<1>1. Cardinality(objects) \in Nat
  BY FetchFinite
<1>2. SUFFICES ASSUME Cardinality(objects) < fetchLimit
               PROVE  Ids(objects) = Listed(held) \cap S
  BY <1>1
<1>3. ASSUME NEW i \in DOMAIN cols
      PROVE  Top(held[cols[i]] \cap S, f, fetchLimit) = held[cols[i]] \cap S
  <2>1. HoldsFrom(objects, objects, i)
    BY DEF HoldsFrom
  <2>2. QED  BY <1>2, <2>1, FetchCut
<1>4. QED  BY <1>3, FetchAll

\* A memory that few are ahead of is fetched from the first collection that has it.
LEMMA FetchHas ==
  ASSUME NEW cols \in Sources, held \in [ToSet(cols) -> SUBSET Memories],
         NEW f \in Fields, NEW S \in SUBSET Memories, NEW E \in SUBSET Memories,
         NEW group \in [(Listed(held) \cap S) \ E -> Nat],
         NEW m \in (Listed(held) \cap S) \ E,
         \A x \in (Listed(held) \cap S) \ E :
           x \in held[cols[First(cols, held, m)]] => group[x] <= group[m],
         NEW n \in Nat, Cardinality(Ahead(group, f, m)) < n,
         NEW fetchLimit \in Nat, n + Cardinality(E) <= fetchLimit
  PROVE  [id |-> m, from |-> First(cols, held, m)]
           \in FetchAcrossCollections(cols, f, S, fetchLimit)
<1> DEFINE i == First(cols, held, m)
           U == (Listed(held) \cap S) \ E
           T == held[cols[i]] \cap S
<1>1. i \in DOMAIN cols /\ m \in held[cols[i]] /\ held[cols[i]] \in SUBSET Listed(held)
  BY HeldIs
<1>2. Listed(held) \in SUBSET Memories
  BY HeldIs
<1>3. U \in SUBSET Memories /\ T \in SUBSET (U \cup E) /\ m \in T \cap U
  BY <1>1, <1>2
<1>4. \A x \in T \cap U : group[x] <= group[m]
  OBVIOUS
<1>5. group \in [U -> Nat]
  OBVIOUS
<1> HIDE DEF i, U, T
<1>6. m \in Top(T, f, fetchLimit)
  BY <1>3, <1>4, <1>5, TopHas
<1>7. QED  BY <1>1, <1>6, FetchIs DEF i, T

LEMMA FetchFinds ==
  ASSUME NEW cols \in Sources, held \in [ToSet(cols) -> SUBSET Memories],
         NEW f \in Fields, NEW E \in SUBSET Memories,
         NEW n \in Nat, NEW fetchLimit \in Nat, n + Cardinality(E) <= fetchLimit
  PROVE  LET U == Listed(held) \ E
             T == Ids(FetchAcrossCollections(cols, f, Memories, fetchLimit)) \ E IN
         /\ U \in SUBSET Memories /\ T \in SUBSET U
         /\ \A m \in U : Cardinality(Ahead(OneGroup(U), f, m)) < n => m \in T
<1> DEFINE objects == FetchAcrossCollections(cols, f, Memories, fetchLimit)
           U == (Listed(held) \cap Memories) \ E
           T == Ids(objects) \ E
           group == OneGroup(U)
<1>1. Listed(held) \in SUBSET Memories
  BY HeldIs
<1>2. U = Listed(held) \ E /\ U \in SUBSET Memories
  BY <1>1
<1>3. T \in SUBSET U
  <2>1. Ids(objects) \in SUBSET (Listed(held) \cap Memories)
    BY FetchCopies
  <2>2. QED  BY <2>1
<1>4. group \in [U -> Nat] /\ \A m \in U : group[m] = 1
  BY OneGroupIs
<1> HIDE DEF group
<1>5. ASSUME NEW m \in U, Cardinality(Ahead(group, f, m)) < n PROVE m \in T
  <2>1. \A x \in U : group[x] <= group[m]
    BY <1>4
  <2>2. [id |-> m, from |-> First(cols, held, m)] \in objects
    BY <1>4, <1>5, <2>1, FetchHas
  <2> HIDE DEF objects
  <2>3. [id |-> m, from |-> First(cols, held, m)].id = m
    OBVIOUS
  <2>4. m \in Ids(objects)
    BY <2>2, <2>3 DEF Ids
  <2>5. QED  BY <2>4
<1>6. QED  BY <1>2, <1>3, <1>5 DEF group

LEMMA FetchAgree ==
  ASSUME NEW cols \in Sources, held \in [ToSet(cols) -> SUBSET Memories],
         NEW f \in Fields, NEW E \in SUBSET Memories,
         NEW n \in Nat, NEW fetchLimit \in Nat, n + Cardinality(E) <= fetchLimit
  PROVE  Agree(Sorted(Listed(held) \ E, f),
               Sorted(Ids(FetchAcrossCollections(cols, f, Memories, fetchLimit)) \ E, f), n)
<1> DEFINE U == Listed(held) \ E
           T == Ids(FetchAcrossCollections(cols, f, Memories, fetchLimit)) \ E
<1>1. /\ U \in SUBSET Memories /\ T \in SUBSET U
      /\ \A m \in U : Cardinality(Ahead(OneGroup(U), f, m)) < n => m \in T
  BY FetchFinds
<1> HIDE DEF U, T
<1>2. Agree(Sorted(U, f), Sorted(T, f), n)
  BY <1>1, SortedAgree
<1>3. QED  BY <1>2 DEF U, T

\* HasMore says no: nothing fetched is behind the page, and nothing was left out.
LEMMA HasNoMore ==
  ASSUME NEW total, NEW raw, NEW fetchLimit, NEW offset, NEW limit,
         total \in Nat, raw \in Nat, fetchLimit \in Nat, offset \in Nat, limit \in Nat
  PROVE  /\ HasMore(total, raw, fetchLimit, offset, limit) \in BOOLEAN
         /\ ~ HasMore(total, raw, fetchLimit, offset, limit) =>
              total <= offset + limit /\ raw < fetchLimit
BY DEF HasMore

LEMMA NoneLeftOut ==
  ASSUME NEW S \in SUBSET Memories, NEW f \in Fields, NEW n \in Nat, Cardinality(S) <= n
  PROVE  Len(Sorted(S, f)) <= n
BY SortedLists

LEMMA SomeMemories ==
  ASSUME NEW S \in SUBSET Memories
  PROVE  /\ IsFiniteSet(S) /\ Cardinality(S) \in Nat /\ Cardinality(Memories) \in Nat
         /\ Cardinality(S) <= Cardinality(Memories)
BY FS_Subset, FS_CardinalityType, ListingsAssumption

\* A page of what agrees with the list, if all of it was found when nothing was cut.
LEMMA AgreeCuts ==
  ASSUME NEW U \in SUBSET Memories, NEW ids \in SUBSET Memories, NEW f \in Fields,
         NEW raw \in Nat, NEW fetchLimit \in Nat, NEW offset \in Nat, NEW limit \in Nat \ {0},
         Agree(Sorted(U, f), Sorted(ids, f), offset + limit),
         raw < fetchLimit /\ Cardinality(ids) <= offset + limit => ids = U
  PROVE  Cuts([items |-> Slice(Sorted(ids, f), offset, limit),
               hasMore |-> HasMore(Cardinality(ids), raw, fetchLimit, offset, limit)],
              Sorted(U, f), offset, limit)
<1> DEFINE n == offset + limit
<1>1. Cardinality(ids) \in Nat /\ n \in Nat
  BY SomeMemories
<1>2. Slice(Sorted(ids, f), offset, limit) = Slice(Sorted(U, f), offset, limit)
  BY SortedSlice
<1> DEFINE more == HasMore(Cardinality(ids), raw, fetchLimit, offset, limit)
<1>3. more \in BOOLEAN /\ (~ more => Cardinality(ids) <= n /\ raw < fetchLimit)
  BY <1>1, HasNoMore
<1>4. ~ more => Len(Sorted(U, f)) <= n
  <2> SUFFICES ASSUME ~ more PROVE Len(Sorted(U, f)) <= n
    OBVIOUS
  <2>1. ids = U /\ Cardinality(ids) <= n
    BY <1>3
  <2>2. QED  BY <1>1, <2>1, NoneLeftOut
<1> HIDE DEF more
<1>5. QED  BY <1>2, <1>3, <1>4 DEF Cuts, more

\* The listings that sort all they fetched, but for E.
LEMMA FetchedCuts ==
  ASSUME NEW cols \in Sources, held \in [ToSet(cols) -> SUBSET Memories],
         NEW f \in Fields, NEW E \in SUBSET Memories, NEW ids, NEW raw \in Nat,
         NEW offset \in Nat, NEW limit \in Nat \ {0},
         NEW fetchLimit \in Nat, offset + limit + Cardinality(E) <= fetchLimit,
         ids = Ids(FetchAcrossCollections(cols, f, Memories, fetchLimit)) \ E,
         raw < fetchLimit /\ Cardinality(ids) <= offset + limit =>
           Ids(FetchAcrossCollections(cols, f, Memories, fetchLimit)) = Listed(held)
  PROVE  Cuts([items |-> Slice(Sorted(ids, f), offset, limit),
               hasMore |-> HasMore(Cardinality(ids), raw, fetchLimit, offset, limit)],
              Sorted(Listed(held) \ E, f), offset, limit)
<1> DEFINE U == Listed(held) \ E
           n == offset + limit
<1>1. U \in SUBSET Memories
  BY HeldIs
<1>2. ids \in SUBSET U
  <2>1. Ids(FetchAcrossCollections(cols, f, Memories, fetchLimit))
          \in SUBSET (Listed(held) \cap Memories)
    BY FetchCopies
  <2>2. QED  BY <2>1
<1>3. n \in Nat
  OBVIOUS
<1>4. Agree(Sorted(U, f), Sorted(ids, f), n)
  BY <1>3, FetchAgree
<1>5. ids \in SUBSET Memories
  BY <1>1, <1>2
<1>6. raw < fetchLimit /\ Cardinality(ids) <= n => ids = U
  OBVIOUS
<1> HIDE DEF U
<1>7. QED  BY <1>1, <1>4, <1>5, <1>6, AgreeCuts DEF U

LEMMA SortedListingCuts ==
  ASSUME NEW cols \in Sources, held \in [ToSet(cols) -> SUBSET Memories],
         NEW f \in Fields, NEW offset \in Nat, NEW limit \in Nat \ {0},
         Listed(held) \cap Blocked = {}, InSeveral(held) = {}
  PROVE  Cuts(SortedListing(cols, f, f, offset, limit), Sorted(Listed(held), f), offset, limit)
<1> DEFINE fetchLimit == FetchLimit(offset, limit)
           objects == FetchAcrossCollections(cols, f, Memories, fetchLimit)
           ids == Ids(DedupeBySourceId(cols, Unblocked(objects)))
           none == {}
<1>1. fetchLimit \in Nat /\ offset + limit <= fetchLimit
  BY DEF FetchLimit
<1> HIDE DEF fetchLimit
<1>2. Listed(held) \cap Memories = Listed(held)
  BY HeldIs
<1>3. /\ Copies(objects, cols) /\ \A o \in objects : o.id \in Listed(held)
      /\ \A o, p \in objects : o.id = p.id => cols[o.from] = cols[p.from]
  BY <1>1, FetchCopies
<1>4. Cardinality(objects) \in Nat
  BY <1>1, FetchFinite
<1>5. Cardinality(objects) < fetchLimit => Ids(objects) = Listed(held)
  <2>1. Cardinality(objects) < fetchLimit => Ids(objects) = Listed(held) \cap Memories
    BY <1>1, FetchUncut
  <2>2. QED  BY <1>2, <2>1
<1>6. ids = Ids(objects)
  <2> HIDE DEF objects
  <2>1. Unblocked(objects) = objects
    BY <1>3 DEF Unblocked
  <2>2. QED  BY <1>3, <2>1, DedupeBySourceIs
<1>7. none \in SUBSET Memories /\ Cardinality(none) = 0 /\ Ids(objects) \ none = Ids(objects)
  BY FS_EmptySet
<1>8. Listed(held) \ none = Listed(held) /\ offset + limit + Cardinality(none) <= fetchLimit
  BY <1>1, <1>7
<1> DEFINE raw == Cardinality(objects)
<1>9. SortedListing(cols, f, f, offset, limit)
        = [items |-> Slice(Sorted(ids, f), offset, limit),
           hasMore |-> HasMore(Cardinality(ids), raw, fetchLimit, offset, limit)]
  BY DEF SortedListing, fetchLimit
<1>10. ids = Ids(objects) \ none
  BY <1>6, <1>7
<1>11. raw \in Nat /\ (raw < fetchLimit => Ids(objects) = Listed(held))
  BY <1>4, <1>5
<1> HIDE DEF ids, raw, none
<1>12. Cuts([items |-> Slice(Sorted(ids, f), offset, limit),
             hasMore |-> HasMore(Cardinality(ids), raw, fetchLimit, offset, limit)],
            Sorted(Listed(held) \ none, f), offset, limit)
  BY <1>1, <1>7, <1>8, <1>10, <1>11, FetchedCuts
<1>13. QED  BY <1>8, <1>9, <1>12

LEMMA RecommendationCuts ==
  ASSUME NEW cols \in Sources, held \in [ToSet(cols) -> SUBSET Memories],
         marked \in SUBSET Memories, NEW offset \in Nat, NEW limit \in Nat \ {0},
         Listed(held) \cap Blocked = {}, InSeveral(held) = {}
  PROVE  Cuts(ByRecommendation(cols, offset, limit),
              Sorted((Listed(held) \ marked) \cap Near, "distance"), offset, limit)
<1> DEFINE f == "distance"
           fetchLimit == limit + offset + Cardinality(marked)
           objects == FetchAcrossCollections(cols, f, Memories, fetchLimit)
           ids == ((Ids(DedupeBySourceId(cols, objects)) \ marked) \ Blocked) \cap Near
           raw == Cardinality(objects)
           S == Listed(held) \ marked
           F == Ids(objects) \ marked
           U == S \cap Near
           n == offset + limit
<1>1. f \in Fields
  BY DEF Fields
<1>2. fetchLimit \in Nat /\ offset + limit + Cardinality(marked) <= fetchLimit
  <2>1. Cardinality(marked) \in Nat
    BY SomeMemories
  <2>2. QED  BY <2>1
<1>3. ByRecommendation(cols, offset, limit)
        = [items |-> Slice(Sorted(ids, f), offset, limit),
           hasMore |-> HasMore(Cardinality(ids), raw, fetchLimit, offset, limit)]
  BY DEF ByRecommendation
<1> HIDE DEF f, fetchLimit
<1>4. Listed(held) \cap Memories = Listed(held)
  BY HeldIs
<1>5. /\ Copies(objects, cols) /\ Ids(objects) \subseteq Listed(held)
      /\ \A o, p \in objects : o.id = p.id => cols[o.from] = cols[p.from]
  BY <1>1, <1>2, FetchCopies, ZenonT(30)
<1>6. raw \in Nat /\ (raw < fetchLimit => Ids(objects) = Listed(held))
  <2>1. raw \in Nat
    BY <1>1, <1>2, FetchFinite
  <2>2. raw < fetchLimit => Ids(objects) = Listed(held)
    <3>1. Cardinality(objects) < fetchLimit => Ids(objects) = Listed(held) \cap Memories
      BY <1>1, <1>2, FetchUncut
    <3>2. QED  BY <1>4, <3>1
  <2>3. QED  BY <2>1, <2>2
<1>7. ids = F \cap Near
  <2> HIDE DEF objects
  <2>1. Ids(DedupeBySourceId(cols, objects)) = Ids(objects)
    BY <1>5, DedupeBySourceIs
  <2>2. QED  BY <1>5, <2>1
<1>8. /\ n \in Nat /\ S \in SUBSET Memories /\ F \in SUBSET S
      /\ \A m \in S : Cardinality(Ahead(OneGroup(S), f, m)) < n => m \in F
  <2>1. n \in Nat /\ n + Cardinality(marked) <= fetchLimit
    BY <1>2
  <2> HIDE DEF n
  <2>2. /\ S \in SUBSET Memories /\ F \in SUBSET S
        /\ \A m \in S : Cardinality(Ahead(OneGroup(S), f, m)) < n => m \in F
    BY <1>1, <1>2, <2>1, FetchFinds
  <2>3. QED  BY <2>1, <2>2
<1>9. U \in SUBSET Memories /\ ids \in SUBSET Memories
  BY <1>7, <1>8
<1>10. raw < fetchLimit => ids = U
  BY <1>6, <1>7
<1> HIDE DEF ids, raw, F, S
<1>11. Agree(Sorted(U, f), Sorted(ids, f), n)
  BY <1>7, <1>8, NearAgree DEF f
<1> HIDE DEF U
<1>12. Cuts([items |-> Slice(Sorted(ids, f), offset, limit),
             hasMore |-> HasMore(Cardinality(ids), raw, fetchLimit, offset, limit)],
            Sorted(U, f), offset, limit)
  BY <1>1, <1>2, <1>6, <1>9, <1>10, <1>11, AgreeCuts
<1>13. QED  BY <1>3, <1>12 DEF f, U, S

LEMMA SearchCounted ==
  ASSUME NEW cols \in Sources, held \in [ToSet(cols) -> SUBSET Memories],
         NEW f \in Fields, NEW S \in SUBSET Memories, NEW fetchLimit \in Nat,
         NEW i \in DOMAIN cols, cols[i] \notin Friends
  PROVE  Cardinality({o \in FetchAcrossCollections(cols, f, S, fetchLimit) :
                        cols[o.from] \notin Friends}) < fetchLimit =>
           Top(held[cols[i]] \cap S, f, fetchLimit) = held[cols[i]] \cap S
<1> DEFINE objects == FetchAcrossCollections(cols, f, S, fetchLimit)
           counted == {o \in objects : cols[o.from] \notin Friends}
<1> HIDE DEF objects
<1>1. HoldsFrom(counted, objects, i)
  BY DEF HoldsFrom
<1> HIDE DEF counted
<1>2. HoldsFrom(counted, FetchAcrossCollections(cols, f, S, fetchLimit), i)
  BY <1>1 DEF objects
<1>3. Cardinality(counted) < fetchLimit => Top(held[cols[i]] \cap S, f, fetchLimit) = held[cols[i]] \cap S
  BY <1>2, FetchCut
<1>4. QED  BY <1>3 DEF counted, objects

\* What friends returned is not counted; but they return no more than is on the list,
\* and are asked for more than a page has, unless they alone are asked.
LEMMA SearchCuts ==
  ASSUME NEW cols \in Sources, held \in [ToSet(cols) -> SUBSET Memories],
         NEW offset \in Nat, NEW limit \in Nat \ {0},
         Listed(held) \cap Blocked = {}, ~ (Len(cols) = 1 /\ ToSet(cols) \subseteq Friends)
  PROVE  Cuts(Search(cols, offset, limit), Sorted(Listed(held), "score"), offset, limit)
<1> DEFINE f == "score"
           n == offset + limit
           fetchLimit == (limit + offset) * Len(cols)
           objects == FetchAcrossCollections(cols, f, Memories, fetchLimit)
           ids == Ids(Unblocked(DedupeBySourceId(cols, DedupePool(objects))))
           counted == {o \in objects : cols[o.from] \notin Friends}
           raw == Cardinality(counted)
           none == {}
<1>1. f \in Fields
  BY DEF Fields
<1>2. /\ fetchLimit \in Nat /\ n \in Nat /\ n <= fetchLimit
      /\ Len(cols) # 1 => n < fetchLimit
  <2>1. Len(cols) \in Nat \ {0} /\ limit + offset \in Nat \ {0} /\ n = limit + offset
    BY ColsAre
  <2>2. /\ fetchLimit \in Nat /\ limit + offset <= fetchLimit
        /\ Len(cols) # 1 => limit + offset < fetchLimit
    BY <2>1, Times
  <2>3. QED  BY <2>1, <2>2
<1>3. Search(cols, offset, limit)
        = [items |-> Slice(Sorted(ids, f), offset, limit),
           hasMore |-> HasMore(Cardinality(ids), raw, fetchLimit, offset, limit)]
  BY DEF Search
<1> HIDE DEF f, fetchLimit
<1>4. Listed(held) \cap Memories = Listed(held) /\ Listed(held) \in SUBSET Memories
  BY HeldIs
<1>5. /\ Copies(objects, cols) /\ Ids(objects) \subseteq Listed(held)
      /\ \A o \in objects : o.id \in Listed(held)
  BY <1>1, <1>2, FetchCopies
<1>6. ids = Ids(objects)
  <2> HIDE DEF objects
  <2>1. QED  BY <1>5, DedupePoolIs
<1>7. raw \in Nat
  <2>1. IsFiniteSet(objects)
    BY <1>1, <1>2, FetchFinite
  <2> HIDE DEF objects
  <2>2. counted \in SUBSET objects
    OBVIOUS
  <2>3. QED  BY <2>1, <2>2, FS_Subset, FS_CardinalityType
<1>8. ASSUME raw < fetchLimit, Cardinality(ids) <= n PROVE Ids(objects) = Listed(held)
  <2>1. ASSUME NEW i \in DOMAIN cols
        PROVE  Top(held[cols[i]] \cap Memories, f, fetchLimit) = held[cols[i]] \cap Memories
    <3> DEFINE found == Top(held[cols[i]] \cap Memories, f, fetchLimit)
    <3>1. CASE cols[i] \notin Friends
      <4>1. raw < fetchLimit => found = held[cols[i]] \cap Memories
        BY <1>1, <1>2, <3>1, SearchCounted
      <4>2. QED  BY <1>8, <4>1
    <3>2. CASE cols[i] \in Friends
      <4>1. Len(cols) # 1
        <5>1. SUFFICES ASSUME Len(cols) = 1 PROVE ToSet(cols) \subseteq Friends
          OBVIOUS
        <5>2. DOMAIN cols = {i}
          BY <5>1, ColsAre
        <5>3. QED  BY <3>2, <5>2 DEF ToSet
      <4>2. found \subseteq Ids(objects)
        <5>1. \A m \in found : [id |-> m, from |-> i] \in objects
          BY <1>1, <1>2, FetchIs
        <5> HIDE DEF objects, found
        <5>2. ASSUME NEW m \in found PROVE m \in Ids(objects)
          <6>1. [id |-> m, from |-> i] \in objects /\ [id |-> m, from |-> i].id = m
            BY <5>1
          <6>2. QED  BY <6>1 DEF Ids
        <5>3. QED  BY <5>2
      <4>3. IsFiniteSet(ids) /\ Cardinality(ids) \in Nat
        BY <1>4, <1>5, <1>6, SomeMemories
      <4>4. Cardinality(found) <= Cardinality(ids)
        BY <1>6, <4>2, <4>3, FS_Subset
      <4>5. held[cols[i]] \cap Memories \in SUBSET Memories
        OBVIOUS
      <4>6. Cardinality(found) \in Nat /\ (Cardinality(found) < fetchLimit => found = held[cols[i]] \cap Memories)
        BY <1>1, <1>2, <4>5, TopIs
      <4>7. Cardinality(found) < fetchLimit
        <5> HIDE DEF found, ids, n
        <5>1. QED  BY <1>2, <1>8, <4>1, <4>3, <4>4, <4>6
      <4>8. QED  BY <4>6, <4>7
    <3>3. QED  BY <3>1, <3>2
  <2>2. Ids(objects) = Listed(held) \cap Memories
    BY <1>1, <1>2, <2>1, FetchAll
  <2>3. QED  BY <1>4, <2>2
<1>9. none \in SUBSET Memories /\ Cardinality(none) = 0
  BY FS_EmptySet
<1>10. Listed(held) \ none = Listed(held) /\ offset + limit + Cardinality(none) <= fetchLimit
  BY <1>2, <1>9
<1>11. ids = Ids(objects) \ none
  BY <1>6
<1> HIDE DEF ids, raw, none
<1>12. Cuts([items |-> Slice(Sorted(ids, f), offset, limit),
             hasMore |-> HasMore(Cardinality(ids), raw, fetchLimit, offset, limit)],
            Sorted(Listed(held) \ none, f), offset, limit)
  BY <1>1, <1>2, <1>7, <1>8, <1>9, <1>10, <1>11, FetchedCuts
<1>13. QED  BY <1>3, <1>10, <1>12 DEF f

Fetched(cols, objects) == Ids(Unblocked(DedupeBySourceId(cols, DedupePool(objects))))

\* Each pool, as far as it is fetched, is in the order in which the first collection
\* that has a memory comes.
LEMMA DiscoveryPoolIs ==
  ASSUME NEW cols \in Sources, held \in [ToSet(cols) -> SUBSET Memories],
         NEW f \in Fields, NEW S \in SUBSET Memories,
         NEW n \in Nat, NEW fetchLimit \in Nat, n <= fetchLimit
  PROVE  LET objects == FetchAcrossCollections(cols, f, S, fetchLimit)
             pool == DiscoveryPool(cols, objects, f) IN
         /\ pool \in Seq(Memories)
         /\ Fetched(cols, objects) \in SUBSET (Listed(held) \cap S)
         /\ Lists(pool, Fetched(cols, objects)) /\ Len(pool) = Cardinality(Fetched(cols, objects))
         /\ Listed(held) \cap Blocked = {} =>
              /\ Agree(Pool(cols, held, S, f), pool, n)
              /\ Cardinality(objects) < fetchLimit =>
                   Len(Pool(cols, held, S, f)) = Len(pool)
<1> DEFINE objects == FetchAcrossCollections(cols, f, S, fetchLimit)
           kept == Unblocked(DedupeBySourceId(cols, DedupePool(objects)))
           U == Listed(held) \cap S
           T == Ids(kept)
           group == [m \in U |-> First(cols, held, m)]
           found == [m \in T |-> (CHOOSE o \in kept : o.id = m).from]
           pool == DiscoveryPool(cols, objects, f)
<1>1. group \in [U -> Nat] /\ Lists(Pool(cols, held, S, f), U)
  BY PoolIs
<1>2. U \in SUBSET Memories
  OBVIOUS
<1>3. \A m \in U : First(cols, held, m) \in DOMAIN cols /\ group[m] = First(cols, held, m)
  BY HeldIs
<1>4. \A o \in objects : /\ o.from \in DOMAIN cols /\ o.from \in Nat
                         /\ o.id \in held[cols[o.from]] /\ o.id \in U
  <2>1. \A o \in objects : o.from \in DOMAIN cols /\ o.id \in held[cols[o.from]]
    BY FetchIs
  <2>2. Copies(objects, cols) /\ \A o \in objects : o.id \in U
    BY FetchCopies
  <2> HIDE DEF objects, U
  <2>3. QED  BY <2>1, <2>2, ColsAre
<1>5. Copies(objects, cols)
  BY FetchCopies
<1>6. ASSUME Listed(held) \cap Blocked = {}, NEW m \in U, Cardinality(Ahead(group, f, m)) < n
      PROVE  [id |-> m, from |-> First(cols, held, m)] \in objects
  <2> DEFINE none == {}
  <2>1. none \in SUBSET Memories /\ Cardinality(none) = 0 /\ U \ none = U
    BY FS_EmptySet
  <2>2. n + Cardinality(none) <= fetchLimit
    BY <2>1
  <2>3. \A x \in U : x \in held[cols[First(cols, held, m)]] => group[x] <= group[m]
    BY <1>3, HeldIs
  <2> HIDE DEF none, group
  <2>4. /\ group \in [U \ none -> Nat] /\ m \in U \ none
        /\ \A x \in U \ none : x \in held[cols[First(cols, held, m)]] => group[x] <= group[m]
    BY <1>1, <2>1, <2>3
  <2>5. QED  BY <1>6, <2>1, <2>2, <2>4, FetchHas
<1>7. /\ kept \subseteq objects
      /\ \A o, p \in kept : o.id = p.id => o = p
      /\ \A o \in kept, p \in objects : o.id = p.id => o.from <= p.from
      /\ Listed(held) \cap Blocked = {} => T = Ids(objects)
  <2>1. \A o \in objects : o.id \in U
    BY <1>4
  <2>2. Listed(held) \cap Blocked = {} => U \cap Blocked = {}
    OBVIOUS
  <2> HIDE DEF objects, U
  <2>3. QED  BY <1>5, <2>1, <2>2, DedupePoolIs
<1>8. pool = Arranged(found, f)
  BY DEF DiscoveryPool
<1>9. Cardinality(objects) < fetchLimit => Ids(objects) = U
  BY FetchUncut
<1> HIDE DEF objects, kept, U, group
<1>10. T \in SUBSET U
  BY <1>4, <1>7 DEF Ids
<1>11. ASSUME NEW o \in kept PROVE o.id \in T /\ found[o.id] = o.from
  <2>1. o.id \in T
    BY DEF Ids
  <2>2. (CHOOSE p \in kept : p.id = o.id) = o
    BY <1>7
  <2>3. QED  BY <2>1, <2>2
<1>12. \A m \in T : \E o \in kept : o.id = m
  BY DEF Ids
<1>13. DOMAIN found = T
  OBVIOUS
<1>14. found = [m \in T |-> found[m]]
  OBVIOUS
<1> HIDE DEF T, found
<1>15. ASSUME NEW m \in T PROVE found[m] \in Nat /\ group[m] <= found[m]
  <2>1. PICK o \in kept : o.id = m
    BY <1>12
  <2>2. found[m] = o.from /\ o \in objects
    BY <1>7, <1>11, <2>1
  <2>3. o.from \in DOMAIN cols /\ o.from \in Nat /\ m \in held[cols[o.from]] /\ m \in U
    BY <1>4, <2>1, <2>2
  <2>4. First(cols, held, m) <= o.from
    BY <2>3, HeldIs DEF U
  <2>5. QED  BY <1>3, <2>2, <2>3, <2>4
<1>16. found \in [T -> Nat]
  BY <1>13, <1>14, <1>15
<1>17. T \in SUBSET Memories
  BY <1>2, <1>10
<1>18. Lists(pool, T) /\ Len(pool) = Cardinality(T)
  BY <1>8, <1>16, <1>17, ArrangedLists
<1>19. ASSUME Listed(held) \cap Blocked = {} PROVE Agree(Pool(cols, held, S, f), pool, n)
  <2>1. ASSUME NEW m \in U, Cardinality(Ahead(group, f, m)) < n
        PROVE  m \in T /\ found[m] = group[m]
    <3> DEFINE p == [id |-> m, from |-> First(cols, held, m)]
    <3>1. p \in objects /\ p.id = m /\ p.from = First(cols, held, m)
      BY <1>6, <1>19, <2>1
    <3> HIDE DEF p
    <3>2. m \in T
      BY <1>7, <1>19, <3>1 DEF Ids
    <3>3. PICK o \in kept : o.id = m
      BY <1>12, <3>2
    <3>4. found[m] = o.from /\ o.from <= p.from
      BY <1>7, <1>11, <3>1, <3>3
    <3>5. group[m] = p.from /\ group[m] \in Nat
      BY <1>1, <1>3, <3>1
    <3>6. QED  BY <1>15, <3>2, <3>4, <3>5
  <2>2. \A m \in T : group[m] <= found[m]
    BY <1>15
  <2>3. Agree(Arranged(group, f), Arranged(found, f), n)
    BY <1>1, <1>2, <1>10, <1>16, <2>1, <2>2, ArrangedAgree
  <2>4. QED  BY <1>8, <2>3 DEF Pool, group, U
<1>20. ASSUME Listed(held) \cap Blocked = {}, Cardinality(objects) < fetchLimit
       PROVE  Len(Pool(cols, held, S, f)) = Len(pool)
  <2>1. T = U
    BY <1>7, <1>9, <1>20
  <2>2. Len(Arranged(group, f)) = Cardinality(U)
    BY <1>1, <1>2, ArrangedLists
  <2>3. QED  BY <1>18, <2>1, <2>2 DEF Pool, group, U
<1>21. pool \in Seq(Memories)
  BY <1>18 DEF Lists
<1> HIDE DEF pool
<1>22. T = Fetched(cols, objects)
  BY DEF T, kept, Fetched
<1>23. QED  BY <1>10, <1>18, <1>19, <1>20, <1>21, <1>22 DEF pool, objects, U

LEMMA DiscoveryPoolLists ==
  ASSUME NEW cols \in Sources, held \in [ToSet(cols) -> SUBSET Memories],
         NEW f \in Fields, NEW S \in SUBSET Memories, NEW fetchLimit \in Nat
  PROVE  LET objects == FetchAcrossCollections(cols, f, S, fetchLimit)
             pool == DiscoveryPool(cols, objects, f) IN
         /\ Fetched(cols, objects) \in SUBSET (Listed(held) \cap S)
         /\ Lists(pool, Fetched(cols, objects)) /\ Len(pool) = Cardinality(Fetched(cols, objects))
<1>1. PICK n \in Nat : n <= fetchLimit
  OBVIOUS
<1> DEFINE objects == FetchAcrossCollections(cols, f, S, fetchLimit)
           pool == DiscoveryPool(cols, objects, f)
<1>2. Fetched(cols, objects) \in SUBSET (Listed(held) \cap S)
  BY <1>1, DiscoveryPoolIs
<1>3. Lists(pool, Fetched(cols, objects))
  BY <1>1, DiscoveryPoolIs
<1> DEFINE found == Fetched(cols, objects)
<1>4. Len(pool) = Cardinality(found)
  <2>1. found \in SUBSET Memories /\ Lists(pool, found)
    BY <1>2, <1>3
  <2> HIDE DEF found, pool
  <2>2. QED  BY <2>1, ListsLength
<1>5. QED  BY <1>2, <1>3, <1>4

LEMMA DiscoveryCuts ==
  ASSUME NEW cols \in Sources, held \in [ToSet(cols) -> SUBSET Memories],
         marked \in SUBSET Memories, NEW offset \in Nat, NEW limit \in Nat \ {0},
         Listed(held) \cap Blocked = {}
  PROVE  Cuts(ByDiscovery(cols, offset, limit),
              InterleaveDiscovery(Pool(cols, held, marked, "rating_bayesian"),
                                  Pool(cols, held, Memories \ marked, "created_at")),
              offset, limit)
<1> DEFINE f == "rating_bayesian"
           g == "created_at"
           unmarked == Memories \ marked
           n == offset + limit
           fetchLimit == FetchLimit(offset, limit)
           old == FetchAcrossCollections(cols, f, marked, fetchLimit)
           new == FetchAcrossCollections(cols, g, unmarked, fetchLimit)
           a == Pool(cols, held, marked, f)
           b == Pool(cols, held, unmarked, g)
           c == DiscoveryPool(cols, old, f)
           d == DiscoveryPool(cols, new, g)
           merged == InterleaveDiscovery(c, d)
           more == HasMore(Len(merged), Cardinality(old), fetchLimit, offset, limit)
<1>1. f \in Fields /\ g \in Fields /\ unmarked \in SUBSET Memories
  BY DEF Fields
<1>2. fetchLimit \in Nat /\ n \in Nat /\ n <= fetchLimit
  BY DEF FetchLimit
<1>3. ByDiscovery(cols, offset, limit)
        = [items |-> Slice(merged, offset, limit),
           hasMore |-> more \/ Cardinality(new) >= fetchLimit]
  BY DEF ByDiscovery
<1> HIDE DEF f, g, unmarked, fetchLimit
<1>4. Cardinality(old) \in Nat /\ Cardinality(new) \in Nat
  BY <1>1, <1>2, FetchFinite
<1>5. a \in Seq(Memories) /\ b \in Seq(Memories)
  <2>1. cols \in Sources \cup {<<Own>>}
    OBVIOUS
  <2>2. QED  BY <1>1, <2>1, PoolIs DEF Lists
<1>6. /\ c \in Seq(Memories) /\ Agree(a, c, n)
      /\ Cardinality(old) < fetchLimit => Len(a) = Len(c)
  <2>1. PICK k \in Nat : k = n
    BY <1>2
  <2>2. PICK L \in Nat : L = fetchLimit /\ k <= L
    BY <1>2, <2>1
  <2> DEFINE objects == FetchAcrossCollections(cols, f, marked, L)
             pool == DiscoveryPool(cols, objects, f)
  <2>3. pool \in Seq(Memories)
    BY <1>1, <2>2, DiscoveryPoolIs
  <2>4. Agree(a, pool, k)
    BY <1>1, <2>2, DiscoveryPoolIs
  <2>5. Cardinality(objects) < L => Len(a) = Len(pool)
    BY <1>1, <2>2, DiscoveryPoolIs
  <2>6. QED  BY <2>1, <2>2, <2>3, <2>4, <2>5
<1>7. /\ d \in Seq(Memories) /\ Agree(b, d, n)
      /\ Cardinality(new) < fetchLimit => Len(b) = Len(d)
  <2>1. PICK k \in Nat : k = n
    BY <1>2
  <2>2. PICK L \in Nat : L = fetchLimit /\ k <= L
    BY <1>2, <2>1
  <2> DEFINE objects == FetchAcrossCollections(cols, g, unmarked, L)
             pool == DiscoveryPool(cols, objects, g)
  <2>3. pool \in Seq(Memories)
    BY <1>1, <2>2, DiscoveryPoolIs
  <2>4. Agree(b, pool, k)
    BY <1>1, <2>2, DiscoveryPoolIs
  <2>5. Cardinality(objects) < L => Len(b) = Len(pool)
    BY <1>1, <2>2, DiscoveryPoolIs
  <2>6. QED  BY <2>1, <2>2, <2>3, <2>4, <2>5
<1> HIDE DEF a, b, c, d, old, new
<1> DEFINE whole == InterleaveDiscovery(a, b)
<1>8. Agree(whole, merged, n)
  BY <1>2, <1>5, <1>6, <1>7, InterleaveAgree
<1>9. /\ whole \in Seq(Memories) /\ Merges(whole, a, b)
      /\ merged \in Seq(Memories) /\ Merges(merged, c, d)
  BY <1>5, <1>6, <1>7, InterleaveIs
<1> HIDE DEF whole, merged
<1>10. Slice(merged, offset, limit) = Slice(whole, offset, limit)
  BY <1>8, <1>9, SliceSame
<1>11. Len(whole) = Len(a) + Len(b) /\ Len(merged) = Len(c) + Len(d) /\ Len(merged) \in Nat
  BY <1>9 DEF Merges
<1>12. more \in BOOLEAN /\ (~ more => Len(merged) <= n /\ Cardinality(old) < fetchLimit)
  BY <1>2, <1>4, <1>11, HasNoMore
<1> HIDE DEF more
<1>13. ~ (more \/ Cardinality(new) >= fetchLimit) => Len(whole) <= n
  BY <1>2, <1>4, <1>6, <1>7, <1>11, <1>12
<1>14. Cuts(ByDiscovery(cols, offset, limit), whole, offset, limit)
  <2> HIDE DEF n
  <2>1. Len(whole) <= n <=> Len(whole) <= offset + limit
    BY DEF n
  <2> DEFINE page == ByDiscovery(cols, offset, limit)
  <2>2. page.items = Slice(merged, offset, limit)
    BY <1>3
  <2>3. page.hasMore = (more \/ Cardinality(new) >= fetchLimit)
    BY <1>3
  <2> HIDE DEF page
  <2>4. page.hasMore \in BOOLEAN
    BY <2>3
  <2>5. ~ page.hasMore => Len(whole) <= offset + limit
    BY <1>13, <2>1, <2>3
  <2>6. QED  BY <1>10, <2>2, <2>4, <2>5 DEF Cuts, page
<1>15. QED  BY <1>14 DEF whole, a, b, f, g, unmarked

LEMMA PageCuts ==
  ASSUME NEW listing \in OwnListings \cup SpaceListings, NEW cols \in Sources \cup {<<Own>>},
         Reads(listing, cols), held \in [ToSet(cols) -> SUBSET Memories],
         marked \in SUBSET Memories, NEW offset \in Nat, NEW limit \in Nat \ {0},
         FitsTogether(listing, cols, held)
  PROVE  Cuts(Page(listing, cols, offset, limit), Whole(listing, cols, held, marked),
              offset, limit)
<1> DEFINE page == Page(listing, cols, offset, limit)
           whole == Whole(listing, cols, held, marked)
<1>1. CASE cols = <<Own>>
  <2>1. page = OwnPage(listing, offset, limit)
    BY <1>1 DEF Page
  <2>2. listing \in OwnListings
    BY <1>1 DEF Reads
  <2>3. QED  BY <1>1, <2>1, <2>2, OwnPageCuts
<1>2. CASE cols # <<Own>>
  <2>1. cols \in Sources /\ Listed(held) \cap Blocked = {}
    BY <1>2 DEF FitsTogether
  <2>2. listing \in SpaceListings
    BY <1>2 DEF Reads
  <2>3. /\ "score" \in Fields /\ "created_at" \in Fields /\ "rating_bayesian" \in Fields
        /\ "sort_field" \in Fields /\ "curated_score" \in Fields
    BY DEF Fields
  <2>4. CASE listing = "byDiscovery"
    <3>1. page = ByDiscovery(cols, offset, limit)
      BY <1>2, <2>4 DEF Page
    <3>2. whole = InterleaveDiscovery(Pool(cols, held, marked, "rating_bayesian"),
                                      Pool(cols, held, Memories \ marked, "created_at"))
      BY <2>4 DEF Whole
    <3>3. QED  BY <2>1, <3>1, <3>2, DiscoveryCuts
  <2>5. CASE listing = "search"
    <3>1. page = Search(cols, offset, limit)
      BY <1>2, <2>5 DEF Page
    <3>2. whole = Sorted(Listed(held), "score")
      BY <2>5 DEF Whole, Content, SortOf
    <3>3. ~ (Len(cols) = 1 /\ ToSet(cols) \subseteq Friends)
      BY <1>2, <2>5 DEF FitsTogether
    <3>4. QED  BY <2>1, <3>1, <3>2, <3>3, SearchCuts
  <2>6. CASE listing = "byRecommendation"
    <3>1. page = ByRecommendation(cols, offset, limit)
      BY <1>2, <2>6 DEF Page
    <3>2. whole = Sorted((Listed(held) \ marked) \cap Near, "distance")
      BY <2>6 DEF Whole, Content, SortOf
    <3>3. InSeveral(held) = {}
      BY <1>2, <2>6 DEF FitsTogether
    <3>4. QED  BY <2>1, <3>1, <3>2, <3>3, RecommendationCuts
  <2>7. CASE listing \in {"byTime", "byRating", "byProperty", "byBroad", "byCurated"}
    <3>1. page = SortedListing(cols, SortOf(listing), SortOf(listing), offset, limit)
      BY <1>2, <2>7 DEF Page, ByTime, ByRating, ByProperty, ByBroad, ByCurated, SortOf
    <3>2. whole = Sorted(Listed(held), SortOf(listing))
      BY <2>7 DEF Whole, Content
    <3>3. InSeveral(held) = {}
      BY <1>2, <2>7 DEF FitsTogether
    <3>4. SortOf(listing) \in Fields
      BY <2>7, SortOfIs
    <3> HIDE DEF page, whole
    <3>5. Cuts(SortedListing(cols, SortOf(listing), SortOf(listing), offset, limit),
               Sorted(Listed(held), SortOf(listing)), offset, limit)
      BY <2>1, <3>3, <3>4, SortedListingCuts
    <3>6. QED  BY <3>1, <3>2, <3>5 DEF page, whole
  <2>8. listing # "byCuratedSearch"
    BY DEF FitsTogether
  <2>9. QED  BY <2>2, <2>4, <2>5, <2>6, <2>7, <2>8 DEF SpaceListings
<1>3. QED  BY <1>1, <1>2

-----------------------------------------------------------------------------
(* Any page, whether the pages fit together or not                         *)

Short(s) == s \in Seq(Memories) /\ Len(s) \in Nat /\ Len(s) <= Cardinality(Memories)

LEMMA SortedShort ==
  ASSUME NEW S \in SUBSET Memories, NEW f \in Fields
  PROVE  Short(Sorted(S, f))
BY SortedLists, SomeMemories DEF Short, Lists

LEMMA MergedShort ==
  ASSUME NEW A \in SUBSET Memories, NEW B \in SUBSET Memories, A \cap B = {},
         NEW rated, Lists(rated, A), Len(rated) = Cardinality(A),
         NEW discovery, Lists(discovery, B), Len(discovery) = Cardinality(B)
  PROVE  Short(InterleaveDiscovery(rated, discovery))
<1> DEFINE merged == InterleaveDiscovery(rated, discovery)
<1>1. Lists(merged, A \cup B) /\ Len(merged) = Cardinality(A) + Cardinality(B)
  <2>1. Len(rated) \in Nat /\ Len(discovery) \in Nat
    BY DEF Lists
  <2>2. Lists(merged, A \cup B)
    BY InterleaveLists
  <2>3. Len(merged) = Len(rated) + Len(discovery)
    <3>1. rated \in Seq(Memories) /\ discovery \in Seq(Memories)
      BY DEF Lists
    <3>2. Merges(merged, rated, discovery)
      BY <3>1, InterleaveIs
    <3> HIDE DEF merged
    <3>3. QED  BY <3>2 DEF Merges
  <2>4. QED  BY <2>2, <2>3
<1>2. IsFiniteSet(A) /\ IsFiniteSet(B) /\ Cardinality(A \cap B) = 0
  BY SomeMemories, FS_EmptySet
<1>3. Cardinality(A \cup B) = Cardinality(A) + Cardinality(B) - Cardinality(A \cap B)
  BY <1>2, FS_Union
<1>4. A \cup B \in SUBSET Memories
  OBVIOUS
<1>5. Cardinality(A \cup B) <= Cardinality(Memories)
  BY <1>4, SomeMemories
<1>6. Cardinality(A) \in Nat /\ Cardinality(B) \in Nat
  BY SomeMemories
<1> HIDE DEF merged
<1>7. QED  BY <1>1, <1>2, <1>3, <1>5, <1>6 DEF Short, Lists, merged

LEMMA SlicesShort ==
  ASSUME NEW S \in SUBSET Memories, NEW slices, Slices(slices, S), NEW T \in SUBSET S
  PROVE  Short(SliceBySlice(T, slices))
<1>1. T \in SUBSET Memories /\ Slices(slices, T)
  BY DEF Slices
<1> DEFINE list == SliceBySlice(T, slices)
<1>2. Lists(list, T) /\ Len(list) = Cardinality(T)
  BY <1>1, SliceBySliceIs
<1> HIDE DEF list
<1>3. Cardinality(T) <= Cardinality(Memories)
  BY <1>1, SomeMemories
<1>4. QED  BY <1>2, <1>3 DEF Short, Lists, list

LEMMA OwnPageShort ==
  ASSUME held \in [ToSet(<<Own>>) -> SUBSET Memories], marked \in SUBSET Memories,
         NEW listing \in OwnListings, NEW offset \in Nat, NEW limit \in Nat \ {0}
  PROVE  LET items == OwnPage(listing, offset, limit).items IN
         \/ items = <<>>
         \/ \E list : Short(list) /\ items = Slice(list, offset, limit)
<1> DEFINE H == held[Own]
           fetchLimit == (limit + offset) * 2
           items == OwnPage(listing, offset, limit).items
<1>1. H \in SUBSET Memories
  BY OwnHeld
<1>2. /\ "rating_bayesian" \in Fields /\ "created_at" \in Fields /\ "curated_score" \in Fields
      /\ "distance" \in Fields /\ "score" \in Fields /\ "rated_at" \in Fields
  BY DEF Fields
<1>3. SUFFICES ASSUME items # <<>>
               PROVE  \E list : Short(list) /\ items = Slice(list, offset, limit)
  OBVIOUS
<1>4. CASE listing \in {"search", "byTime", "byDensity", "byRating", "byProperty", "byBroad"}
  <2>1. items = Slice(Sorted(H, SortOf(listing)), offset, limit)
    BY <1>4 DEF OwnPage, SortOf, OwnSearch, OwnByTime, OwnByDensity, OwnByRating, OwnByProperty,
                OwnByBroad, StorePage
  <2>2. SortOf(listing) \in Fields
    BY <1>4, SortOfIs
  <2>3. QED  BY <1>1, <2>1, <2>2, SortedShort
<1>5. CASE listing = "byMyRatings"
  <2>1. items = Slice(Sorted(marked, "rated_at"), offset, limit)
    BY <1>5 DEF OwnPage, OwnByMyRatings
  <2>2. QED  BY <1>2, <2>1, SortedShort
<1>6. CASE listing = "byMyRatingsSearch"
  <2>1. items = Slice(Sorted(Top(H, "score", SearchLimit) \cap marked, "score"), offset, limit)
    BY <1>6 DEF OwnPage, OwnByMyRatingsSearch
  <2>2. Top(H, "score", SearchLimit) \cap marked \in SUBSET Memories
    OBVIOUS
  <2>3. QED  BY <1>2, <2>1, <2>2, SortedShort
<1>7. CASE listing = "byRecommendation"
  <2> DEFINE found == (Top(H, "distance", limit + offset + Cardinality(marked)) \ marked)
                        \cap Near
  <2>1. items = Slice(Sorted(found, "distance"), offset, limit)
    BY <1>7 DEF OwnPage, OwnByRecommendation
  <2>2. found \in SUBSET Memories
    BY <1>1 DEF Top
  <2>3. QED  BY <1>2, <2>1, <2>2, SortedShort
<1>8. CASE listing = "byDiscovery"
  <2> DEFINE A == Top(H \cap marked, "rating_bayesian", fetchLimit)
             B == Top(H \ marked, "created_at", fetchLimit)
             list == InterleaveDiscovery(Sorted(A, "rating_bayesian"), Sorted(B, "created_at"))
  <2>1. items = Slice(list, offset, limit)
    BY <1>8 DEF OwnPage, OwnByDiscovery
  <2>2. A \in SUBSET Memories /\ B \in SUBSET Memories /\ A \cap B = {}
    BY <1>1 DEF Top
  <2> HIDE DEF A, B
  <2>3. Short(list)
    BY <1>2, <2>2, SortedLists, MergedShort
  <2>4. QED  BY <2>1, <2>3
<1>9. CASE listing \in {"byCurated", "byCuratedSearch"}
  <2> DEFINE by == IF listing = "byCurated" THEN "curated_score" ELSE "score"
             A == Top(H \cap marked, by, fetchLimit)
             B == Top(H, "created_at", (fetchLimit + 3) \div 4) \ marked
             list == InterleaveDiscovery(Sorted(A, "curated_score"), Sorted(B, "created_at"))
  <2>1. items = Slice(list, offset, limit)
    <3>1. items = OwnByCurated(by, offset, limit)
      BY <1>9 DEF OwnPage
    <3>2. QED  BY <3>1 DEF OwnByCurated
  <2>2. A \in SUBSET Memories /\ B \in SUBSET Memories /\ A \cap B = {}
    BY <1>1 DEF Top
  <2> HIDE DEF A, B
  <2>3. Short(list)
    BY <1>2, <2>2, SortedLists, MergedShort
  <2>4. QED  BY <2>1, <2>3
<1>10. \A slices : SearchSlices(slices, offset, limit) \in SUBSET H
  BY DEF SearchSlices, Top
<1>11. CASE listing = "byTimeSlice"
  <2>1. items = Slice(Sorted(SearchSlices(TimeSlices, offset, limit), "created_at"), offset, limit)
    BY <1>11 DEF OwnPage, OwnByTimeSlice
  <2>2. SearchSlices(TimeSlices, offset, limit) \in SUBSET Memories
    BY <1>1, <1>10
  <2>3. QED  BY <1>2, <2>1, <2>2, SortedShort
<1>12. CASE listing = "byDensitySlice"
  <2> DEFINE slices == OfCounts(GradedDensitySlices)
  <2>1. items = Slice(SliceBySlice(SearchSlices(slices, offset, limit), slices), offset, limit)
    BY <1>12 DEF OwnPage, OwnByDensitySlice
  <2>2. Slices(slices, H)
    BY <1>1, GradedSlices
  <2> HIDE DEF slices
  <2>3. Short(SliceBySlice(SearchSlices(slices, offset, limit), slices))
    BY <1>1, <1>10, <2>2, SlicesShort
  <2>4. QED  BY <2>1, <2>3
<1>13. CASE listing = "byDensitySliceAsc"
  <2> DEFINE densest == Top(H, "relationship_count", 1)
             slices == OfCounts(BuildEvenDensitySlices(Count[CHOOSE m \in densest : TRUE]))
  <2>1. items = Slice(SliceBySlice(SearchSlices(slices, offset, limit), slices), offset, limit)
    BY <1>3, <1>13 DEF OwnPage, OwnByDensitySliceAsc
  <2>2. Slices(slices, H)
    <3>1. Slices(AscendingSlices(held), H) \/ H = {}
      BY AscendingSlicesAre
    <3>2. QED  BY <3>1 DEF Slices, AscendingSlices
  <2> HIDE DEF slices
  <2>3. Short(SliceBySlice(SearchSlices(slices, offset, limit), slices))
    BY <1>1, <1>10, <2>2, SlicesShort
  <2>4. QED  BY <2>1, <2>3
<1>14. QED
  BY <1>4, <1>5, <1>6, <1>7, <1>8, <1>9, <1>11, <1>12, <1>13 DEF OwnListings

\* A page is a list of memories, and says that there is more only before what the
\* collections can have.
Bounded(page, cols, offset) ==
  /\ page.items \in Seq(Memories) /\ page.hasMore \in BOOLEAN
  /\ page.hasMore => offset < Cardinality(Memories) * Len(cols)

LEMMA OwnPageBounded ==
  ASSUME held \in [ToSet(<<Own>>) -> SUBSET Memories], marked \in SUBSET Memories,
         NEW listing \in OwnListings, NEW offset \in Nat, NEW limit \in Nat \ {0}
  PROVE  Bounded(OwnPage(listing, offset, limit), <<Own>>, offset)
<1> DEFINE page == OwnPage(listing, offset, limit)
           items == page.items
           total == Cardinality(Memories)
<1>1. items = <<>> \/ \E list : Short(list) /\ items = Slice(list, offset, limit)
  BY OwnPageShort
<1>2. page.hasMore = (Len(items) = limit)
  BY DEF OwnPage
<1>3. total \in Nat /\ Len(<<Own>>) = 1
  BY FS_CardinalityType, ListingsAssumption
<1> HIDE DEF page
<1>4. items \in Seq(Memories) /\ (Len(items) = limit => offset < total)
  <2>1. CASE items = <<>>
    <3>1. items \in Seq(Memories) /\ Len(items) = 0
      BY <2>1, EmptySeq
    <3>2. QED  BY <3>1
  <2>2. CASE \E list : Short(list) /\ items = Slice(list, offset, limit)
    <3>1. PICK list : Short(list) /\ items = Slice(list, offset, limit)
      BY <2>2
    <3>2. list \in Seq(Memories) /\ Len(list) \in Nat /\ Len(list) <= total
      BY <3>1 DEF Short
    <3>3. /\ items \in Seq(Memories)
          /\ Len(items) = IF Len(list) <= offset THEN 0 ELSE Smaller(limit, Len(list) - offset)
      BY <3>1, <3>2, SliceIs
    <3> DEFINE l == Len(items)
    <3>4. l = limit => offset < total
      <4>1. l = IF Len(list) <= offset THEN 0 ELSE Smaller(limit, Len(list) - offset)
        BY <3>3
      <4> HIDE DEF l, total
      <4>2. QED  BY <1>3, <3>2, <4>1 DEF Smaller
    <3>5. QED  BY <3>3, <3>4
  <2>3. QED  BY <1>1, <2>1, <2>2
<1>5. total * Len(<<Own>>) = total
  BY <1>3
<1> HIDE DEF items
<1>6. page.hasMore \in BOOLEAN /\ (page.hasMore => offset < total)
  BY <1>2, <1>4
<1>7. QED  BY <1>4, <1>5, <1>6 DEF Bounded, page, items

LEMMA HasMoreBounded ==
  ASSUME NEW total \in Nat, NEW raw \in Nat, NEW fetchLimit \in Nat, NEW offset \in Nat,
         NEW limit \in Nat \ {0}, NEW bound \in Nat,
         total <= bound, raw <= bound, offset + limit <= fetchLimit
  PROVE  /\ HasMore(total, raw, fetchLimit, offset, limit) \in BOOLEAN
         /\ HasMore(total, raw, fetchLimit, offset, limit) => offset < bound
BY DEF HasMore

LEMMA AsManyAsFit ==
  ASSUME NEW cols \in Sources
  PROVE  /\ Cardinality(Memories) * Len(cols) \in Nat
         /\ \A S \in SUBSET Memories :
              Cardinality(S) \in Nat /\ Cardinality(S) <= Cardinality(Memories) * Len(cols)
<1> DEFINE n == Cardinality(Memories)
           l == Len(cols)
<1>1. n \in Nat /\ l \in Nat \ {0}
  BY ColsAre, FS_CardinalityType, ListingsAssumption
<1> HIDE DEF n, l
<1>2. n * l \in Nat /\ n <= n * l
  <2>1. CASE n = 0
    BY <1>1, <2>1
  <2>2. CASE n # 0
    BY <1>1, <2>2, Times
  <2>3. QED  BY <2>1, <2>2
<1> DEFINE bound == n * l
<1>3. bound \in Nat /\ n <= bound
  BY <1>2
<1> HIDE DEF bound
<1>4. \A S \in SUBSET Memories : Cardinality(S) \in Nat /\ Cardinality(S) <= bound
  <2> SUFFICES ASSUME NEW S \in SUBSET Memories
               PROVE  Cardinality(S) \in Nat /\ Cardinality(S) <= bound
    OBVIOUS
  <2>1. Cardinality(S) \in Nat /\ Cardinality(S) <= n
    BY SomeMemories DEF n
  <2>2. QED  BY <1>1, <1>3, <2>1
<1>5. QED  BY <1>3, <1>4 DEF bound, n, l

LEMMA FetchedBounded ==
  ASSUME NEW cols \in Sources, NEW f \in Fields, NEW ids \in SUBSET Memories, NEW raw \in Nat,
         raw <= Cardinality(Memories) * Len(cols),
         NEW offset \in Nat, NEW limit \in Nat \ {0},
         NEW fetchLimit \in Nat, offset + limit <= fetchLimit
  PROVE  Bounded([items |-> Slice(Sorted(ids, f), offset, limit),
                  hasMore |-> HasMore(Cardinality(ids), raw, fetchLimit, offset, limit)],
                 cols, offset)
<1> DEFINE bound == Cardinality(Memories) * Len(cols)
           more == HasMore(Cardinality(ids), raw, fetchLimit, offset, limit)
<1>1. bound \in Nat /\ Cardinality(ids) \in Nat /\ Cardinality(ids) <= bound
  BY AsManyAsFit
<1>2. Slice(Sorted(ids, f), offset, limit) \in Seq(Memories)
  BY SortedShort, SliceIs DEF Short
<1>3. more \in BOOLEAN /\ (more => offset < bound)
  <2> HIDE DEF bound
  <2>1. raw <= bound
    BY DEF bound
  <2>2. PICK total \in Nat : total = Cardinality(ids) /\ total <= bound
    BY <1>1
  <2>3. /\ HasMore(total, raw, fetchLimit, offset, limit) \in BOOLEAN
        /\ HasMore(total, raw, fetchLimit, offset, limit) => offset < bound
    BY <1>1, <2>1, <2>2, HasMoreBounded
  <2>4. QED  BY <2>2, <2>3
<1> HIDE DEF more
<1>4. QED  BY <1>2, <1>3 DEF Bounded, more

LEMMA FewIds ==
  ASSUME NEW cols \in Sources, held \in [ToSet(cols) -> SUBSET Memories],
         NEW f \in Fields, NEW fetchLimit \in Nat
  PROVE  LET objects == FetchAcrossCollections(cols, f, Memories, fetchLimit) IN
         /\ Ids(Unblocked(DedupeBySourceId(cols, DedupePool(objects)))) \in SUBSET Memories
         /\ Ids(DedupeBySourceId(cols, Unblocked(objects))) \in SUBSET Memories
         /\ Ids(DedupeBySourceId(cols, objects)) \in SUBSET Memories
<1> DEFINE objects == FetchAcrossCollections(cols, f, Memories, fetchLimit)
<1>1. \A o \in objects : o.id \in Memories
  BY FetchCopies
<1> HIDE DEF objects
<1>2. /\ Unblocked(DedupeBySourceId(cols, DedupePool(objects))) \subseteq objects
      /\ DedupeBySourceId(cols, Unblocked(objects)) \subseteq objects
      /\ DedupeBySourceId(cols, objects) \subseteq objects
  BY DEF Unblocked, DedupeBySourceId, DedupePool
<1>3. \A kept : kept \subseteq objects => Ids(kept) \in SUBSET Memories
  BY <1>1 DEF Ids
<1>4. QED  BY <1>2, <1>3 DEF objects

LEMMA SpacePageBounded ==
  ASSUME NEW cols \in Sources, held \in [ToSet(cols) -> SUBSET Memories],
         marked \in SUBSET Memories, NEW offset \in Nat, NEW limit \in Nat \ {0}
  PROVE  /\ \A by \in Fields, f \in Fields :
              Bounded(SortedListing(cols, by, f, offset, limit), cols, offset)
         /\ Bounded(Search(cols, offset, limit), cols, offset)
         /\ Bounded(ByRecommendation(cols, offset, limit), cols, offset)
         /\ Bounded(ByDiscovery(cols, offset, limit), cols, offset)
<1>1. ASSUME NEW by \in Fields, NEW f \in Fields
      PROVE  Bounded(SortedListing(cols, by, f, offset, limit), cols, offset)
  <2> DEFINE fetchLimit == FetchLimit(offset, limit)
             objects == FetchAcrossCollections(cols, by, Memories, fetchLimit)
             ids == Ids(DedupeBySourceId(cols, Unblocked(objects)))
             raw == Cardinality(objects)
  <2>1. fetchLimit \in Nat /\ offset + limit <= fetchLimit
    BY DEF FetchLimit
  <2>2. SortedListing(cols, by, f, offset, limit)
          = [items |-> Slice(Sorted(ids, f), offset, limit),
             hasMore |-> HasMore(Cardinality(ids), raw, fetchLimit, offset, limit)]
    BY DEF SortedListing
  <2> HIDE DEF fetchLimit
  <2>3. ids \in SUBSET Memories
    BY <2>1, FewIds
  <2>4. raw \in Nat /\ raw <= Cardinality(Memories) * Len(cols)
    BY <2>1, FetchFinite
  <2> HIDE DEF ids, raw
  <2>5. QED  BY <2>1, <2>2, <2>3, <2>4, FetchedBounded
<1>2. Bounded(Search(cols, offset, limit), cols, offset)
  <2> DEFINE f == "score"
             fetchLimit == (limit + offset) * Len(cols)
             objects == FetchAcrossCollections(cols, f, Memories, fetchLimit)
             ids == Ids(Unblocked(DedupeBySourceId(cols, DedupePool(objects))))
             counted == {o \in objects : cols[o.from] \notin Friends}
             raw == Cardinality(counted)
  <2>1. f \in Fields
    BY DEF Fields
  <2>2. fetchLimit \in Nat /\ offset + limit <= fetchLimit
    <3>1. Len(cols) \in Nat \ {0} /\ limit + offset \in Nat \ {0}
      BY ColsAre
    <3>2. fetchLimit \in Nat /\ limit + offset <= fetchLimit
      BY <3>1, Times
    <3>3. offset + limit = limit + offset
      OBVIOUS
    <3>4. QED  BY <3>2, <3>3
  <2>3. Search(cols, offset, limit)
          = [items |-> Slice(Sorted(ids, f), offset, limit),
             hasMore |-> HasMore(Cardinality(ids), raw, fetchLimit, offset, limit)]
    BY DEF Search
  <2> HIDE DEF f, fetchLimit
  <2>4. ids \in SUBSET Memories
    BY <2>1, <2>2, FewIds
  <2>5. raw \in Nat /\ raw <= Cardinality(Memories) * Len(cols)
    <3>1. /\ IsFiniteSet(objects) /\ Cardinality(objects) \in Nat
          /\ Cardinality(objects) <= Cardinality(Memories) * Len(cols)
      BY <2>1, <2>2, FetchFinite
    <3> DEFINE all == Cardinality(objects)
               bound == Cardinality(Memories) * Len(cols)
    <3>2. IsFiniteSet(counted) /\ raw <= all
      <4> HIDE DEF objects
      <4>1. counted \in SUBSET objects
        OBVIOUS
      <4>2. QED  BY <3>1, <4>1, FS_Subset
    <3>3. raw \in Nat
      BY <3>2, FS_CardinalityType
    <3>4. all \in Nat /\ all <= bound /\ bound \in Nat
      BY <3>1, AsManyAsFit
    <3> HIDE DEF all, bound, raw
    <3>5. QED  BY <3>2, <3>3, <3>4 DEF bound
  <2> HIDE DEF ids, raw
  <2>6. QED  BY <2>1, <2>2, <2>3, <2>4, <2>5, FetchedBounded
<1>3. Bounded(ByRecommendation(cols, offset, limit), cols, offset)
  <2> DEFINE f == "distance"
             fetchLimit == limit + offset + Cardinality(marked)
             objects == FetchAcrossCollections(cols, f, Memories, fetchLimit)
             ids == ((Ids(DedupeBySourceId(cols, objects)) \ marked) \ Blocked) \cap Near
             raw == Cardinality(objects)
  <2>1. f \in Fields
    BY DEF Fields
  <2>2. fetchLimit \in Nat /\ offset + limit <= fetchLimit
    <3>1. Cardinality(marked) \in Nat
      BY SomeMemories
    <3>2. QED  BY <3>1
  <2>3. ByRecommendation(cols, offset, limit)
          = [items |-> Slice(Sorted(ids, f), offset, limit),
             hasMore |-> HasMore(Cardinality(ids), raw, fetchLimit, offset, limit)]
    BY DEF ByRecommendation
  <2> HIDE DEF f, fetchLimit
  <2>4. ids \in SUBSET Memories
    <3>1. Ids(DedupeBySourceId(cols, objects)) \in SUBSET Memories
      BY <2>1, <2>2, FewIds
    <3>2. QED  BY <3>1
  <2>5. raw \in Nat /\ raw <= Cardinality(Memories) * Len(cols)
    BY <2>1, <2>2, FetchFinite
  <2> HIDE DEF ids, raw
  <2>6. QED  BY <2>1, <2>2, <2>3, <2>4, <2>5, FetchedBounded
<1>4. Bounded(ByDiscovery(cols, offset, limit), cols, offset)
  <2> DEFINE f == "rating_bayesian"
             g == "created_at"
             unmarked == Memories \ marked
             fetchLimit == FetchLimit(offset, limit)
             old == FetchAcrossCollections(cols, f, marked, fetchLimit)
             new == FetchAcrossCollections(cols, g, unmarked, fetchLimit)
             c == DiscoveryPool(cols, old, f)
             d == DiscoveryPool(cols, new, g)
             merged == InterleaveDiscovery(c, d)
             bound == Cardinality(Memories) * Len(cols)
             more == HasMore(Len(merged), Cardinality(old), fetchLimit, offset, limit)
             A == Fetched(cols, old)
             B == Fetched(cols, new)
  <2>1. f \in Fields /\ g \in Fields /\ unmarked \in SUBSET Memories
    BY DEF Fields
  <2>2. fetchLimit \in Nat /\ offset + limit <= fetchLimit /\ 0 \in Nat /\ 0 <= fetchLimit
    BY DEF FetchLimit
  <2>3. ByDiscovery(cols, offset, limit)
          = [items |-> Slice(merged, offset, limit),
             hasMore |-> more \/ Cardinality(new) >= fetchLimit]
    BY DEF ByDiscovery
  <2> HIDE DEF f, g, fetchLimit
  <2>4. /\ Cardinality(old) \in Nat /\ Cardinality(old) <= bound
    BY <2>1, <2>2, FetchFinite
  <2>5. /\ Cardinality(new) \in Nat /\ Cardinality(new) <= bound
    BY <2>1, <2>2, FetchFinite
  <2>6. A \in SUBSET (Listed(held) \cap marked) /\ Lists(c, A) /\ Len(c) = Cardinality(A)
    BY <2>1, <2>2, DiscoveryPoolLists
  <2>7. B \in SUBSET (Listed(held) \cap unmarked) /\ Lists(d, B) /\ Len(d) = Cardinality(B)
    BY <2>1, <2>2, DiscoveryPoolLists
  <2>8. A \in SUBSET Memories /\ B \in SUBSET Memories /\ A \cap B = {}
    BY <2>1, <2>6, <2>7
  <2> HIDE DEF c, d, old, new, A, B
  <2>9. merged \in Seq(Memories) /\ Len(merged) \in Nat /\ Len(merged) <= Cardinality(Memories)
    BY <2>6, <2>7, <2>8, MergedShort DEF Short
  <2> HIDE DEF merged
  <2>10. bound \in Nat /\ Cardinality(Memories) \in Nat /\ Cardinality(Memories) <= bound
    <3>1. Memories \in SUBSET Memories
      OBVIOUS
    <3>2. QED  BY <3>1, AsManyAsFit
  <2> HIDE DEF bound
  <2>11. PICK total \in Nat : total = Len(merged) /\ total <= bound
    BY <2>9, <2>10
  <2>12. PICK raw \in Nat : raw = Cardinality(old) /\ raw <= bound
    BY <2>4
  <2>13. more \in BOOLEAN /\ (more => offset < bound)
    <3>1. /\ HasMore(total, raw, fetchLimit, offset, limit) \in BOOLEAN
          /\ HasMore(total, raw, fetchLimit, offset, limit) => offset < bound
      BY <2>2, <2>10, <2>11, <2>12, HasMoreBounded
    <3>2. QED  BY <2>11, <2>12, <3>1
  <2> HIDE DEF more
  <2>14. Cardinality(new) >= fetchLimit => offset < bound
    BY <2>2, <2>5, <2>10
  <2>15. Slice(merged, offset, limit) \in Seq(Memories)
    BY <2>9, SliceIs
  <2> DEFINE page == ByDiscovery(cols, offset, limit)
  <2>16. page.items = Slice(merged, offset, limit)
    BY <2>3
  <2>17. page.hasMore = (more \/ Cardinality(new) >= fetchLimit)
    BY <2>3
  <2> HIDE DEF page
  <2>18. page.hasMore \in BOOLEAN
    BY <2>17
  <2>19. page.hasMore => offset < bound
    BY <2>13, <2>14, <2>17
  <2>20. QED  BY <2>15, <2>16, <2>18, <2>19 DEF Bounded, page, bound
<1>5. QED  BY <1>1, <1>2, <1>3, <1>4

LEMMA PageBounded ==
  ASSUME NEW listing \in OwnListings \cup SpaceListings, NEW cols \in Sources \cup {<<Own>>},
         Reads(listing, cols), held \in [ToSet(cols) -> SUBSET Memories],
         marked \in SUBSET Memories, NEW offset \in Nat, NEW limit \in Nat \ {0}
  PROVE  Bounded(Page(listing, cols, offset, limit), cols, offset)
<1>1. CASE cols = <<Own>>
  <2>1. Page(listing, cols, offset, limit) = OwnPage(listing, offset, limit)
    BY <1>1 DEF Page
  <2>2. listing \in OwnListings
    BY <1>1 DEF Reads
  <2>3. QED  BY <1>1, <2>1, <2>2, OwnPageBounded
<1>2. CASE cols # <<Own>>
  <2>1. cols \in Sources /\ listing \in SpaceListings
    BY <1>2 DEF Reads
  <2>2. CASE listing = "byDiscovery"
    <3>1. Page(listing, cols, offset, limit) = ByDiscovery(cols, offset, limit)
      BY <1>2, <2>2 DEF Page
    <3>2. QED  BY <2>1, <3>1, SpacePageBounded
  <2>3. CASE listing = "search"
    <3>1. Page(listing, cols, offset, limit) = Search(cols, offset, limit)
      BY <1>2, <2>3 DEF Page
    <3>2. QED  BY <2>1, <3>1, SpacePageBounded
  <2>4. CASE listing = "byRecommendation"
    <3>1. Page(listing, cols, offset, limit) = ByRecommendation(cols, offset, limit)
      BY <1>2, <2>4 DEF Page
    <3>2. QED  BY <2>1, <3>1, SpacePageBounded
  <2>5. CASE listing \in {"byTime", "byRating", "byProperty", "byBroad", "byCurated"}
    <3>1. Page(listing, cols, offset, limit)
            = SortedListing(cols, SortOf(listing), SortOf(listing), offset, limit)
      BY <1>2, <2>5 DEF Page, ByTime, ByRating, ByProperty, ByBroad, ByCurated, SortOf
    <3>2. SortOf(listing) \in Fields
      BY <2>5, SortOfIs
    <3>3. Bounded(SortedListing(cols, SortOf(listing), SortOf(listing), offset, limit), cols, offset)
      BY <2>1, <3>2, SpacePageBounded
    <3>4. QED  BY <3>1, <3>3
  <2>6. CASE listing = "byCuratedSearch"
    <3>1. Page(listing, cols, offset, limit)
            = SortedListing(cols, "score", "curated_score", offset, limit)
      BY <1>2, <2>6 DEF Page, ByCurated
    <3>2. "score" \in Fields /\ "curated_score" \in Fields
      BY DEF Fields
    <3>3. QED  BY <2>1, <3>1, <3>2, SpacePageBounded
  <2>7. QED  BY <2>1, <2>2, <2>3, <2>4, <2>5, <2>6 DEF SpaceListings
<1>3. QED  BY <1>1, <1>2

-----------------------------------------------------------------------------
(* What comes and goes between two pages                                   *)

LEMMA SortedLater ==
  ASSUME NEW T \in SUBSET Memories, NEW S \in SUBSET T, NEW f \in Fields
  PROVE  Later(Sorted(S, f), Sorted(T, f))
<1> DEFINE before == OneGroup(S)
           after == OneGroup(T)
<1>1. before \in [S -> Nat] /\ \A m \in S : before[m] = 1
  BY OneGroupIs
<1>2. after \in [T -> Nat] /\ \A m \in T : after[m] = 1
  BY OneGroupIs
<1> HIDE DEF before, after
<1>3. \A m \in S : after[m] = before[m]
  BY <1>1, <1>2
<1>4. Later(Arranged(before, f), Arranged(after, f))
  BY <1>1, <1>2, <1>3, ArrangedLater
<1>5. QED  BY <1>4 DEF Sorted, before, after

\* A memory that no collection had comes to one: all others are listed as before,
\* but for those behind it.
LEMMA WholeLater ==
  ASSUME NEW listing \in OwnListings \cup SpaceListings, listing # "byDensitySliceAsc",
         NEW cols \in Sources \cup {<<Own>>}, Reads(listing, cols),
         NEW h \in [ToSet(cols) -> SUBSET Memories], NEW h2 \in [ToSet(cols) -> SUBSET Memories],
         NEW rated \in SUBSET Memories, NEW m, NEW c \in ToSet(cols), m \notin Listed(h),
         \A d \in ToSet(cols) : h2[d] = IF d = c THEN h[d] \cup {m} ELSE h[d]
  PROVE  /\ Content(listing, h, rated) \subseteq Content(listing, h2, rated)
         /\ Later(Whole(listing, cols, h, rated), Whole(listing, cols, h2, rated))
<1>1. Listed(h) \in SUBSET Memories /\ Listed(h2) \in SUBSET Memories
  BY HeldIs
<1>2. Listed(h) \subseteq Listed(h2)
  <2>1. \A d \in ToSet(cols) : h[d] \subseteq h2[d]
    OBVIOUS
  <2>2. DOMAIN h = ToSet(cols) /\ DOMAIN h2 = ToSet(cols)
    OBVIOUS
  <2>3. QED  BY <2>1, <2>2 DEF Listed
<1>3. Content(listing, h, rated) \subseteq Content(listing, h2, rated)
  <2>1. CASE listing = "byRecommendation"
    BY <1>2, <2>1 DEF Content
  <2>2. CASE listing \in {"byMyRatings", "byMyRatingsSearch"}
    BY <1>2, <2>2 DEF Content
  <2>3. CASE listing \notin {"byRecommendation", "byMyRatings", "byMyRatingsSearch"}
    BY <1>2, <2>3 DEF Content
  <2>4. QED  BY <2>1, <2>2, <2>3
<1>4. ASSUME NEW x \in Listed(h) PROVE First(cols, h2, x) = First(cols, h, x)
  <2>1. x # m
    OBVIOUS
  <2>2. \A i \in DOMAIN cols : x \in h2[cols[i]] <=> x \in h[cols[i]]
    BY <2>1, ColsAre
  <2> DEFINE i == First(cols, h, x)
             j == First(cols, h2, x)
  <2>3. /\ i \in DOMAIN cols /\ i \in Nat /\ x \in h[cols[i]]
        /\ \A k \in DOMAIN cols : x \in h[cols[k]] => i <= k
    BY HeldIs
  <2>4. /\ j \in DOMAIN cols /\ j \in Nat /\ x \in h2[cols[j]]
        /\ \A k \in DOMAIN cols : x \in h2[cols[k]] => j <= k
    <3>1. x \in Listed(h2)
      BY <1>2
    <3>2. QED  BY <3>1, HeldIs
  <2> HIDE DEF i, j
  <2>5. i <= j /\ j <= i
    BY <2>2, <2>3, <2>4
  <2>6. i = j
    BY <2>3, <2>4, <2>5
  <2>7. QED  BY <2>6 DEF i, j
<1>5. CASE listing = "byDiscovery"
  <2>1. ASSUME NEW S \in SUBSET Memories, NEW f \in Fields
        PROVE  LET short == Pool(cols, h, S, f)
                   long == Pool(cols, h2, S, f) IN
               /\ short \in Seq(Memories) /\ long \in Seq(Memories)
               /\ Later(short, long) /\ Len(short) <= Len(long)
    <3> DEFINE A == Listed(h) \cap S
               B == Listed(h2) \cap S
               before == [x \in A |-> First(cols, h, x)]
               after == [x \in B |-> First(cols, h2, x)]
    <3>1. before \in [A -> Nat] /\ after \in [B -> Nat]
      BY PoolIs
    <3>2. A \in SUBSET B /\ B \in SUBSET Memories
      BY <1>2
    <3>3. \A x \in A : after[x] = before[x]
      BY <1>2, <1>4
    <3> HIDE DEF A, B, before, after
    <3>4. /\ Later(Arranged(before, f), Arranged(after, f))
          /\ Len(Arranged(before, f)) <= Len(Arranged(after, f))
      BY <3>1, <3>2, <3>3, ArrangedLater
    <3>5. Pool(cols, h, S, f) \in Seq(Memories) /\ Pool(cols, h2, S, f) \in Seq(Memories)
      BY PoolIs DEF Lists
    <3>6. QED  BY <3>4, <3>5 DEF Pool, A, B, before, after
  <2>2. "rating_bayesian" \in Fields /\ "created_at" \in Fields /\ Memories \ rated \in SUBSET Memories
    BY DEF Fields
  <2> DEFINE p == Pool(cols, h, rated, "rating_bayesian")
             q == Pool(cols, h, Memories \ rated, "created_at")
             p2 == Pool(cols, h2, rated, "rating_bayesian")
             q2 == Pool(cols, h2, Memories \ rated, "created_at")
  <2>3. p \in Seq(Memories) /\ p2 \in Seq(Memories) /\ Later(p, p2) /\ Len(p) <= Len(p2)
    BY <2>1, <2>2
  <2>4. q \in Seq(Memories) /\ q2 \in Seq(Memories) /\ Later(q, q2) /\ Len(q) <= Len(q2)
    BY <2>1, <2>2
  <2>5. /\ Whole(listing, cols, h, rated) = InterleaveDiscovery(p, q)
        /\ Whole(listing, cols, h2, rated) = InterleaveDiscovery(p2, q2)
    BY <1>5 DEF Whole
  <2> HIDE DEF p, q, p2, q2
  <2>6. Later(InterleaveDiscovery(p, q), InterleaveDiscovery(p2, q2))
    BY <2>3, <2>4, InterleaveLater
  <2>7. QED  BY <1>3, <2>5, <2>6
<1>6. CASE listing = "byDensitySlice"
  <2>1. cols = <<Own>>
    BY <1>6 DEF Reads, SpaceListings
  <2>2. /\ Listed(h) = h[Own] /\ Listed(h2) = h2[Own]
        /\ h[Own] \in SUBSET h2[Own] /\ h2[Own] \in SUBSET Memories
    <3>1. Listed(h) = h[Own] /\ Listed(h2) = h2[Own]
      BY <2>1, OwnHeld
    <3>2. QED  BY <1>1, <1>2, <3>1
  <2> DEFINE slices == OfCounts(GradedDensitySlices)
             A == h[Own]
             B == h2[Own]
             before == [x \in A |-> CHOOSE i \in DOMAIN slices : x \in slices[i]]
             after == [x \in B |-> CHOOSE i \in DOMAIN slices : x \in slices[i]]
  <2>3. Slices(slices, A) /\ Slices(slices, B)
    BY <2>2, GradedSlices
  <2>4. before \in [A -> Nat] /\ after \in [B -> Nat]
    BY <2>2, <2>3, SliceBySliceIs, ZenonT(30)
  <2>5. \A x \in A : after[x] = before[x]
    BY <2>2
  <2>6. /\ Whole(listing, cols, h, rated) = Arranged(before, "score")
        /\ Whole(listing, cols, h2, rated) = Arranged(after, "score")
    BY <1>6 DEF Whole, SliceBySlice
  <2>7. "score" \in Fields /\ A \in SUBSET B /\ B \in SUBSET Memories
    BY <2>2 DEF Fields
  <2> HIDE DEF A, B, before, after
  <2>8. Later(Arranged(before, "score"), Arranged(after, "score"))
    BY <2>4, <2>5, <2>7, ArrangedLater
  <2>9. QED  BY <1>3, <2>6, <2>8
<1>7. CASE listing \notin {"byDiscovery", "byDensitySlice", "byDensitySliceAsc"}
  <2>1. SortOf(listing) \in Fields
    BY <1>7, SortOfIs
  <2>2. Content(listing, h2, rated) \in SUBSET Memories
    BY <1>1, ContentIs
  <2> DEFINE A == Content(listing, h, rated)
             B == Content(listing, h2, rated)
             f == SortOf(listing)
  <2>3. /\ Whole(listing, cols, h, rated) = Sorted(A, f)
        /\ Whole(listing, cols, h2, rated) = Sorted(B, f)
    BY <1>7 DEF Whole
  <2> HIDE DEF A, B, f
  <2>4. Later(Sorted(A, f), Sorted(B, f))
    BY <1>3, <2>1, <2>2, SortedLater DEF A, B, f
  <2>5. QED  BY <1>3, <2>3, <2>4
<1>8. QED  BY <1>5, <1>6, <1>7

-----------------------------------------------------------------------------
(* What a reader has seen of a list                                        *)

LEMMA ToSetIs ==
  ASSUME NEW s \in Seq(Memories), NEW m
  PROVE  m \in ToSet(s) <=> \E k \in 1..Len(s) : s[k] = m
<1>1. DOMAIN s = 1..Len(s)
  OBVIOUS
<1>2. QED  BY <1>1 DEF ToSet

LEMMA JoinedIs ==
  ASSUME NEW s \in Seq(Memories), NEW t \in Seq(Memories)
  PROVE  /\ Len(s) \in Nat /\ Len(t) \in Nat
         /\ s \o t \in Seq(Memories) /\ Len(s \o t) = Len(s) + Len(t)
         /\ \A k \in 1..(Len(s) + Len(t)) :
              (s \o t)[k] = IF k <= Len(s) THEN s[k] ELSE t[k - Len(s)]
OBVIOUS

\* What is owed of the list up to the offset was shown.
UpToOffset(shown, owed, whole, offset) ==
  \A i \in 1..Len(whole) : whole[i] \in owed /\ i <= offset => whole[i] \in ToSet(shown)

\* Nothing was shown twice, and nothing shown is to come again.
Once(shown, whole, offset) ==
  /\ Distinct(shown)
  /\ \A i \in 1..Len(whole) : whole[i] \in ToSet(shown) => i <= offset

LEMMA ShownNext ==
  ASSUME NEW S, NEW whole, Lists(whole, S), NEW offset \in Nat, NEW limit \in Nat \ {0},
         NEW shown \in Seq(Memories)
  PROVE  LET more == shown \o Slice(whole, offset, limit) IN
         /\ more \in Seq(Memories)
         /\ \A m \in ToSet(shown) : m \in ToSet(more)
         /\ \A i \in 1..Len(whole) : i > offset /\ i <= offset + limit => whole[i] \in ToSet(more)
         /\ \A m \in ToSet(more) : \/ m \in ToSet(shown)
                                   \/ \E i \in 1..Len(whole) : i <= offset + limit /\ whole[i] = m
<1> DEFINE cut == Slice(whole, offset, limit)
           more == shown \o cut
           a == Len(shown)
           b == Len(cut)
           n == Len(whole)
<1>1. whole \in Seq(Memories) /\ n \in Nat
  BY DEF Lists
<1>2. /\ cut \in Seq(Memories)
      /\ b = IF n <= offset THEN 0 ELSE Smaller(limit, n - offset)
      /\ \A i \in 1..b : offset + i <= n /\ cut[i] = whole[offset + i]
  BY <1>1, SliceIs
<1> HIDE DEF cut
<1>3. a \in Nat /\ b \in Nat
  BY <1>2
<1>4. /\ more \in Seq(Memories) /\ Len(more) = a + b
      /\ \A k \in 1..(a + b) : more[k] = IF k <= a THEN shown[k] ELSE cut[k - a]
  BY <1>2, JoinedIs
<1> HIDE DEF more, a, b, n
<1>5. ASSUME NEW m \in ToSet(shown) PROVE m \in ToSet(more)
  <2>1. PICK k \in 1..a : shown[k] = m
    BY ToSetIs DEF a
  <2>2. k \in 1..(a + b) /\ more[k] = m
    BY <1>3, <1>4, <2>1
  <2>3. QED  BY <1>4, <2>2, ToSetIs
<1>6. ASSUME NEW i \in 1..n, i > offset, i <= offset + limit
      PROVE  whole[i] \in ToSet(more)
  <2>1. i - offset \in 1..b
    BY <1>1, <1>2, <1>6 DEF Smaller
  <2>2. PICK j \in 1..b : j = i - offset
    BY <2>1
  <2>3. cut[j] = whole[i]
    BY <1>1, <1>2, <2>2
  <2>4. PICK k \in 1..(a + b) : k = a + j
    BY <1>3
  <2>5. ~ (k <= a) /\ k - a = j
    BY <1>3, <2>4
  <2>6. more[k] = whole[i]
    BY <1>4, <2>3, <2>5
  <2>7. QED  BY <1>4, <2>6, ToSetIs
<1>7. ASSUME NEW m \in ToSet(more)
      PROVE  m \in ToSet(shown) \/ \E i \in 1..n : i <= offset + limit /\ whole[i] = m
  <2>1. PICK k \in 1..(a + b) : more[k] = m
    BY <1>4, ToSetIs
  <2>2. CASE k <= a
    <3>1. k \in 1..a /\ shown[k] = m
      BY <1>3, <1>4, <2>1, <2>2
    <3>2. QED  BY <3>1, ToSetIs DEF a
  <2>3. CASE ~ (k <= a)
    <3>1. k - a \in 1..b /\ cut[k - a] = m
      BY <1>3, <1>4, <2>1, <2>3
    <3>2. PICK j \in 1..b : j = k - a
      BY <3>1
    <3>3. whole[offset + j] = m /\ offset + j <= n /\ j <= limit
      BY <1>1, <1>2, <3>1, <3>2 DEF Smaller
    <3>4. QED  BY <1>1, <3>3
  <2>4. QED  BY <2>2, <2>3
<1>8. QED  BY <1>4, <1>5, <1>6, <1>7 DEF more, cut, n

LEMMA UpToOffsetNext ==
  ASSUME NEW S, NEW whole, Lists(whole, S), NEW offset \in Nat, NEW limit \in Nat \ {0},
         NEW shown \in Seq(Memories), NEW owed, UpToOffset(shown, owed, whole, offset)
  PROVE  UpToOffset(shown \o Slice(whole, offset, limit), owed, whole, offset + limit)
<1> DEFINE more == shown \o Slice(whole, offset, limit)
<1>1. /\ \A m \in ToSet(shown) : m \in ToSet(more)
      /\ \A i \in 1..Len(whole) : i > offset /\ i <= offset + limit => whole[i] \in ToSet(more)
  BY ShownNext
<1> HIDE DEF more
<1>2. ASSUME NEW i \in 1..Len(whole), whole[i] \in owed, i <= offset + limit
      PROVE  whole[i] \in ToSet(more)
  <2>1. CASE i <= offset
    BY <1>1, <1>2, <2>1 DEF UpToOffset
  <2>2. CASE i > offset
    BY <1>1, <1>2, <2>2
  <2>3. QED  BY <2>1, <2>2
<1>3. QED  BY <1>2 DEF UpToOffset, more

LEMMA OnceNext ==
  ASSUME NEW S, NEW whole, Lists(whole, S), NEW offset \in Nat, NEW limit \in Nat \ {0},
         NEW shown \in Seq(Memories), Once(shown, whole, offset)
  PROVE  Once(shown \o Slice(whole, offset, limit), whole, offset + limit)
<1> DEFINE cut == Slice(whole, offset, limit)
           more == shown \o cut
           a == Len(shown)
           b == Len(cut)
           n == Len(whole)
<1>1. /\ whole \in Seq(Memories) /\ n \in Nat
      /\ \A i, j \in 1..n : whole[i] = whole[j] => i = j
  BY DEF Lists, Distinct
<1>2. /\ cut \in Seq(Memories)
      /\ \A i \in 1..b : offset + i <= n /\ cut[i] = whole[offset + i]
  BY <1>1, SliceIs
<1>3. \A m \in ToSet(more) : \/ m \in ToSet(shown)
                             \/ \E i \in 1..n : i <= offset + limit /\ whole[i] = m
  BY ShownNext
<1> HIDE DEF cut
<1>4. a \in Nat /\ b \in Nat
  BY <1>2
<1>5. /\ more \in Seq(Memories) /\ Len(more) = a + b
      /\ \A k \in 1..(a + b) : more[k] = IF k <= a THEN shown[k] ELSE cut[k - a]
  BY <1>2
<1>6. /\ \A i, j \in 1..a : shown[i] = shown[j] => i = j
      /\ \A i \in 1..n : whole[i] \in ToSet(shown) => i <= offset
  BY DEF Once, Distinct
<1>7. \A i \in 1..a : shown[i] \in ToSet(shown)
  BY ToSetIs
<1> HIDE DEF more, a, b, n
<1>8. ASSUME NEW i \in 1..n, whole[i] \in ToSet(more) PROVE i <= offset + limit
  BY <1>1, <1>3, <1>6, <1>8
<1>9. ASSUME NEW k \in 1..a, NEW j \in 1..b PROVE shown[k] # cut[j]
  <2>1. PICK i \in 1..n : i = offset + j
    BY <1>1, <1>2
  <2>2. cut[j] = whole[i] /\ ~ (i <= offset)
    BY <1>2, <1>4, <2>1
  <2>3. QED  BY <1>6, <1>7, <2>2
<1>10. ASSUME NEW i \in 1..b, NEW j \in 1..b, cut[i] = cut[j] PROVE i = j
  <2>1. PICK k \in 1..n : k = offset + i
    BY <1>1, <1>2
  <2>2. PICK l \in 1..n : l = offset + j
    BY <1>1, <1>2
  <2>3. whole[k] = whole[l]
    BY <1>2, <1>10, <2>1, <2>2
  <2>4. k = l
    BY <1>1, <2>3
  <2>5. QED  BY <2>1, <2>2, <2>4
<1>11. ASSUME NEW i \in 1..(a + b), NEW j \in 1..(a + b), more[i] = more[j] PROVE i = j
  <2>1. CASE i <= a /\ j <= a
    BY <1>4, <1>5, <1>6, <1>11, <2>1
  <2>2. CASE i > a /\ j > a
    <3>1. PICK k \in 1..b : k = i - a
      BY <1>4, <2>2
    <3>2. PICK l \in 1..b : l = j - a
      BY <1>4, <2>2
    <3>3. cut[k] = cut[l]
      BY <1>4, <1>5, <1>11, <2>2, <3>1, <3>2
    <3>4. k = l
      BY <1>10, <3>3
    <3>5. QED  BY <1>4, <3>1, <3>2, <3>4
  <2>3. CASE i <= a /\ j > a
    <3>1. PICK l \in 1..b : l = j - a
      BY <1>4, <2>3
    <3>2. shown[i] = cut[l] /\ i \in 1..a
      BY <1>4, <1>5, <1>11, <2>3, <3>1
    <3>3. QED  BY <1>9, <3>2
  <2>4. CASE i > a /\ j <= a
    <3>1. PICK k \in 1..b : k = i - a
      BY <1>4, <2>4
    <3>2. shown[j] = cut[k] /\ j \in 1..a
      BY <1>4, <1>5, <1>11, <2>4, <3>1
    <3>3. QED  BY <1>9, <3>2
  <2>5. QED  BY <1>4, <2>1, <2>2, <2>3, <2>4
<1>12. QED  BY <1>5, <1>8, <1>11 DEF Once, Distinct, more, cut, n

LEMMA FirstPages ==
  ASSUME NEW S, NEW whole, Lists(whole, S), NEW offset \in Nat, NEW limit \in Nat \ {0}
  PROVE  Slice(whole, 0, offset) \o Slice(whole, offset, limit) = Slice(whole, 0, offset + limit)
<1> DEFINE s == Slice(whole, 0, offset)
           t == Slice(whole, offset, limit)
           u == Slice(whole, 0, offset + limit)
           n == Len(whole)
<1>1. whole \in Seq(Memories) /\ n \in Nat
  BY DEF Lists
<1>2. /\ s \in Seq(Memories)
      /\ Len(s) = IF n <= 0 THEN 0 ELSE Smaller(offset, n - 0)
      /\ \A i \in 1..Len(s) : s[i] = whole[0 + i]
  BY <1>1, SliceIs
<1>3. /\ t \in Seq(Memories)
      /\ Len(t) = IF n <= offset THEN 0 ELSE Smaller(limit, n - offset)
      /\ \A i \in 1..Len(t) : t[i] = whole[offset + i]
  BY <1>1, SliceIs
<1>4. /\ u \in Seq(Memories)
      /\ Len(u) = IF n <= 0 THEN 0 ELSE Smaller(offset + limit, n - 0)
      /\ \A i \in 1..Len(u) : u[i] = whole[0 + i]
  <2>1. PICK k \in Nat : k = offset + limit
    OBVIOUS
  <2>2. QED  BY <1>1, <2>1, SliceIs
<1> HIDE DEF s, t, u
<1>5. Len(s) \in Nat /\ Len(t) \in Nat /\ Len(u) \in Nat
  BY <1>2, <1>3, <1>4
<1> HIDE DEF n
<1>6. Len(u) = Len(s) + Len(t) /\ (Len(t) > 0 => Len(s) = offset)
  <2>1. CASE n <= offset
    BY <1>1, <1>2, <1>3, <1>4, <1>5, <2>1 DEF Smaller
  <2>2. CASE n > offset
    BY <1>1, <1>2, <1>3, <1>4, <1>5, <2>2 DEF Smaller
  <2>3. QED  BY <1>1, <2>1, <2>2
<1>7. /\ s \o t \in Seq(Memories) /\ Len(s \o t) = Len(s) + Len(t)
      /\ \A k \in 1..(Len(s) + Len(t)) : (s \o t)[k] = IF k <= Len(s) THEN s[k] ELSE t[k - Len(s)]
  BY <1>2, <1>3, JoinedIs
<1>8. ASSUME NEW k \in Nat, k >= 1, k <= Len(u) PROVE (s \o t)[k] = u[k]
  <2>1. u[k] = whole[k] /\ k \in 1..(Len(s) + Len(t))
    BY <1>4, <1>5, <1>6, <1>8
  <2>2. CASE k <= Len(s)
    BY <1>2, <1>5, <1>6, <1>7, <2>1, <2>2
  <2>3. CASE ~ (k <= Len(s))
    <3>1. PICK j \in 1..Len(t) : j = k - Len(s)
      BY <1>5, <1>6, <1>8, <2>3
    <3>2. Len(s) = offset /\ t[j] = whole[offset + j]
      BY <1>3, <1>5, <1>6, <3>1
    <3>3. QED  BY <1>5, <1>6, <1>7, <2>1, <2>3, <3>1, <3>2
  <2>4. QED  BY <2>2, <2>3
<1> DEFINE v == s \o t
<1>9. v \in Seq(Memories) /\ Len(v) = Len(u) /\ \A k \in 1..Len(u) : v[k] = u[k]
  BY <1>5, <1>6, <1>7, <1>8
<1> HIDE DEF v
<1>10. v = u
  BY <1>4, <1>5, <1>9
<1>11. QED  BY <1>10 DEF v, s, t, u

LEMMA LaterUpTo ==
  ASSUME NEW S, NEW before, Lists(before, S), NEW T, NEW after, Lists(after, T),
         Later(before, after), NEW owed \in SUBSET S, NEW shown, NEW offset \in Nat,
         UpToOffset(shown, owed, before, offset)
  PROVE  UpToOffset(shown, owed, after, offset)
<1> DEFINE n == Len(before)
           k == Len(after)
<1>1. /\ n \in Nat /\ k \in Nat
      /\ \A m \in S : \E j \in 1..n : before[j] = m
      /\ \A i, j \in 1..k : after[i] = after[j] => i = j
  BY DEF Lists, Distinct
<1>2. \A i \in 1..n : \E j \in 1..k : after[j] = before[i] /\ i <= j
  BY DEF Later
<1>3. \A i \in 1..n : before[i] \in owed /\ i <= offset => before[i] \in ToSet(shown)
  BY DEF UpToOffset
<1> HIDE DEF n, k
<1>4. ASSUME NEW i \in 1..k, after[i] \in owed, i <= offset
      PROVE  after[i] \in ToSet(shown)
  <2>1. PICK j \in 1..n : before[j] = after[i]
    BY <1>1, <1>4
  <2>2. PICK l \in 1..k : after[l] = before[j] /\ j <= l
    BY <1>2
  <2>3. l = i
    BY <1>1, <2>1, <2>2
  <2>4. j <= offset
    BY <1>1, <1>4, <2>2, <2>3
  <2>5. QED  BY <1>3, <1>4, <2>1, <2>4
<1>5. QED  BY <1>4 DEF UpToOffset, k

LEMMA LaterOnce ==
  ASSUME NEW S, NEW before, Lists(before, S), NEW T, NEW after, Lists(after, T),
         Later(before, after), NEW shown, NEW offset \in Nat, Once(shown, after, offset)
  PROVE  Once(shown, before, offset)
<1> DEFINE n == Len(before)
           k == Len(after)
<1>1. n \in Nat /\ k \in Nat
  BY DEF Lists
<1>2. \A i \in 1..n : \E j \in 1..k : after[j] = before[i] /\ i <= j
  BY DEF Later
<1>3. Distinct(shown) /\ \A i \in 1..k : after[i] \in ToSet(shown) => i <= offset
  BY DEF Once
<1> HIDE DEF n, k
<1>4. ASSUME NEW i \in 1..n, before[i] \in ToSet(shown) PROVE i <= offset
  <2>1. PICK j \in 1..k : after[j] = before[i] /\ i <= j
    BY <1>2
  <2>2. j <= offset
    BY <1>3, <1>4, <2>1
  <2>3. QED  BY <1>1, <2>1, <2>2
<1>5. QED  BY <1>3, <1>4 DEF Once, n

-----------------------------------------------------------------------------
(* The invariant: a reader's pages are the beginning of the list there is, but *)
(* for what has moved across its offset.                                       *)

ListNow == Whole(reader.listing, reader.cols, held, marked)
ListedNow == Content(reader.listing, held, marked)

GoesOn ==
  ~ reader.ended => reader.offset < Cardinality(Memories) * Len(reader.cols) + reader.limit

OwedShown ==
  ~ reader.shrank => /\ reader.owed \subseteq ListedNow
                     /\ UpToOffset(reader.shown, reader.owed, ListNow, reader.offset)
                     /\ reader.ended => reader.owed \subseteq ToSet(reader.shown)

ShownOnce == ~ reader.grew => Once(reader.shown, ListNow, reader.offset)

ShownFirst ==
  ~ reader.grew /\ ~ reader.shrank =>
    reader.owed = ListedNow /\ reader.shown = Slice(ListNow, 0, reader.offset)

IInv ==
  /\ TypeOK
  /\ GoesOn
  /\ reader.fits => /\ FitsTogether(reader.listing, reader.cols, held)
                    /\ OwedShown /\ ShownOnce /\ ShownFirst

LEMMA NothingShown ==
  ASSUME NEW S, NEW whole, Lists(whole, S), NEW owed
  PROVE  /\ UpToOffset(<<>>, owed, whole, 0)
         /\ Once(<<>>, whole, 0)
         /\ <<>> = Slice(whole, 0, 0)
<1>1. whole \in Seq(Memories) /\ Len(whole) \in Nat
  BY DEF Lists
<1>2. ToSet(<<>>) = {} /\ Len(<<>>) = 0
  BY DEF ToSet
<1>3. UpToOffset(<<>>, owed, whole, 0)
  BY <1>1 DEF UpToOffset
<1>4. Once(<<>>, whole, 0)
  BY <1>2 DEF Once, Distinct
<1>5. Slice(whole, 0, 0) = <<>>
  <2>1. Slice(whole, 0, 0) \in Seq(Memories) /\ Len(Slice(whole, 0, 0)) = 0
    BY <1>1, SliceIs DEF Smaller
  <2>2. QED  BY <2>1
<1>6. QED  BY <1>3, <1>4, <1>5

\* The collections can have any number of memories.
LEMMA RoomIs ==
  ASSUME NEW cols \in Sources \cup {<<Own>>}
  PROVE  Cardinality(Memories) * Len(cols) \in Nat
<1>1. Cardinality(Memories) \in Nat /\ Len(cols) \in Nat
  BY ListingsAssumption, FS_CardinalityType, ColsAre
<1>2. QED  BY <1>1, Times

\* The type of a reader, and what each kind of step leaves of it.
LEMMA ReaderIs ==
  ASSUME TypeOK
  PROVE  /\ reader.listing \in OwnListings \cup SpaceListings
         /\ reader.cols \in Sources \cup {<<Own>>}
         /\ reader.limit \in Nat \ {0}
         /\ reader.offset \in Nat /\ reader.shown \in Seq(Memories)
         /\ reader.ended \in BOOLEAN /\ reader.owed \in SUBSET Memories
         /\ reader.fits \in BOOLEAN /\ reader.grew \in BOOLEAN /\ reader.shrank \in BOOLEAN
         /\ Lists(ListNow, ListedNow) /\ ListedNow \in SUBSET Memories
<1>1. /\ reader.listing \in OwnListings \cup SpaceListings
      /\ reader.cols \in Sources \cup {<<Own>>}
      /\ reader.limit \in Limits
      /\ reader.offset \in Nat /\ reader.shown \in Seq(Memories)
      /\ reader.ended \in BOOLEAN /\ reader.owed \in SUBSET Memories
      /\ reader.fits \in BOOLEAN /\ reader.grew \in BOOLEAN /\ reader.shrank \in BOOLEAN
  BY DEF TypeOK
<1>2. reader.limit \in Nat \ {0}
  BY <1>1, ListingsAssumption
<1>3. /\ Reads(reader.listing, reader.cols)
      /\ held \in [ToSet(reader.cols) -> SUBSET Memories] /\ marked \in SUBSET Memories
  BY DEF TypeOK
<1>4. Lists(ListNow, ListedNow)
  BY <1>1, <1>3, WholeLists DEF ListNow, ListedNow
<1>5. ListedNow \in SUBSET Memories
  BY <1>1, <1>3, HeldIs, ContentIs DEF ListedNow
<1>6. QED  BY <1>1, <1>2, <1>4, <1>5

\* The first state of the invariant.
LEMMA InitIInv == Init => IInv
<1> SUFFICES ASSUME Init PROVE IInv
  OBVIOUS
<1>1. PICK listing \in OwnListings \cup SpaceListings, cols \in Sources \cup {<<Own>>},
           limit \in Limits :
        /\ Reads(listing, cols)
        /\ held \in [ToSet(cols) -> SUBSET Memories]
        /\ marked \in IF UsesMarks(listing, cols) THEN SUBSET Memories ELSE {{}}
        /\ reader = [listing |-> listing, cols |-> cols, limit |-> limit, offset |-> 0,
                     shown |-> <<>>, ended |-> FALSE, owed |-> Owed(listing),
                     fits |-> FitsTogether(listing, cols, held), grew |-> FALSE,
                     shrank |-> FALSE]
        /\ writes = 0
  BY DEF Init
<1>2. marked \in SUBSET Memories
  BY <1>1
<1>3. Owed(listing) = Content(listing, held, marked)
  BY DEF Owed, Content
<1>4. Content(listing, held, marked) \in SUBSET Memories
  BY <1>1, <1>2, HeldIs, ContentIs
<1>5. FitsTogether(listing, cols, held) \in BOOLEAN
  BY DEF FitsTogether
<1>6. /\ reader.listing = listing /\ reader.cols = cols /\ reader.limit = limit
      /\ reader.offset = 0 /\ reader.shown = <<>> /\ reader.ended = FALSE
      /\ reader.owed = Content(listing, held, marked)
      /\ reader.grew = FALSE /\ reader.shrank = FALSE
  BY <1>1, <1>3
<1>7. reader.fits = FitsTogether(listing, cols, held)
  BY <1>1
<1>8. TypeOK
  BY <1>1, <1>2, <1>3, <1>4, <1>5 DEF TypeOK
<1>9. GoesOn
  <2>1. PICK room \in Nat : room = Cardinality(Memories) * Len(cols)
    BY RoomIs
  <2>2. limit \in Nat \ {0}
    BY ListingsAssumption
  <2>3. 0 < room + limit
    BY <2>2
  <2>4. QED  BY <1>6, <2>1, <2>3 DEF GoesOn
<1>10. /\ UpToOffset(<<>>, reader.owed, ListNow, 0) /\ Once(<<>>, ListNow, 0)
       /\ <<>> = Slice(ListNow, 0, 0)
  BY <1>8, ReaderIs, NothingShown
<1>11. reader.owed = ListedNow
  BY <1>6 DEF ListedNow
<1>12. OwedShown
  BY <1>6, <1>10, <1>11 DEF OwedShown
<1>13. ShownOnce /\ ShownFirst
  BY <1>6, <1>10, <1>11 DEF ShownOnce, ShownFirst
<1>14. reader.fits => FitsTogether(reader.listing, reader.cols, held)
  BY <1>5, <1>6, <1>7
<1>15. QED  BY <1>8, <1>9, <1>12, <1>13, <1>14 DEF IInv

\* What a change leaves of the reader.
LEMMA ChangedIs ==
  ASSUME TypeOK, NEW grew \in BOOLEAN, NEW shrank \in BOOLEAN, Changed(grew, shrank)
  PROVE  /\ writes' \in Nat /\ ~ reader.ended
         /\ reader' \in [listing : OwnListings \cup SpaceListings, cols : Sources \cup {<<Own>>},
                         limit : Limits, offset : Nat, shown : Seq(Memories), ended : BOOLEAN,
                         owed : SUBSET Memories, fits : BOOLEAN, grew : BOOLEAN, shrank : BOOLEAN]
         /\ reader'.listing = reader.listing /\ reader'.cols = reader.cols
         /\ reader'.limit = reader.limit /\ reader'.offset = reader.offset
         /\ reader'.shown = reader.shown /\ reader'.ended = reader.ended
         /\ reader'.owed = reader.owed
         /\ reader'.fits => reader.fits /\ FitsTogether(reader.listing, reader.cols, held')
         /\ ~ reader'.grew => ~ reader.grew /\ ~ grew
         /\ ~ reader'.shrank => ~ reader.shrank /\ ~ shrank
<1>1. writes' \in Nat /\ ~ reader.ended
  BY DEF Changed, TypeOK
<1>2. PICK fits \in BOOLEAN : fits <=> FitsTogether(reader.listing, reader.cols, held')
  OBVIOUS
<1>3. (reader.fits /\ FitsTogether(reader.listing, reader.cols, held')) = (reader.fits /\ fits)
  BY <1>2
<1>4. reader' = [reader EXCEPT !.fits = reader.fits /\ fits,
                               !.grew = reader.grew \/ grew, !.shrank = reader.shrank \/ shrank]
  BY <1>3 DEF Changed
<1>5. reader \in [listing : OwnListings \cup SpaceListings, cols : Sources \cup {<<Own>>},
                  limit : Limits, offset : Nat, shown : Seq(Memories), ended : BOOLEAN,
                  owed : SUBSET Memories, fits : BOOLEAN, grew : BOOLEAN, shrank : BOOLEAN]
  BY DEF TypeOK
<1>6. /\ reader' \in [listing : OwnListings \cup SpaceListings, cols : Sources \cup {<<Own>>},
                      limit : Limits, offset : Nat, shown : Seq(Memories), ended : BOOLEAN,
                      owed : SUBSET Memories, fits : BOOLEAN, grew : BOOLEAN, shrank : BOOLEAN]
      /\ reader'.listing = reader.listing /\ reader'.cols = reader.cols
      /\ reader'.limit = reader.limit /\ reader'.offset = reader.offset
      /\ reader'.shown = reader.shown /\ reader'.ended = reader.ended
      /\ reader'.owed = reader.owed
  BY <1>4, <1>5, ZenonT(30)
<1>7. reader'.fits = (reader.fits /\ fits)
  BY <1>4, <1>5
<1>8. reader'.grew = (reader.grew \/ grew)
  BY <1>4, <1>5
<1>9. reader'.shrank = (reader.shrank \/ shrank)
  BY <1>4, <1>5
<1>10. QED  BY <1>1, <1>2, <1>6, <1>7, <1>8, <1>9

\* After a change the reader is no further: what remains to be shown is that the
\* list as it is now fits what was shown, where the reader counts on it.
LEMMA ChangedKeeps ==
  ASSUME IInv, NEW grew \in BOOLEAN, NEW shrank \in BOOLEAN, Changed(grew, shrank),
         held' \in [ToSet(reader.cols) -> SUBSET Memories], marked' \in SUBSET Memories,
         FitsTogether(reader.listing, reader.cols, held')
           => FitsTogether(reader.listing, reader.cols, held)',
         grew \/ shrank,
         reader.fits /\ ~ shrank /\ ~ reader.shrank =>
           /\ reader.owed \subseteq ListedNow'
           /\ UpToOffset(reader.shown, reader.owed, ListNow', reader.offset),
         reader.fits /\ ~ grew /\ ~ reader.grew => Once(reader.shown, ListNow', reader.offset)
  PROVE  IInv'
<1>1. /\ writes' \in Nat /\ ~ reader.ended
      /\ reader' \in [listing : OwnListings \cup SpaceListings, cols : Sources \cup {<<Own>>},
                      limit : Limits, offset : Nat, shown : Seq(Memories), ended : BOOLEAN,
                      owed : SUBSET Memories, fits : BOOLEAN, grew : BOOLEAN, shrank : BOOLEAN]
      /\ reader'.listing = reader.listing /\ reader'.cols = reader.cols
      /\ reader'.limit = reader.limit /\ reader'.offset = reader.offset
      /\ reader'.shown = reader.shown /\ reader'.ended = reader.ended
      /\ reader'.owed = reader.owed
      /\ reader'.fits => reader.fits /\ FitsTogether(reader.listing, reader.cols, held')
      /\ ~ reader'.grew => ~ reader.grew /\ ~ grew
      /\ ~ reader'.shrank => ~ reader.shrank /\ ~ shrank
  BY ChangedIs DEF IInv
<1>2. Reads(reader.listing, reader.cols)
  BY DEF IInv, TypeOK
<1>3. TypeOK'
  BY <1>1, <1>2 DEF TypeOK
<1>4. GoesOn'
  BY <1>1 DEF GoesOn, IInv
<1>5. ASSUME reader'.fits
      PROVE  (FitsTogether(reader.listing, reader.cols, held) /\ OwedShown /\ ShownOnce
                /\ ShownFirst)'
  <2>1. reader.fits /\ FitsTogether(reader.listing, reader.cols, held')
    BY <1>1, <1>5
  <2>2. OwedShown'
    BY <1>1, <2>1 DEF OwedShown
  <2>3. ShownOnce'
    BY <1>1, <2>1 DEF ShownOnce
  <2>4. ShownFirst'
    BY <1>1 DEF ShownFirst
  <2>5. FitsTogether(reader.listing, reader.cols, held)'
    BY <1>1, <2>1
  <2>6. QED  BY <2>2, <2>3, <2>4, <2>5
<1>6. QED  BY <1>3, <1>4, <1>5 DEF IInv

\* What a collection has and who marked what, before and after a step that leaves
\* the reader where it is.
LEMMA ListedStep ==
  ASSUME TypeOK, reader'.listing = reader.listing, reader'.cols = reader.cols,
         held' \in [ToSet(reader.cols) -> SUBSET Memories], marked' \in SUBSET Memories
  PROVE  Lists(ListNow', ListedNow') /\ ListedNow' \in SUBSET Memories
<1>1. /\ reader.listing \in OwnListings \cup SpaceListings
      /\ reader.cols \in Sources \cup {<<Own>>}
      /\ Reads(reader.listing, reader.cols)
  BY DEF TypeOK
<1>2. /\ ListNow' = Whole(reader.listing, reader.cols, held', marked')
      /\ ListedNow' = Content(reader.listing, held', marked')
  BY DEF ListNow, ListedNow
<1>3. Lists(ListNow', ListedNow')
  BY <1>1, <1>2, WholeLists
<1>4. Listed(held') \in SUBSET Memories
  BY <1>1, HeldIs
<1>5. ListedNow' \in SUBSET Memories
  BY <1>2, <1>4, ContentIs
<1>6. QED  BY <1>3, <1>5

LEMMA AppearIInv ==
  ASSUME IInv, NEW m \in Memories, NEW c \in DOMAIN held, Appear(m, c)
  PROVE  IInv'
<1>1. TypeOK /\ held \in [ToSet(reader.cols) -> SUBSET Memories] /\ marked \in SUBSET Memories
  BY DEF IInv, TypeOK
<1>2. /\ c \in ToSet(reader.cols)
      /\ held' \in [ToSet(reader.cols) -> SUBSET Memories]
      /\ \A d \in ToSet(reader.cols) : held'[d] = IF d = c THEN held[d] \cup {m} ELSE held[d]
  BY <1>1 DEF Appear
<1>3. marked' = marked
  BY DEF Appear
<1>4. PICK shrank \in BOOLEAN : shrank <=> (m \in Listed(held) \/ Reslices)
  OBVIOUS
<1>5. (m \in Listed(held) \/ Reslices) = shrank
  <2>1. (m \in Listed(held) \/ Reslices) \in BOOLEAN
    BY DEF Reslices
  <2>2. QED  BY <1>4, <2>1
<1>6. Changed(TRUE, shrank)
  BY <1>5 DEF Appear
<1>7. reader'.listing = reader.listing /\ reader'.cols = reader.cols
  BY <1>1, <1>6, ChangedIs
<1>8. FitsTogether(reader.listing, reader.cols, held')
        => FitsTogether(reader.listing, reader.cols, held)'
  BY <1>3, <1>7 DEF FitsTogether
<1>9. ASSUME reader.fits, ~ shrank, ~ reader.shrank
      PROVE  /\ reader.owed \subseteq ListedNow'
             /\ UpToOffset(reader.shown, reader.owed, ListNow', reader.offset)
  <2>1. m \notin Listed(held) /\ reader.listing # "byDensitySliceAsc"
    BY <1>4, <1>9 DEF Reslices
  <2>2. /\ reader.owed \in SUBSET ListedNow /\ reader.offset \in Nat
        /\ UpToOffset(reader.shown, reader.owed, ListNow, reader.offset)
    BY <1>1, <1>9, ReaderIs DEF IInv, OwedShown
  <2>3. /\ reader.listing \in OwnListings \cup SpaceListings
        /\ reader.cols \in Sources \cup {<<Own>>}
        /\ Reads(reader.listing, reader.cols)
    BY <1>1 DEF TypeOK
  <2>4. /\ Content(reader.listing, held, marked) \subseteq Content(reader.listing, held', marked)
        /\ Later(Whole(reader.listing, reader.cols, held, marked),
                 Whole(reader.listing, reader.cols, held', marked))
    BY <1>1, <1>2, <2>1, <2>3, WholeLater
  <2>5. /\ ListNow' = Whole(reader.listing, reader.cols, held', marked)
        /\ ListedNow' = Content(reader.listing, held', marked)
    BY <1>3, <1>7 DEF ListNow, ListedNow
  <2>6. Later(ListNow, ListNow') /\ ListedNow \subseteq ListedNow'
    BY <2>4, <2>5 DEF ListNow, ListedNow
  <2>7. Lists(ListNow, ListedNow) /\ Lists(ListNow', ListedNow')
    BY <1>1, <1>2, <1>3, <1>7, ReaderIs, ListedStep
  <2>8. UpToOffset(reader.shown, reader.owed, ListNow', reader.offset)
    BY <2>2, <2>6, <2>7, LaterUpTo
  <2>9. QED  BY <2>2, <2>6, <2>8
<1>10. marked' \in SUBSET Memories
  BY <1>1, <1>3
<1>11. QED  BY <1>2, <1>6, <1>8, <1>9, <1>10, ChangedKeeps

LEMMA WithdrawIInv ==
  ASSUME IInv, NEW m \in Memories, NEW c \in DOMAIN held, Withdraw(m, c)
  PROVE  IInv'
<1>1. TypeOK /\ held \in [ToSet(reader.cols) -> SUBSET Memories] /\ marked \in SUBSET Memories
  BY DEF IInv, TypeOK
<1>2. /\ c \in ToSet(reader.cols) /\ m \in held[c]
      /\ held' \in [ToSet(reader.cols) -> SUBSET Memories]
      /\ \A d \in ToSet(reader.cols) : held'[d] = IF d = c THEN held[d] \ {m} ELSE held[d]
  BY <1>1 DEF Withdraw
<1>3. marked' = marked
  BY DEF Withdraw
<1>4. PICK grew \in BOOLEAN : grew <=> (m \in InSeveral(held) \/ Reslices)
  OBVIOUS
<1>5. (m \in InSeveral(held) \/ Reslices) = grew
  <2>1. (m \in InSeveral(held) \/ Reslices) \in BOOLEAN
    BY DEF Reslices
  <2>2. QED  BY <1>4, <2>1
<1>6. Changed(grew, TRUE)
  BY <1>5 DEF Withdraw
<1>7. reader'.listing = reader.listing /\ reader'.cols = reader.cols
  BY <1>1, <1>6, ChangedIs
<1>8. FitsTogether(reader.listing, reader.cols, held')
        => FitsTogether(reader.listing, reader.cols, held)'
  BY <1>3, <1>7 DEF FitsTogether
<1>9. ASSUME reader.fits, ~ grew, ~ reader.grew
      PROVE  Once(reader.shown, ListNow', reader.offset)
  <2>1. m \notin InSeveral(held) /\ reader.listing # "byDensitySliceAsc"
    BY <1>4, <1>9 DEF Reslices
  <2>2. m \notin Listed(held')
    <3>1. \A d \in ToSet(reader.cols) : d # c => m \notin held[d]
      BY <1>1, <1>2, <2>1 DEF InSeveral
    <3>2. DOMAIN held' = ToSet(reader.cols)
      BY <1>2
    <3>3. QED  BY <1>2, <3>1, <3>2 DEF Listed
  <2>3. \A d \in ToSet(reader.cols) : held[d] = IF d = c THEN held'[d] \cup {m} ELSE held'[d]
    BY <1>2
  <2>4. /\ reader.listing \in OwnListings \cup SpaceListings
        /\ reader.cols \in Sources \cup {<<Own>>}
        /\ Reads(reader.listing, reader.cols) /\ reader.offset \in Nat
    BY <1>1 DEF TypeOK
  <2>5. PICK h \in [ToSet(reader.cols) -> SUBSET Memories] : h = held'
    BY <1>2
  <2>6. /\ m \notin Listed(h)
        /\ \A d \in ToSet(reader.cols) : held[d] = IF d = c THEN h[d] \cup {m} ELSE h[d]
    BY <2>2, <2>3, <2>5
  <2>7. Later(Whole(reader.listing, reader.cols, h, marked),
              Whole(reader.listing, reader.cols, held, marked))
    BY <1>1, <1>2, <2>1, <2>4, <2>6, WholeLater
  <2>8. ListNow' = Whole(reader.listing, reader.cols, h, marked)
    BY <1>3, <1>7, <2>5 DEF ListNow
  <2>9. Later(ListNow', ListNow)
    BY <2>7, <2>8 DEF ListNow
  <2>10. Lists(ListNow, ListedNow) /\ Lists(ListNow', ListedNow')
    BY <1>1, <1>2, <1>3, <1>7, ReaderIs, ListedStep
  <2>11. Once(reader.shown, ListNow, reader.offset)
    BY <1>9 DEF IInv, ShownOnce
  <2>12. QED  BY <2>4, <2>9, <2>10, <2>11, LaterOnce
<1>10. marked' \in SUBSET Memories
  BY <1>1, <1>3
<1>11. QED  BY <1>2, <1>6, <1>8, <1>9, <1>10, ChangedKeeps

LEMMA MarkIInv ==
  ASSUME IInv, NEW m \in Memories, Mark(m)
  PROVE  IInv'
<1>1. TypeOK /\ held \in [ToSet(reader.cols) -> SUBSET Memories] /\ marked \in SUBSET Memories
  BY DEF IInv, TypeOK
<1>2. /\ held' = held /\ marked \subseteq marked' /\ marked' \in SUBSET Memories
      /\ Changed(TRUE, TRUE)
  BY <1>1 DEF Mark
<1>3. reader'.listing = reader.listing /\ reader'.cols = reader.cols
  BY <1>1, <1>2, ChangedIs
<1>4. FitsTogether(reader.listing, reader.cols, held')
        => FitsTogether(reader.listing, reader.cols, held)'
  BY <1>2, <1>3 DEF FitsTogether
<1>5. held' \in [ToSet(reader.cols) -> SUBSET Memories]
  BY <1>1, <1>2
<1>6. QED  BY <1>2, <1>4, <1>5, ChangedKeeps

LEMMA NextPageIInv ==
  ASSUME IInv, NextPage
  PROVE  IInv'
<1> DEFINE page == Page(reader.listing, reader.cols, reader.offset, reader.limit)
           items == page.items
           next == Slice(ListNow, reader.offset, reader.limit)
<1>1. TypeOK /\ held \in [ToSet(reader.cols) -> SUBSET Memories] /\ marked \in SUBSET Memories
  BY DEF IInv, TypeOK
<1>2. /\ reader.listing \in OwnListings \cup SpaceListings
      /\ reader.cols \in Sources \cup {<<Own>>}
      /\ reader.limit \in Nat \ {0}
      /\ reader.offset \in Nat /\ reader.shown \in Seq(Memories)
      /\ reader.owed \in SUBSET Memories
      /\ reader.fits \in BOOLEAN
      /\ Lists(ListNow, ListedNow) /\ ListedNow \in SUBSET Memories
  BY <1>1, ReaderIs
<1>3. Reads(reader.listing, reader.cols)
  BY <1>1 DEF TypeOK
<1>4. /\ items \in Seq(Memories)
      /\ page.hasMore \in BOOLEAN
      /\ page.hasMore => reader.offset < Cardinality(Memories) * Len(reader.cols)
  <2>1. Bounded(page, reader.cols, reader.offset)
    BY <1>1, <1>2, <1>3, PageBounded
  <2> HIDE DEF page
  <2>2. QED  BY <2>1 DEF Bounded
<1>5. ASSUME FitsTogether(reader.listing, reader.cols, held)
      PROVE  /\ items = next
             /\ ~ page.hasMore => Len(ListNow) <= reader.offset + reader.limit
  <2>1. Cuts(page, Whole(reader.listing, reader.cols, held, marked), reader.offset, reader.limit)
    BY <1>1, <1>2, <1>3, <1>5, PageCuts
  <2> HIDE DEF page
  <2>2. QED  BY <2>1 DEF Cuts, ListNow
<1>6. PICK hasMore \in BOOLEAN : hasMore <=> page.hasMore
  OBVIOUS
<1>7. /\ ~ reader.ended
      /\ reader' = [reader EXCEPT !.offset = reader.offset + reader.limit,
                                  !.shown = reader.shown \o items, !.ended = ~ page.hasMore]
      /\ held' = held /\ marked' = marked /\ writes' = writes
  BY DEF NextPage
<1> HIDE DEF page, items
<1>8. (~ page.hasMore) = (~ hasMore)
  BY <1>6
<1>9. reader' = [reader EXCEPT !.offset = reader.offset + reader.limit,
                               !.shown = reader.shown \o items, !.ended = ~ hasMore]
  BY <1>7, <1>8
<1>10. reader.shown \o items \in Seq(Memories) /\ reader.offset + reader.limit \in Nat
  BY <1>2, <1>4, JoinedIs
<1>11. /\ reader' \in [listing : OwnListings \cup SpaceListings, cols : Sources \cup {<<Own>>},
                       limit : Limits, offset : Nat, shown : Seq(Memories), ended : BOOLEAN,
                       owed : SUBSET Memories, fits : BOOLEAN, grew : BOOLEAN, shrank : BOOLEAN]
       /\ reader'.listing = reader.listing /\ reader'.cols = reader.cols
       /\ reader'.limit = reader.limit /\ reader'.offset = reader.offset + reader.limit
       /\ reader'.shown = reader.shown \o items
       /\ reader'.owed = reader.owed
  BY <1>1, <1>9, <1>10 DEF TypeOK
<1>12. /\ reader'.fits = reader.fits /\ reader'.grew = reader.grew
       /\ reader'.shrank = reader.shrank
  BY <1>1, <1>9 DEF TypeOK
<1>13. reader'.ended = ~ hasMore
  BY <1>1, <1>9 DEF TypeOK
<1>14. TypeOK'
  BY <1>1, <1>3, <1>7, <1>11 DEF TypeOK
<1>15. GoesOn'
  <2>1. PICK room \in Nat : room = Cardinality(Memories) * Len(reader.cols)
    BY <1>2, RoomIs
  <2>2. Cardinality(Memories)' = Cardinality(Memories)
    OBVIOUS
  <2>3. ASSUME ~ reader'.ended PROVE reader.offset + reader.limit < room + reader.limit
    <3>1. reader.offset < room
      BY <1>4, <1>6, <1>13, <2>1, <2>3
    <3>2. QED  BY <1>2, <3>1
  <2>4. QED  BY <1>11, <2>1, <2>3 DEF GoesOn
<1>16. /\ ListNow' = ListNow /\ ListedNow' = ListedNow
       /\ FitsTogether(reader.listing, reader.cols, held)'
            <=> FitsTogether(reader.listing, reader.cols, held)
  <2>1. ListNow' = ListNow
    BY <1>7, <1>11 DEF ListNow
  <2>2. ListedNow' = ListedNow
    BY <1>7, <1>11 DEF ListedNow
  <2>3. FitsTogether(reader.listing, reader.cols, held)'
            <=> FitsTogether(reader.listing, reader.cols, held)
    BY <1>7, <1>11 DEF FitsTogether
  <2>4. QED  BY <2>1, <2>2, <2>3
<1>17. ASSUME reader'.fits
       PROVE  (FitsTogether(reader.listing, reader.cols, held) /\ OwedShown /\ ShownOnce
                 /\ ShownFirst)'
  <2>1. FitsTogether(reader.listing, reader.cols, held) /\ OwedShown /\ ShownOnce /\ ShownFirst
    BY <1>12, <1>17 DEF IInv
  <2>2. items = next /\ (~ page.hasMore => Len(ListNow) <= reader.offset + reader.limit)
    BY <1>5, <2>1
  <2>3. reader'.shown = reader.shown \o Slice(ListNow, reader.offset, reader.limit)
    BY <1>11, <2>2
  <2>4. ASSUME ~ reader'.shrank
        PROVE  /\ reader.owed \subseteq ListedNow
               /\ UpToOffset(reader'.shown, reader.owed, ListNow, reader.offset + reader.limit)
    <3>1. /\ reader.owed \subseteq ListedNow
          /\ UpToOffset(reader.shown, reader.owed, ListNow, reader.offset)
      BY <1>12, <2>1, <2>4 DEF OwedShown
    <3>2. UpToOffset(reader.shown \o Slice(ListNow, reader.offset, reader.limit), reader.owed,
                     ListNow, reader.offset + reader.limit)
      BY <1>2, <3>1, UpToOffsetNext
    <3>3. QED  BY <2>3, <3>1, <3>2
  <2>5. ASSUME ~ reader'.shrank, reader'.ended
        PROVE  reader.owed \subseteq ToSet(reader'.shown)
    <3>1. Len(ListNow) <= reader.offset + reader.limit
      BY <1>6, <1>13, <2>2, <2>5
    <3>2. ASSUME NEW m \in reader.owed PROVE m \in ToSet(reader'.shown)
      <4>1. PICK i \in 1..Len(ListNow) : ListNow[i] = m
        BY <1>2, <2>4, <2>5 DEF Lists
      <4>2. i <= reader.offset + reader.limit
        BY <1>2, <3>1 DEF Lists
      <4>3. QED  BY <2>4, <2>5, <4>1, <4>2 DEF UpToOffset
    <3>3. QED  BY <3>2
  <2>6. OwedShown'
    BY <1>11, <1>16, <2>4, <2>5 DEF OwedShown
  <2>7. ShownOnce'
    <3>1. ASSUME ~ reader'.grew
          PROVE  Once(reader'.shown, ListNow, reader.offset + reader.limit)
      <4>1. Once(reader.shown, ListNow, reader.offset)
        BY <1>12, <2>1, <3>1 DEF ShownOnce
      <4>2. Once(reader.shown \o Slice(ListNow, reader.offset, reader.limit), ListNow,
                 reader.offset + reader.limit)
        BY <1>2, <4>1, OnceNext
      <4>3. QED  BY <2>3, <4>2
    <3>2. QED  BY <1>11, <1>16, <3>1 DEF ShownOnce
  <2>8. ShownFirst'
    <3>1. ASSUME ~ reader'.grew, ~ reader'.shrank
          PROVE  /\ reader.owed = ListedNow
                 /\ reader'.shown = Slice(ListNow, 0, reader.offset + reader.limit)
      <4>1. reader.owed = ListedNow /\ reader.shown = Slice(ListNow, 0, reader.offset)
        BY <1>12, <2>1, <3>1 DEF ShownFirst
      <4>2. Slice(ListNow, 0, reader.offset) \o Slice(ListNow, reader.offset, reader.limit)
              = Slice(ListNow, 0, reader.offset + reader.limit)
        <5>1. \A offset \in Nat : \A limit \in Nat \ {0} :
                Slice(ListNow, 0, offset) \o Slice(ListNow, offset, limit)
                  = Slice(ListNow, 0, offset + limit)
          BY <1>2, FirstPages
        <5>2. QED  BY <1>2, <5>1
      <4>3. QED  BY <2>3, <4>1, <4>2
    <3>2. QED  BY <1>11, <1>16, <3>1 DEF ShownFirst
  <2>9. QED  BY <1>16, <2>1, <2>6, <2>7, <2>8
<1>18. QED  BY <1>14, <1>15, <1>17 DEF IInv

LEMMA NextIInv == IInv /\ [Next]_vars => IInv'
<1> SUFFICES ASSUME IInv, [Next]_vars PROVE IInv'
  OBVIOUS
<1>1. CASE NextPage
  BY <1>1, NextPageIInv
<1>2. ASSUME NEW m \in Memories, Mark(m) PROVE IInv'
  BY <1>2, MarkIInv
<1>3. ASSUME NEW m \in Memories, NEW c \in DOMAIN held, Appear(m, c) PROVE IInv'
  BY <1>3, AppearIInv
<1>4. ASSUME NEW m \in Memories, NEW c \in DOMAIN held, Withdraw(m, c) PROVE IInv'
  BY <1>4, WithdrawIInv
<1>5. CASE UNCHANGED vars
  BY <1>5 DEF vars, IInv, TypeOK, GoesOn, OwedShown, ShownOnce, ShownFirst, ListNow, ListedNow,
              FitsTogether
<1>6. QED  BY <1>1, <1>2, <1>3, <1>4, <1>5 DEF Next

THEOREM SpecIInv == Spec => []IInv
BY InitIInv, NextIInv, PTL DEF Spec

\* What a reader was shown are memories, and what it reads keeps its shape, for any
\* collections, orders and page sizes.
THEOREM TypeCorrect == Spec => []TypeOK
<1>1. IInv => TypeOK
  BY DEF IInv
<1>2. QED  BY SpecIInv, <1>1, PTL

\* The listings whose pages fit together (FitsTogether) are covered by them: a reader
\* who was told that there is no more has seen every memory there was from the
\* beginning, unless one was taken away while it read, and none twice unless one was
\* added; with the fetch limits and the merging of the pools as MemoryService and
\* SpaceService have them, for any collections, sizes of page and changes meanwhile.
THEOREM PagesAlwaysCover == Spec => []PagesCover
<1>1. IInv => PagesCover
  <2> SUFFICES ASSUME IInv, reader.fits PROVE PagesCover
    BY DEF PagesCover
  <2>1. reader.shown \in Seq(Memories)
    BY ReaderIs DEF IInv
  <2>2. reader.ended /\ ~ reader.shrank => reader.owed \subseteq ToSet(reader.shown)
    BY DEF IInv, OwedShown
  <2>3. ASSUME ~ reader.grew
        PROVE  Cardinality(ToSet(reader.shown)) = Len(reader.shown)
    <3>1. Distinct(reader.shown)
      BY <2>3 DEF IInv, ShownOnce, Once
    <3>2. PICK shown \in Seq(Memories) : shown = reader.shown
      BY <2>1
    <3>3. \A m \in ToSet(shown) : \E i \in 1..Len(shown) : shown[i] = m
      BY ToSetIs
    <3>4. \A i \in 1..Len(shown) : shown[i] \in ToSet(shown)
      BY ToSetIs
    <3>5. Len(shown) \in Nat
      OBVIOUS
    <3>6. Lists(shown, ToSet(shown))
      BY <3>1, <3>2, <3>3, <3>4, <3>5 DEF Lists
    <3>7. ToSet(shown) \in SUBSET Memories
      BY DEF ToSet
    <3>8. Len(shown) = Cardinality(ToSet(shown))
      BY <3>6, <3>7, ListsLength
    <3>9. QED  BY <3>2, <3>8
  <2>4. QED  BY <2>2, <2>3 DEF PagesCover
<1>2. QED  BY SpecIInv, <1>1, PTL

\* A reader who reads on finishes: the last page there is says so, once the reader
\* asked for as many memories as the collections can have and one page more,
\* whether the pages fit together or not (the hasMore of each listing).
THEOREM ReadersAlwaysFinish == Spec => []ReadersFinish
<1>1. IInv => ReadersFinish
  <2> SUFFICES ASSUME IInv, ~ reader.ended,
                      reader.offset >= Cardinality(Memories) * Len(reader.cols) + reader.limit
               PROVE  FALSE
    BY ReaderIs DEF ReadersFinish, IInv
  <2>1. /\ reader.cols \in Sources \cup {<<Own>>} /\ reader.limit \in Nat \ {0}
        /\ reader.offset \in Nat
    BY ReaderIs DEF IInv
  <2>2. PICK room \in Nat : room = Cardinality(Memories) * Len(reader.cols)
    BY <2>1, RoomIs
  <2>3. reader.offset < room + reader.limit
    BY <2>2 DEF IInv, GoesOn
  <2>4. reader.offset >= room + reader.limit
    BY <2>2
  <2>5. QED  BY <2>1, <2>3, <2>4
<1>2. QED  BY SpecIInv, <1>1, PTL

\* The k-th of the discovery pool comes within the first k * (Ratio + 1).
LEMMA NewInTime ==
  ASSUME NEW a \in Nat, NEW b \in Nat, NEW n \in Nat, NEW k \in 1..b, k <= n \div (Ratio + 1)
  PROVE  NewPlace(a, k) \in 1..n
<1>1. PICK q \in Nat \ {0} : q = Ratio + 1
  BY ListingsAssumption
<1>2. PICK d \in Nat : d = n \div q
  BY <1>1, Quotient
<1>3. k \in Nat /\ k >= 1 /\ k <= d /\ k - 1 \in Nat
  BY <1>1, <1>2
<1>4. k * q \in Nat /\ (k - 1) * q \in Nat /\ k * q = (k - 1) * q + q
  BY <1>3, Times
<1>5. n < (k - 1) * q + q => d <= k - 1
  <2>1. PICK t \in Nat : t = k - 1
    BY <1>3
  <2>2. n < t * q + q => n \div q <= t
    BY QuotientBounds
  <2>3. QED  BY <1>2, <2>1, <2>2
<1>6. PICK x \in Nat : x = k * q
  BY <1>4
<1>7. x <= n
  <2>1. ~ (d <= k - 1)
    BY <1>3
  <2>2. ~ (n < (k - 1) * q + q)
    BY <1>5, <2>1
  <2>3. ~ (n < x)
    BY <1>4, <1>6, <2>2
  <2>4. QED  BY <2>3
<1>8. NewPlace(a, k) \in 1..(a + b)
  BY NewPlaceIs
<1>9. NewPlace(a, k) <= x
  BY <1>1, <1>3, <1>6 DEF NewPlace, Smaller
<1>10. PICK p \in Nat : p = NewPlace(a, k) /\ p >= 1
  BY <1>8
<1>11. QED  BY <1>7, <1>9, <1>10

\* Memories few have rated have their share of what a reader of byDiscovery has
\* seen, one of Ratio + 1 as long as there are any (interleaveDiscovery over the
\* pools of one collection or several).
THEOREM NewcomersAlwaysShown == Spec => []NewcomersShown
<1>1. IInv => NewcomersShown
  <2> SUFFICES ASSUME IInv, reader.listing = "byDiscovery", reader.fits,
                      ~ reader.grew, ~ reader.shrank
               PROVE  NewcomersShown
    BY DEF NewcomersShown
  <2> DEFINE shown == reader.shown
             new == reader.owed \ marked
             seen == {i \in DOMAIN shown : shown[i] \in new}
             rated == Pool(reader.cols, held, marked, "rating_bayesian")
             discovery == Pool(reader.cols, held, Memories \ marked, "created_at")
             a == Len(rated)
             b == Len(discovery)
             n == Len(shown)
             q == n \div (Ratio + 1)
  <2>1. /\ reader.cols \in Sources \cup {<<Own>>} /\ reader.offset \in Nat
        /\ shown \in Seq(Memories) /\ Lists(ListNow, ListedNow)
        /\ held \in [ToSet(reader.cols) -> SUBSET Memories] /\ marked \in SUBSET Memories
    BY ReaderIs DEF IInv, TypeOK
  <2>2. reader.owed = ListedNow /\ shown = Slice(ListNow, 0, reader.offset)
    BY DEF IInv, ShownFirst
  <2>3. ListNow = InterleaveDiscovery(rated, discovery)
    BY DEF ListNow, Whole
  <2>4. ListedNow = Listed(held) /\ Listed(held) \in SUBSET Memories
    BY <2>1, HeldIs DEF ListedNow, Content
  <2>5. "rating_bayesian" \in Fields /\ "created_at" \in Fields /\ Memories \ marked \in SUBSET Memories
    BY DEF Fields
  <2>6. Lists(rated, Listed(held) \cap marked)
    BY <2>1, <2>5, PoolIs
  <2>7. Lists(discovery, new)
    <3>1. Lists(discovery, Listed(held) \cap (Memories \ marked))
      BY <2>1, <2>5, PoolIs
    <3>2. Listed(held) \cap (Memories \ marked) = new
      BY <2>2, <2>4
    <3>3. QED  BY <3>1, <3>2
  <2> HIDE DEF rated, discovery, shown, new
  <2>8. /\ a \in Nat /\ b \in Nat /\ rated \in Seq(Memories) /\ discovery \in Seq(Memories)
        /\ \A k \in 1..b : discovery[k] \in new
        /\ \A k, l \in 1..b : discovery[k] = discovery[l] => k = l
        /\ \A m \in new : \E k \in 1..b : discovery[k] = m
    BY <2>6, <2>7 DEF Lists, Distinct
  <2>9. \A k \in 1..b : ListNow[NewPlace(a, k)] = discovery[k]
    <3>1. Merges(InterleaveDiscovery(rated, discovery), rated, discovery)
      BY <2>8, InterleaveIs
    <3>2. QED  BY <2>3, <3>1 DEF Merges
  <2>10. n \in Nat /\ DOMAIN shown = 1..n /\ \A i \in 1..n : shown[i] = ListNow[i]
    <3>1. \A i \in 1..n : shown[i] = ListNow[0 + i]
      BY <2>1, <2>2, SliceIs DEF Lists
    <3>2. n \in Nat /\ DOMAIN shown = 1..n
      BY <2>1
    <3> HIDE DEF n
    <3>3. \A i \in 1..n : 0 + i = i
      BY <3>2
    <3>4. QED  BY <3>1, <3>2, <3>3
  <2>11. q \in Nat
    <3>1. PICK k \in Nat : k = n
      BY <2>10
    <3>2. PICK r \in Nat \ {0} : r = Ratio + 1
      BY ListingsAssumption
    <3>3. k \div r \in Nat
      BY Quotient
    <3>4. QED  BY <3>1, <3>2, <3>3
  <2>12. ASSUME NEW k \in 1..b, k <= q
         PROVE  NewPlace(a, k) \in 1..n /\ shown[NewPlace(a, k)] = discovery[k]
    <3>1. NewPlace(a, k) \in 1..n
      BY <2>8, <2>10, <2>12, NewInTime
    <3>2. QED  BY <2>9, <2>10, <3>1
  <2> HIDE DEF a, b, n, q
  <2>13. CASE q <= b
    <3> DEFINE place == [k \in 1..q |-> NewPlace(a, k)]
    <3>1. \A k \in 1..q : k \in 1..b /\ k <= q
      BY <2>8, <2>11, <2>13
    <3>2. \A k \in 1..q : NewPlace(a, k) \in seen /\ shown[NewPlace(a, k)] = discovery[k]
      BY <2>8, <2>10, <2>12, <3>1
    <3>3. place \in [1..q -> seen]
      BY <3>2
    <3>4. \A k, l \in 1..q : place[k] = place[l] => k = l
      BY <2>8, <3>1, <3>2
    <3> HIDE DEF place
    <3>5. place \in Injection(1..q, seen)
      BY <3>3, <3>4, Fun_IsInj
    <3>6. IsFiniteSet(seen)
      <4>1. IsFiniteSet(1..n) /\ seen \in SUBSET (1..n)
        BY <2>10, UpTo
      <4> HIDE DEF seen
      <4>2. QED  BY <4>1, FS_Subset
    <3> HIDE DEF seen
    <3>7. Cardinality(1..q) <= Cardinality(seen)
      BY <3>5, <3>6, FS_Injection
    <3>8. Cardinality(1..q) = q
      BY <2>11, UpTo
    <3>9. Cardinality(seen) >= q
      BY <2>11, <3>6, <3>7, <3>8, FS_CardinalityType
    <3>10. QED  BY <3>9 DEF NewcomersShown, seen, new, shown, n, q
  <2>14. CASE ~ (q <= b)
    <3>1. \A k \in 1..b : k <= q
      BY <2>8, <2>11, <2>14
    <3>2. ASSUME NEW m \in new PROVE m \in ToSet(shown)
      <4>1. PICK k \in 1..b : discovery[k] = m
        BY <2>8
      <4>2. NewPlace(a, k) \in 1..n /\ shown[NewPlace(a, k)] = m
        BY <2>12, <3>1, <4>1
      <4>3. QED  BY <2>1, <4>2, ToSetIs DEF n
    <3>3. new \subseteq ToSet(shown)
      BY <3>2
    <3>4. QED  BY <3>3 DEF NewcomersShown, new, shown
  <2>15. QED  BY <2>13, <2>14
<1>2. QED  BY SpecIInv, <1>1, PTL

-----------------------------------------------------------------------------
(* What the two loops compute, one turn at a time                          *)

LEMMA QuotientNext ==
  ASSUME NEW p \in Nat \ {0}, NEW q \in Nat \ {0}
  PROVE  p \div q = IF p % q = 0 THEN (p - 1) \div q + 1 ELSE (p - 1) \div q
<1>1. PICK k \in Nat : k = p \div q
  BY Quotient
<1>2. PICK m \in Nat : m = p % q /\ m < q
  OBVIOUS
<1>3. PICK x \in Nat : x = k * q
  BY <1>1, Times
<1>4. p = x + m
  <2>1. p \in Int /\ q \in Int /\ q > 0 /\ k \in Int /\ m \in Int
    OBVIOUS
  <2>2. p = q * k + m
    BY <1>1, <1>2, <2>1
  <2>3. q * k = k * q
    BY <2>1
  <2>4. QED  BY <1>3, <2>2, <2>3
<1>5. PICK n \in Nat : n = p - 1
  OBVIOUS
<1>6. CASE m = 0
  <2>1. k # 0
    <3>1. SUFFICES ASSUME k = 0 PROVE FALSE
      OBVIOUS
    <3>2. x = 0
      BY <1>3, <3>1
    <3>3. QED  BY <1>4, <1>6, <3>2
  <2>2. PICK t \in Nat : k = t + 1
    <3>1. k - 1 \in Nat /\ k = (k - 1) + 1
      BY <2>1
    <3>2. QED  BY <3>1
  <2>3. PICK y \in Nat : y = t * q /\ x = y + q
    <3>1. t * q \in Nat /\ (t + 1) * q = t * q + q
      BY Times
    <3>2. QED  BY <1>3, <2>2, <3>1
  <2>4. y <= n /\ n < y + q
    BY <1>4, <1>5, <1>6, <2>3
  <2>5. t <= n \div q /\ n \div q <= t
    BY <2>3, <2>4, QuotientBounds
  <2>6. n \div q \in Nat
    BY Quotient
  <2>7. n \div q = t
    BY <2>5, <2>6
  <2>8. QED  BY <1>1, <1>2, <1>5, <1>6, <2>2, <2>7
<1>7. CASE m # 0
  <2>1. x <= n /\ n < x + q
    BY <1>2, <1>4, <1>5, <1>7
  <2>2. k <= n \div q /\ n \div q <= k
    BY <1>3, <2>1, QuotientBounds
  <2>3. n \div q \in Nat
    BY Quotient
  <2>4. n \div q = k
    BY <2>2, <2>3
  <2>5. QED  BY <1>1, <1>2, <1>5, <1>7, <2>4
<1>8. QED  BY <1>6, <1>7

\* Place by place, InterleaveDiscovery is what the loop of interleaveDiscovery puts
\* there, which has taken d of the discovery pool and r of the rated so far: every
\* (ratio + 1)-th place is for the discovery pool, the others for the rated one,
\* and the pool that is left has the places of the pool that is exhausted.
THEOREM InterleavesAsTheLoop ==
  ASSUME NEW S, NEW rated \in Seq(S), NEW discovery \in Seq(S),
         NEW p \in 1..(Len(rated) + Len(discovery))
  PROVE  LET a == Len(rated)
             b == Len(discovery)
             d == Share(a, b, p - 1)
             r == p - 1 - d
             item == InterleaveDiscovery(rated, discovery)[p] IN
         /\ Len(InterleaveDiscovery(rated, discovery)) = a + b
         /\ Share(a, b, 0) = 0
         /\ d \in 0..b /\ r \in 0..a
         /\ IF p % (Ratio + 1) = 0
              THEN \/ d < b /\ item = discovery[d + 1] /\ Share(a, b, p) = d + 1
                   \/ d = b /\ r < a /\ item = rated[r + 1] /\ Share(a, b, p) = d
              ELSE \/ r < a /\ item = rated[r + 1] /\ Share(a, b, p) = d
                   \/ r = a /\ d < b /\ item = discovery[d + 1] /\ Share(a, b, p) = d + 1
<1> DEFINE a == Len(rated)
           b == Len(discovery)
           merged == InterleaveDiscovery(rated, discovery)
           d == Share(a, b, p - 1)
           s == Share(a, b, p)
<1>1. a \in Nat /\ b \in Nat /\ p \in Nat \ {0} /\ p <= a + b
  OBVIOUS
<1>2. Len(merged) = a + b
  BY InterleaveIs DEF Merges
<1>3. merged[p] = IF s > d THEN discovery[s] ELSE rated[p - s]
  BY DEF InterleaveDiscovery, Share
<1> HIDE DEF merged, a, b
<1>4. PICK q \in Nat \ {0} : q = Ratio + 1
  BY ListingsAssumption
<1>5. PICK e \in Nat : e = (p - 1) \div q
  <2>1. PICK n \in Nat : n = p - 1
    BY <1>1
  <2>2. QED  BY <2>1, Quotient
<1>6. PICK f \in Nat : f = p \div q
  BY <1>1, Quotient
<1>7. f = IF p % q = 0 THEN e + 1 ELSE e
  BY <1>1, <1>5, <1>6, QuotientNext
<1>8. d \in 0..b /\ p - 1 - d \in 0..a
  <2>1. PICK n \in 0..(a + b) : n = p - 1
    BY <1>1
  <2>2. QED  BY <1>1, <2>1, ShareIs
<1>9. d = Smaller(b, Larger(e, p - 1 - a)) /\ s = Smaller(b, Larger(f, p - a))
  BY <1>4, <1>5, <1>6 DEF Share
<1>10. Share(a, b, 0) = 0
  <2>1. PICK z \in 0..(a + b) : z = 0
    BY <1>1
  <2>2. Share(a, b, z) \in 0..b /\ z - Share(a, b, z) \in 0..a
    BY <1>1, ShareIs
  <2>3. QED  BY <1>1, <2>1, <2>2
<1> HIDE DEF d, s
<1>11. CASE p % q = 0
  <2>1. f = e + 1
    BY <1>7, <1>11
  <2>2. s = IF d < b THEN d + 1 ELSE d
    BY <1>1, <1>8, <1>9, <2>1 DEF Smaller, Larger
  <2>3. CASE d < b
    BY <1>2, <1>3, <1>4, <1>8, <1>10, <1>11, <2>2, <2>3 DEF merged, a, b, d, s
  <2>4. CASE ~ (d < b)
    <3>1. d = b /\ p - 1 - d < a /\ s = d /\ p - s = p - 1 - d + 1
      BY <1>1, <1>8, <2>2, <2>4
    <3>2. merged[p] = rated[p - 1 - d + 1]
      BY <1>3, <1>8, <3>1
    <3>3. QED  BY <1>2, <1>4, <1>8, <1>10, <1>11, <3>1, <3>2 DEF merged, a, b, d, s
  <2>5. QED  BY <2>3, <2>4
<1>12. CASE p % q # 0
  <2>1. f = e
    BY <1>7, <1>12
  <2>2. s = IF p - 1 - d < a THEN d ELSE d + 1
    BY <1>1, <1>8, <1>9, <2>1 DEF Smaller, Larger
  <2>3. CASE p - 1 - d < a
    <3>1. s = d /\ p - s = p - 1 - d + 1
      BY <1>1, <1>8, <2>2, <2>3
    <3>2. merged[p] = rated[p - 1 - d + 1]
      BY <1>3, <1>8, <3>1
    <3>3. QED  BY <1>2, <1>4, <1>8, <1>10, <1>12, <2>3, <3>1, <3>2 DEF merged, a, b, d, s
  <2>4. CASE ~ (p - 1 - d < a)
    <3>1. p - 1 - d = a /\ d < b /\ s = d + 1
      BY <1>1, <1>8, <2>2, <2>4
    <3>2. merged[p] = discovery[d + 1]
      BY <1>3, <1>8, <3>1
    <3>3. QED  BY <1>2, <1>4, <1>8, <1>10, <1>12, <3>1, <3>2 DEF merged, a, b, d, s
  <2>5. QED  BY <2>3, <2>4
<1>13. QED  BY <1>11, <1>12

\* w is preferred to all copies of the memory it is a copy of.
Wins(cols, objects, w) ==
  \A p \in objects : p.id = w.id => ShouldPrefer(cols[w.from], cols[p.from])

\* Copy by copy, DedupeBySourceId is what the loop of dedupeBySourceId leaves, which
\* has gone through the copies in objects and comes to o: the first copy of a memory
\* stays, one that is preferred to the winner so far takes its place, and one that
\* is not takes the winner with it, as both have one UUID.
THEOREM DedupesAsTheLoop ==
  ASSUME NEW cols \in Sources, NEW objects, NEW o, o \notin objects,
         Copies(objects \cup {o}, cols),
         \A p \in objects : p.id = o.id => p.from < o.from
  PROVE  LET more == objects \cup {o}
             kept == DedupeBySourceId(cols, objects)
             others == {p \in kept : p.id # o.id} IN
         /\ (\A p \in objects : p.id # o.id) =>
              Wins(cols, more, o) /\ DedupeBySourceId(cols, more) = kept \cup {o}
         /\ \A w \in objects : w.id = o.id /\ Wins(cols, objects, w) =>
              IF ShouldPrefer(cols[o.from], cols[w.from])
                THEN Wins(cols, more, o) /\ DedupeBySourceId(cols, more) = others \cup {o}
                ELSE Wins(cols, more, w) /\ DedupeBySourceId(cols, more) = others
<1> DEFINE more == objects \cup {o}
           kept == DedupeBySourceId(cols, objects)
           after == DedupeBySourceId(cols, more)
           others == {p \in kept : p.id # o.id}
           rank(c) == CHOOSE i \in DOMAIN Precedence : Precedence[i] = c
           place == [p \in more |-> rank(cols[p.from])]
<1>1. \A p \in more : p.from \in Nat /\ place[p] \in Nat
  <2> SUFFICES ASSUME NEW p \in more PROVE p.from \in Nat /\ place[p] \in Nat
    OBVIOUS
  <2>1. cols[p.from] \in ToSet(Precedence) /\ p.from \in Nat
    BY ColsAre DEF Copies
  <2>2. \E i \in DOMAIN Precedence : Precedence[i] = cols[p.from]
    BY <2>1 DEF ToSet
  <2>3. DOMAIN Precedence \subseteq Nat
    BY ListingsAssumption
  <2>4. rank(cols[p.from]) \in Nat
    BY <2>2, <2>3
  <2>5. QED  BY <2>1, <2>4
<1>2. \A p, r \in more : ShouldPrefer(cols[p.from], cols[r.from]) <=> place[p] <= place[r]
  BY DEF ShouldPrefer
<1>3. kept = {p \in objects : \A r \in objects : r.id = p.id /\ r # p =>
                r.from < p.from /\ place[p] <= place[r]}
  BY <1>2 DEF DedupeBySourceId
<1>4. after = {p \in more : \A r \in more : r.id = p.id /\ r # p =>
                 r.from < p.from /\ place[p] <= place[r]}
  BY <1>2 DEF DedupeBySourceId
<1> HIDE DEF kept, after, place
<1>5. \A p \in objects : p.id # o.id => (p \in after <=> p \in kept)
  BY <1>3, <1>4
<1>6. \A p \in objects : p.id = o.id => p \notin after
  <2> SUFFICES ASSUME NEW p \in objects, p.id = o.id, p \in after PROVE FALSE
    OBVIOUS
  <2>1. o.from < p.from
    BY <1>4
  <2>2. p.from < o.from /\ p.from \in Nat /\ o.from \in Nat
    BY <1>1
  <2>3. QED  BY <2>1, <2>2
<1>7. o \in after <=> \A r \in objects : r.id = o.id => place[o] <= place[r]
  BY <1>4
<1>8. kept \subseteq objects /\ after \subseteq more
  BY <1>3, <1>4
<1>9. after = IF o \in after THEN others \cup {o} ELSE others
  BY <1>5, <1>6, <1>8
<1>10. ASSUME \A p \in objects : p.id # o.id
       PROVE  Wins(cols, more, o) /\ after = kept \cup {o}
  <2>1. o \in after /\ others = kept
    BY <1>7, <1>8, <1>10
  <2>2. Wins(cols, more, o)
    BY <1>1, <1>2, <1>10 DEF Wins
  <2>3. QED  BY <1>9, <2>1, <2>2
<1>11. ASSUME NEW w \in objects, w.id = o.id, Wins(cols, objects, w)
       PROVE  IF ShouldPrefer(cols[o.from], cols[w.from])
                THEN Wins(cols, more, o) /\ after = others \cup {o}
                ELSE Wins(cols, more, w) /\ after = others
  <2>1. \A p \in objects : p.id = o.id => place[w] <= place[p]
    BY <1>2, <1>11 DEF Wins
  <2>2. CASE place[o] <= place[w]
    <3>1. \A p \in more : p.id = o.id => place[o] <= place[p]
      BY <1>1, <2>1, <2>2
    <3>2. o \in after
      BY <1>7, <3>1
    <3>3. Wins(cols, more, o)
      BY <1>2, <3>1 DEF Wins
    <3>4. ShouldPrefer(cols[o.from], cols[w.from])
      BY <1>2, <2>2
    <3>5. QED  BY <1>9, <3>2, <3>3, <3>4
  <2>3. CASE ~ (place[o] <= place[w])
    <3>1. \A p \in more : p.id = w.id => place[w] <= place[p]
      BY <1>1, <1>11, <2>1, <2>3
    <3>2. o \notin after
      BY <1>7, <1>11, <2>3
    <3>3. Wins(cols, more, w)
      BY <1>2, <3>1 DEF Wins
    <3>4. ~ ShouldPrefer(cols[o.from], cols[w.from])
      BY <1>2, <2>3
    <3>5. QED  BY <1>9, <3>2, <3>3, <3>4
  <2>4. QED  BY <2>2, <2>3
<1>12. QED  BY <1>10, <1>11 DEF after, kept

=============================================================================

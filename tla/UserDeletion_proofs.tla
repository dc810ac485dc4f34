-------------------------- MODULE UserDeletion_proofs --------------------------
(***************************************************************************)
(* Theorems about ratings and the deletion of a user, for any number of    *)
(* users, memories and overlapping requests, whatever fails.               *)
(***************************************************************************)
EXTENDS UserDeletion, FiniteSetTheorems, WellFoundedInduction, TLAPS

-----------------------------------------------------------------------------
(* Sums over a finite set.  The library defines a sum by a recursive       *)
(* function; that there is one, and that the order of summing does not     *)
(* matter, is shown with the smallest set on which it would fail.          *)

\* The sum of f over S, and what its definition makes the partial sums h be.
Sum(f, S) == MapThenSumSet(LAMBDA u : f[u], S)

First(s) == CHOOSE x \in s : TRUE

PartialSums(h, f, S) ==
  h = [s \in SUBSET S |-> IF s = {} THEN 0 ELSE f[First(s)] + h[s \ {First(s)}]]

LEMMA SumDefinition ==
  ASSUME NEW S, NEW f
  PROVE  Sum(f, S) = (CHOOSE h : PartialSums(h, f, S))[S]
  BY DEF Sum, MapThenSumSet, MapThenFoldSet, PartialSums, First

LEMMA MinimalSet ==
  ASSUME NEW S, IsFiniteSet(S), NEW B \in SUBSET (SUBSET S), B # {}
  PROVE  \E s \in B : \A t \in SUBSET s : t # s => t \notin B
<1>1. IsWellFoundedOn(StrictSubsetOrdering(S), SUBSET S)
  BY FS_StrictSubsetOrderingWellFounded, FS_FiniteSubsetsOfFinite
<1>2. PICK s \in B : \A t \in B : ~ (<<t, s>> \in StrictSubsetOrdering(S))
  BY <1>1, WFMin
<1>3. QED  BY <1>2 DEF StrictSubsetOrdering

LEMMA FirstIn == ASSUME NEW s, s # {} PROVE First(s) \in s
  BY DEF First

\* Partial sums over a set are those over any of its subsets.
LEMMA PartialSumsUnique ==
  ASSUME NEW S, IsFiniteSet(S), NEW T \in SUBSET S, NEW f, NEW g, NEW h,
         PartialSums(g, f, S), PartialSums(h, f, T)
  PROVE  \A s \in SUBSET T : g[s] = h[s]
<1> DEFINE B == {s \in SUBSET T : g[s] # h[s]}
<1> SUFFICES ASSUME B # {} PROVE FALSE
  OBVIOUS
<1>1. IsFiniteSet(T)
  BY FS_Subset
<1>2. PICK s \in B : \A t \in SUBSET s : t # s => t \notin B
  <2>1. B \in SUBSET (SUBSET T)
    OBVIOUS
  <2> HIDE DEF B
  <2>2. QED  BY <1>1, <2>1, MinimalSet
<1>3. /\ g[s] = IF s = {} THEN 0 ELSE f[First(s)] + g[s \ {First(s)}]
      /\ h[s] = IF s = {} THEN 0 ELSE f[First(s)] + h[s \ {First(s)}]
  BY DEF PartialSums
<1>4. CASE s = {}
  BY <1>2, <1>3, <1>4
<1>5. CASE s # {}
  <2>1. First(s) \in s
    BY <1>5, FirstIn
  <2>2. s \ {First(s)} \notin B
    BY <2>1, <1>2
  <2>3. QED  BY <2>2, <1>2, <1>3, <1>5
<1>6. QED  BY <1>4, <1>5

HasSums(f, S) == \E h : PartialSums(h, f, S)

LEMMA SumOfPart ==
  ASSUME NEW S, IsFiniteSet(S), NEW f, NEW T \in SUBSET S, NEW h, PartialSums(h, f, S)
  PROVE  h[T] = Sum(f, T)
<1> DEFINE g == [s \in SUBSET T |-> h[s]]
<1>1. PartialSums(g, f, T)
  <2> SUFFICES ASSUME NEW s \in SUBSET T
               PROVE  g[s] = IF s = {} THEN 0 ELSE f[First(s)] + g[s \ {First(s)}]
    BY DEF PartialSums
  <2>1. h[s] = IF s = {} THEN 0 ELSE f[First(s)] + h[s \ {First(s)}]
    BY DEF PartialSums
  <2>2. QED  BY <2>1
<1>2. PartialSums(CHOOSE k : PartialSums(k, f, T), f, T)
  BY <1>1
<1>3. \A s \in SUBSET T : h[s] = (CHOOSE k : PartialSums(k, f, T))[s]
  BY <1>2, PartialSumsUnique
<1>4. QED  BY <1>3, SumDefinition

SumEquation(f, s) == Sum(f, s) = IF s = {} THEN 0 ELSE f[First(s)] + Sum(f, s \ {First(s)})

LEMMA SumEquationHolds ==
  ASSUME NEW S, IsFiniteSet(S), NEW f
  PROVE  SumEquation(f, S)
<1>1. ASSUME NEW T \in SUBSET S, NEW h, PartialSums(h, f, T)
      PROVE  SumEquation(f, T)
  <2>1. IsFiniteSet(T)
    BY FS_Subset
  <2>2. \A s \in SUBSET T : h[s] = Sum(f, s)
    BY <1>1, <2>1, SumOfPart
  <2>3. h[T] = IF T = {} THEN 0 ELSE f[First(T)] + h[T \ {First(T)}]
    BY <1>1 DEF PartialSums
  <2>4. QED  BY <2>2, <2>3 DEF SumEquation
<1> DEFINE B == {s \in SUBSET S : ~ SumEquation(f, s)}
<1>2. ASSUME B # {} PROVE FALSE
  <2>1. PICK T \in B : \A t \in SUBSET T : t # T => t \notin B
    <3>1. B \in SUBSET (SUBSET S)
      OBVIOUS
    <3> HIDE DEF B
    <3>2. QED  BY <1>2, <3>1, MinimalSet
  <2>2. \A t \in SUBSET T : t # T => SumEquation(f, t)
    BY <2>1
  <2> DEFINE h == [s \in SUBSET T |-> IF s = {} THEN 0 ELSE f[First(s)] + Sum(f, s \ {First(s)})]
  <2>3. PartialSums(h, f, T)
    <3> SUFFICES ASSUME NEW s \in SUBSET T, s # {}
                 PROVE  Sum(f, s \ {First(s)}) = h[s \ {First(s)}]
      BY DEF PartialSums
    <3>1. First(s) \in s
      BY FirstIn
    <3>2. SumEquation(f, s \ {First(s)})
      BY <3>1, <2>2
    <3>3. s \ {First(s)} \in SUBSET T
      OBVIOUS
    <3>4. QED  BY <3>2, <3>3 DEF SumEquation
  <2>4. QED  BY <2>1, <2>3, <1>1
<1>3. QED  BY <1>2

LEMMA SumType ==
  ASSUME NEW S, IsFiniteSet(S), NEW f \in [S -> Int]
  PROVE  \A T \in SUBSET S : Sum(f, T) \in Int
<1> DEFINE B == {s \in SUBSET S : Sum(f, s) \notin Int}
<1> SUFFICES ASSUME B # {} PROVE FALSE
  OBVIOUS
<1>1. PICK s \in B : \A t \in SUBSET s : t # s => t \notin B
  <2>1. B \in SUBSET (SUBSET S)
    OBVIOUS
  <2> HIDE DEF B
  <2>2. QED  BY <2>1, MinimalSet
<1>2. SumEquation(f, s)
  BY SumEquationHolds, FS_Subset
<1>3. CASE s = {}
  BY <1>1, <1>2, <1>3 DEF SumEquation
<1>4. CASE s # {}
  <2>1. First(s) \in s
    BY <1>4, FirstIn
  <2>2. Sum(f, s \ {First(s)}) \in Int
    BY <2>1, <1>1
  <2>3. QED  BY <2>1, <2>2, <1>1, <1>2, <1>4 DEF SumEquation
<1>5. QED  BY <1>3, <1>4

\* Whichever element is taken out first.
LEMMA SumTakeOut ==
  ASSUME NEW S, IsFiniteSet(S), NEW f \in [S -> Int], NEW T \in SUBSET S, NEW x \in T
  PROVE  Sum(f, T) = f[x] + Sum(f, T \ {x})
<1> DEFINE B == {s \in SUBSET S : \E y \in s : Sum(f, s) # f[y] + Sum(f, s \ {y})}
<1> SUFFICES ASSUME B # {} PROVE FALSE
  OBVIOUS
<1>1. PICK s \in B : \A t \in SUBSET s : t # s => t \notin B
  <2>1. B \in SUBSET (SUBSET S)
    OBVIOUS
  <2> HIDE DEF B
  <2>2. QED  BY <2>1, MinimalSet
<1>2. PICK y \in s : Sum(f, s) # f[y] + Sum(f, s \ {y})
  BY <1>1
<1> DEFINE z == First(s)
<1>3. z \in s
  BY <1>2, FirstIn
<1>4. Sum(f, s) = f[z] + Sum(f, s \ {z})
  BY <1>2, SumEquationHolds, FS_Subset DEF SumEquation
<1>5. z # y
  BY <1>2, <1>4
<1>6. Sum(f, s \ {z}) = f[y] + Sum(f, (s \ {z}) \ {y})
  BY <1>1, <1>3, <1>5
<1>7. Sum(f, s \ {y}) = f[z] + Sum(f, (s \ {y}) \ {z})
  BY <1>1, <1>3, <1>5
<1>8. (s \ {y}) \ {z} = (s \ {z}) \ {y}
  OBVIOUS
<1>9. Sum(f, (s \ {z}) \ {y}) \in Int /\ f[y] \in Int /\ f[z] \in Int
  BY <1>3, SumType
<1>10. Sum(f, s \ {y}) = f[z] + Sum(f, (s \ {z}) \ {y})
  BY <1>7, <1>8
<1> HIDE DEF z, B
<1>11. QED  BY <1>2, <1>4, <1>6, <1>9, <1>10

\* Functions that agree on a set have the same sum over it.
LEMMA SumAgrees ==
  ASSUME NEW S, IsFiniteSet(S), NEW f, NEW g, \A x \in S : f[x] = g[x]
  PROVE  Sum(f, S) = Sum(g, S)
<1> DEFINE B == {s \in SUBSET S : Sum(f, s) # Sum(g, s)}
<1> SUFFICES ASSUME B # {} PROVE FALSE
  OBVIOUS
<1>1. PICK s \in B : \A t \in SUBSET s : t # s => t \notin B
  <2>1. B \in SUBSET (SUBSET S)
    OBVIOUS
  <2> HIDE DEF B
  <2>2. QED  BY <2>1, MinimalSet
<1>2. SumEquation(f, s) /\ SumEquation(g, s)
  BY SumEquationHolds, FS_Subset
<1>3. CASE s = {}
  BY <1>1, <1>2, <1>3 DEF SumEquation
<1>4. CASE s # {}
  <2>1. First(s) \in s
    BY <1>4, FirstIn
  <2>2. Sum(f, s \ {First(s)}) = Sum(g, s \ {First(s)})
    BY <2>1, <1>1
  <2>3. QED  BY <2>1, <2>2, <1>1, <1>2, <1>4 DEF SumEquation
<1>5. QED  BY <1>3, <1>4

\* Changing one value changes the sum by the difference.
LEMMA SumChange ==
  ASSUME NEW S, IsFiniteSet(S), NEW f \in [S -> Int], NEW x \in S, NEW v \in Int
  PROVE  Sum([f EXCEPT ![x] = v], S) = Sum(f, S) + v - f[x]
<1> DEFINE g == [f EXCEPT ![x] = v]
<1>1. g \in [S -> Int]
  OBVIOUS
<1>2. Sum(g, S) = v + Sum(g, S \ {x})
  <2>1. g[x] = v
    OBVIOUS
  <2> HIDE DEF g
  <2>2. QED  BY <1>1, <2>1, SumTakeOut
<1>3. Sum(f, S) = f[x] + Sum(f, S \ {x})
  BY SumTakeOut
<1>4. Sum(f, S \ {x}) = Sum(g, S \ {x})
  BY SumAgrees, FS_Subset, \A y \in S \ {x} : f[y] = g[y]
<1>5. Sum(f, S \ {x}) \in Int /\ f[x] \in Int
  BY SumType
<1> HIDE DEF g
<1>6. Sum(g, S) = Sum(f, S) + v - f[x]
  BY <1>2, <1>3, <1>4, <1>5
<1>7. QED  BY <1>6 DEF g

\* The sum of one value.
LEMMA SumOfConstant ==
  ASSUME NEW S, IsFiniteSet(S), NEW f, NEW c \in Int, \A x \in S : f[x] = c
  PROVE  Sum(f, S) = Cardinality(S) * c
<1> DEFINE B == {s \in SUBSET S : Sum(f, s) # Cardinality(s) * c}
<1> SUFFICES ASSUME B # {} PROVE FALSE
  OBVIOUS
<1>1. PICK s \in B : \A t \in SUBSET s : t # s => t \notin B
  <2>1. B \in SUBSET (SUBSET S)
    OBVIOUS
  <2> HIDE DEF B
  <2>2. QED  BY <2>1, MinimalSet
<1>2. SumEquation(f, s) /\ IsFiniteSet(s)
  BY SumEquationHolds, FS_Subset
<1>3. CASE s = {}
  BY <1>1, <1>2, <1>3, FS_EmptySet DEF SumEquation
<1>4. CASE s # {}
  <2> DEFINE r == s \ {First(s)}
  <2>1. First(s) \in s /\ f[First(s)] = c
    BY <1>4, FirstIn
  <2>2. Sum(f, r) = Cardinality(r) * c
    BY <2>1, <1>1
  <2>3. Cardinality(r) = Cardinality(s) - 1 /\ Cardinality(s) \in Nat
    BY <2>1, <1>2, FS_RemoveElement, FS_CardinalityType
  <2>4. Sum(f, s) = c + Cardinality(r) * c
    BY <2>1, <2>2, <1>2, <1>4 DEF SumEquation
  <2> HIDE DEF r
  <2>5. Sum(f, s) = Cardinality(s) * c
    BY <2>3, <2>4
  <2>6. QED  BY <2>5, <1>1
<1>5. QED  BY <1>3, <1>4

-----------------------------------------------------------------------------
(* The ratings of one memory                                               *)

Total(row) == Sum(row, Users)
Count(row) == Cardinality({u \in Users : row[u] # 0})

LEMMA StarsAreIntegers == Ratings \subseteq Int /\ Stars \subseteq Ratings /\ 0 \in Ratings /\ 0 \notin Stars
  BY ConstantsAssumption DEF Ratings

LEMMA RowTypes ==
  ASSUME NEW row \in [Users -> Ratings]
  PROVE  /\ row \in [Users -> Int]
         /\ Total(row) \in Int
         /\ Count(row) \in Nat
         /\ \A u \in Users : row[u] # 0 => Count(row) > 0
<1>1. row \in [Users -> Int]
  BY StarsAreIntegers
<1>2. Total(row) \in Int
  BY <1>1, SumType, ConstantsAssumption DEF Total
<1> DEFINE R == {u \in Users : row[u] # 0}
<1>3. IsFiniteSet(R)
  BY FS_Subset, ConstantsAssumption, R \in SUBSET Users
<1>4. Cardinality(R) \in Nat /\ (R # {} => Cardinality(R) # 0)
  BY <1>3, FS_CardinalityType, FS_EmptySet
<1>5. QED  BY <1>1, <1>2, <1>4 DEF Count

\* What one rating more, less or other makes of the sum and the count.
LEMMA RowChange ==
  ASSUME NEW row \in [Users -> Ratings], NEW u \in Users, NEW v \in Ratings
  PROVE  LET new == [row EXCEPT ![u] = v] IN
         /\ Total(new) = Total(row) + v - row[u]
         /\ (row[u] = 0) = (v = 0) => Count(new) = Count(row)
         /\ row[u] = 0 /\ v # 0 => Count(new) = Count(row) + 1
         /\ row[u] # 0 /\ v = 0 => Count(new) = Count(row) - 1
<1> DEFINE new == [row EXCEPT ![u] = v]
           R == {w \in Users : row[w] # 0}
           N == {w \in Users : new[w] # 0}
<1>1. Total(new) = Total(row) + v - row[u]
  <2>1. v \in Int /\ row \in [Users -> Int] /\ IsFiniteSet(Users)
    BY StarsAreIntegers, ConstantsAssumption
  <2>2. Sum(new, Users) = Sum(row, Users) + v - row[u]
    BY <2>1, SumChange
  <2>3. QED  BY <2>2 DEF Total
<1>2. IsFiniteSet(R) /\ IsFiniteSet(N)
  BY FS_Subset, ConstantsAssumption, R \in SUBSET Users, N \in SUBSET Users
<1>3. (row[u] = 0) = (v = 0) => N = R
  OBVIOUS
<1>4. row[u] = 0 /\ v # 0 => N = R \cup {u} /\ u \notin R
  OBVIOUS
<1>5. row[u] # 0 /\ v = 0 => N = R \ {u} /\ u \in R
  OBVIOUS
<1>6. Count(new) = Cardinality(N) /\ Count(row) = Cardinality(R)
  BY DEF Count
<1> HIDE DEF N, R
<1>7. row[u] = 0 /\ v # 0 => Cardinality(N) = Cardinality(R) + 1
  BY <1>2, <1>4, FS_AddElement
<1>8. row[u] # 0 /\ v = 0 => Cardinality(N) = Cardinality(R) - 1
  BY <1>2, <1>5, FS_RemoveElement
<1> HIDE DEF new
<1>9. /\ (row[u] = 0) = (v = 0) => Count(new) = Count(row)
      /\ row[u] = 0 /\ v # 0 => Count(new) = Count(row) + 1
      /\ row[u] # 0 /\ v = 0 => Count(new) = Count(row) - 1
  BY <1>3, <1>6, <1>7, <1>8
<1>10. QED  BY <1>1, <1>9 DEF new

\* A memory that everyone rates alike.
LEMMA RowOfOne ==
  ASSUME NEW c \in Ratings
  PROVE  LET row == [u \in Users |-> c] IN
         /\ Total(row) = Cardinality(Users) * c
         /\ Count(row) = IF c = 0 THEN 0 ELSE Cardinality(Users)
<1> DEFINE row == [u \in Users |-> c]
<1>1. c \in Int /\ IsFiniteSet(Users)
  BY StarsAreIntegers, ConstantsAssumption
<1>2. \A u \in Users : row[u] = c
  OBVIOUS
<1>3. {u \in Users : row[u] # 0} = IF c = 0 THEN {} ELSE Users
  OBVIOUS
<1>4. Count(row) = IF c = 0 THEN 0 ELSE Cardinality(Users)
  BY <1>3, FS_EmptySet DEF Count
<1> HIDE DEF row
<1>5. Total(row) = Cardinality(Users) * c
  BY <1>1, <1>2, SumOfConstant DEF Total
<1>6. QED  BY <1>4, <1>5 DEF row

-----------------------------------------------------------------------------
(* The steps of a request, with their effects spelled out                  *)

LEMMA IdleType == Idle \in Request
<1>1. (CHOOSE u \in Users : TRUE) \in Users
  BY DeletionAssumption
<1>2. (CHOOSE m \in Memories : TRUE) \in Memories
  BY ConstantsAssumption
<1>3. QED  BY <1>1, <1>2, StarsAreIntegers DEF Idle, Request, Kinds, Phases, Aggregate

LEMMA IdleFields == Idle.kind = "none" /\ Idle.phase = "idle"
  BY DEF Idle

\* Which phases a request of each kind goes through, and what it carries.
Shape(q) ==
  /\ q.kind = "none" => q.phase = "idle"
  /\ q.kind = "rate" =>
       q.phase \in {"read", "memory", "user", "aggregate", "invalidate"} /\ q.stars \in Stars
  /\ q.kind = "retract" =>
       q.phase \in {"memory", "user", "fetch", "aggregate"} /\ q.stars = 0 /\ q.previous # 0
  /\ q.kind = "recommend" => q.phase \in {"compute", "cache"}
  /\ q.phase = "invalidate" => High(q.stars)

Shapes == \A r \in Requests : Shape(requests[r])

\* Request r becomes new, the others stay as they are.
Becomes(r, new) ==
  /\ requests' \in [Requests -> Request]
  /\ requests'[r] = new
  /\ \A p \in Requests \ {r} : requests'[p] = requests[p]

SameWork(old, new) ==
  /\ new.kind = old.kind /\ new.user = old.user /\ new.memory = old.memory
  /\ new.stars = old.stars

LEMMA BecomesBy ==
  ASSUME requests \in [Requests -> Request], NEW r \in Requests, NEW new \in Request,
         requests' = [requests EXCEPT ![r] = new]
  PROVE  Becomes(r, new)
  BY DEF Becomes

LEMMA FinishEffect ==
  ASSUME requests \in [Requests -> Request], NEW r \in Requests, Finish(r)
  PROVE  Becomes(r, Idle)
  BY IdleType, BecomesBy DEF Finish

LEMMA GotoEffect ==
  ASSUME requests \in [Requests -> Request], NEW r \in Requests, NEW phase \in Phases, Goto(r, phase)
  PROVE  LET new == [requests[r] EXCEPT !.phase = phase] IN
         /\ Becomes(r, new)
         /\ new \in Request /\ SameWork(requests[r], new)
         /\ new.phase = phase /\ new.previous = requests[r].previous
         /\ new.seen = requests[r].seen /\ new.highs = requests[r].highs
<1> DEFINE new == [requests[r] EXCEPT !.phase = phase]
<1>1. requests[r] \in Request
  OBVIOUS
<1>2. new \in Request
  BY <1>1 DEF Request
<1>3. requests' = [requests EXCEPT ![r] = new]
  BY DEF Goto
<1>4. Becomes(r, new)
  BY <1>2, <1>3, BecomesBy
<1>5. /\ SameWork(requests[r], new)
      /\ new.phase = phase /\ new.previous = requests[r].previous
      /\ new.seen = requests[r].seen /\ new.highs = requests[r].highs
  BY <1>1 DEF Request, SameWork
<1>6. QED  BY <1>2, <1>4, <1>5

TearType == torn \in [memories : SUBSET Memories, users : SUBSET Users,
                      pairs : SUBSET (Memories \X Users)]

LEMMA TearEffect ==
  ASSUME TearType, NEW ms \in SUBSET Memories, NEW us \in SUBSET Users,
         NEW ps \in SUBSET (Memories \X Users), Tear(ms, us, ps)
  PROVE  /\ TearType'
         /\ torn'.memories = torn.memories \cup ms
         /\ torn'.users = torn.users \cup us
         /\ torn'.pairs = torn.pairs \cup ps
  BY DEF Tear, TearType

\* What a request that is accepted tears.
LEMMA AcceptEffect ==
  ASSUME TypeOK, NEW r \in Requests, NEW new \in Request, Accept(r, new)
  PROVE  /\ requests[r].kind = "none"
         /\ Becomes(r, new)
         /\ starts' \in 0..MaxStarts /\ starts' = starts + 1
         /\ TearType' /\ torn.memories \subseteq torn'.memories
         /\ torn.users \subseteq torn'.users /\ torn.pairs \subseteq torn'.pairs
         /\ \A p \in Running : requests[p].user = new.user => new.user \in torn'.users
         /\ new.kind # "recommend" =>
              \A p \in Rating :
                /\ requests[p].memory = new.memory => new.memory \in torn'.memories
                /\ requests[p].memory = new.memory /\ requests[p].user = new.user =>
                     <<new.memory, new.user>> \in torn'.pairs
         /\ UNCHANGED stores
<1> DEFINE others == IF new.kind = "recommend" THEN {} ELSE Rating
           ms == {new.memory} \cap {requests[p].memory : p \in others}
           us == {new.user} \cap {requests[p].user : p \in Running}
           ps == {<<new.memory, new.user>>}
                   \cap {<<requests[p].memory, requests[p].user>> : p \in others}
<1>1. requests \in [Requests -> Request] /\ starts \in 0..MaxStarts /\ TearType
  BY DEF TypeOK, TearType
<1>2. /\ requests[r].kind = "none" /\ starts < MaxStarts /\ starts' = starts + 1
      /\ requests' = [requests EXCEPT ![r] = new]
      /\ Tear(ms, us, ps)
      /\ UNCHANGED stores
  BY DEF Accept
<1>3. Becomes(r, new)
  BY <1>1, <1>2, BecomesBy
<1>4. starts' \in 0..MaxStarts
  BY <1>1, <1>2, ConstantsAssumption
<1>5. new.memory \in Memories /\ new.user \in Users
  BY DEF Request
<1>6. ms \in SUBSET Memories /\ us \in SUBSET Users /\ ps \in SUBSET (Memories \X Users)
  BY <1>5
<1>7. /\ \A p \in Running : requests[p].user = new.user => new.user \in us
      /\ new.kind # "recommend" =>
           \A p \in Rating :
             /\ requests[p].memory = new.memory => new.memory \in ms
             /\ requests[p].memory = new.memory /\ requests[p].user = new.user =>
                  <<new.memory, new.user>> \in ps
  OBVIOUS
<1> HIDE DEF ms, us, ps, others
<1>8. /\ TearType'
      /\ torn'.memories = torn.memories \cup ms
      /\ torn'.users = torn.users \cup us
      /\ torn'.pairs = torn.pairs \cup ps
  BY <1>1, <1>2, <1>6, TearEffect
<1>9. QED  BY <1>2, <1>3, <1>4, <1>7, <1>8

\* Each step of a request that runs.
LEMMA ReadRatingEffect ==
  ASSUME TypeOK, Shapes, NEW r \in Requests, ReadRating(r)
  PROVE  LET q == requests[r]
             new == requests'[r] IN
         /\ q.kind = "rate" /\ q.phase = "read" /\ new.phase = "memory"
         /\ Becomes(r, new) /\ SameWork(q, new) /\ new \in Request
         /\ new.previous = ratings[q.memory][q.user] /\ new.seen = q.seen
         /\ UNCHANGED <<stores, starts, torn>>
<1> DEFINE q == requests[r]
           new == [q EXCEPT !.phase = "memory", !.previous = ratings[q.memory][q.user]]
<1>1. requests \in [Requests -> Request] /\ q \in Request
  BY DEF TypeOK
<1>2. q.kind = "rate" /\ q.phase = "read"
  BY <1>1 DEF ReadRating, At, Shapes, Shape, Request, Kinds
<1>3. ratings[q.memory][q.user] \in Ratings
  BY <1>1 DEF TypeOK, Request
<1>4. new \in Request
  BY <1>1, <1>3 DEF Request, Phases
<1>5. requests' = [requests EXCEPT ![r] = new]
  BY <1>1 DEF ReadRating
<1>6. /\ new.phase = "memory" /\ SameWork(q, new)
      /\ new.previous = ratings[q.memory][q.user] /\ new.seen = q.seen
  BY <1>1 DEF Request, SameWork
<1> HIDE DEF new
<1>7. Becomes(r, new) /\ requests'[r] = new
  BY <1>1, <1>4, <1>5, BecomesBy DEF Becomes
<1>8. UNCHANGED <<stores, starts, torn>>
  BY DEF ReadRating
<1>9. QED  BY <1>2, <1>4, <1>6, <1>7, <1>8

LEMMA WriteMemoryRatingEffect ==
  ASSUME TypeOK, Shapes, NEW r \in Requests, WriteMemoryRating(r)
  PROVE  LET q == requests[r]
             new == requests'[r] IN
         /\ q.kind \in {"rate", "retract"} /\ q.phase = "memory" /\ new.phase = "user"
         /\ Becomes(r, new) /\ SameWork(q, new) /\ new \in Request
         /\ new.previous = q.previous /\ new.seen = q.seen
         /\ ratings' = [ratings EXCEPT ![q.memory] = [@ EXCEPT ![q.user] = q.stars]]
         /\ ratings' \in [Memories -> [Users -> Ratings]]
         /\ UNCHANGED <<userRatings, aggregates, centroids, collections, index, starts, torn>>
<1> DEFINE q == requests[r]
           row == [ratings[q.memory] EXCEPT ![q.user] = q.stars]
<1>1. requests \in [Requests -> Request] /\ q \in Request
  BY DEF TypeOK
<1>2. q.kind \in {"rate", "retract"} /\ q.phase = "memory"
  BY <1>1 DEF WriteMemoryRating, At, Shapes, Shape, Request, Kinds
<1>3. Goto(r, "user") /\ "user" \in Phases
  BY DEF WriteMemoryRating, Phases
<1>4. ratings' = [ratings EXCEPT ![q.memory] = [@ EXCEPT ![q.user] = q.stars]]
  BY DEF WriteMemoryRating
<1>5. q.memory \in Memories /\ q.user \in Users /\ q.stars \in Ratings
  BY <1>1 DEF Request
<1>6. ratings \in [Memories -> [Users -> Ratings]]
  BY DEF TypeOK
<1>7. ratings' \in [Memories -> [Users -> Ratings]]
  <2>1. row \in [Users -> Ratings]
    BY <1>5, <1>6
  <2>2. ratings' = [ratings EXCEPT ![q.memory] = row]
    BY <1>4, <1>5, <1>6
  <2> HIDE DEF row, q
  <2>3. QED  BY <2>1, <2>2, <1>6
<1>8. UNCHANGED <<userRatings, aggregates, centroids, collections, index, starts, torn>>
  BY DEF WriteMemoryRating
<1>9. requests'[r] = [requests[r] EXCEPT !.phase = "user"]
  BY <1>1, <1>3, GotoEffect DEF Becomes
<1> HIDE DEF row
<1>10. QED  BY <1>1, <1>2, <1>3, <1>4, <1>7, <1>8, <1>9, GotoEffect

LEMMA WriteUserRatingEffect ==
  ASSUME TypeOK, Shapes, NEW r \in Requests, WriteUserRating(r)
  PROVE  LET q == requests[r]
             new == requests'[r] IN
         /\ q.kind \in {"rate", "retract"} /\ q.phase = "user"
         /\ new.phase = IF q.kind = "rate" THEN "aggregate" ELSE "fetch"
         /\ Becomes(r, new) /\ SameWork(q, new) /\ new \in Request
         /\ new.previous = q.previous /\ new.seen = q.seen
         /\ userRatings' = [userRatings EXCEPT ![q.user] = [@ EXCEPT ![q.memory] = q.stars]]
         /\ userRatings' \in [Users -> [Memories -> Ratings]]
         /\ UNCHANGED <<ratings, aggregates, centroids, collections, index, starts, torn>>
<1> DEFINE q == requests[r]
           row == [userRatings[q.user] EXCEPT ![q.memory] = q.stars]
           phase == IF q.kind = "rate" THEN "aggregate" ELSE "fetch"
<1>1. requests \in [Requests -> Request] /\ q \in Request
  BY DEF TypeOK
<1>2. q.kind \in {"rate", "retract"} /\ q.phase = "user"
  BY <1>1 DEF WriteUserRating, At, Shapes, Shape, Request, Kinds
<1>3. Goto(r, phase) /\ phase \in Phases
  BY DEF WriteUserRating, Phases
<1>4. userRatings' = [userRatings EXCEPT ![q.user] = [@ EXCEPT ![q.memory] = q.stars]]
  BY DEF WriteUserRating
<1>5. q.memory \in Memories /\ q.user \in Users /\ q.stars \in Ratings
  BY <1>1 DEF Request
<1>6. userRatings \in [Users -> [Memories -> Ratings]]
  BY DEF TypeOK
<1>7. userRatings' \in [Users -> [Memories -> Ratings]]
  <2>1. row \in [Memories -> Ratings]
    BY <1>5, <1>6
  <2>2. userRatings' = [userRatings EXCEPT ![q.user] = row]
    BY <1>4, <1>5, <1>6
  <2> HIDE DEF row, q
  <2>3. QED  BY <2>1, <2>2, <1>6
<1>8. UNCHANGED <<ratings, aggregates, centroids, collections, index, starts, torn>>
  BY DEF WriteUserRating
<1> HIDE DEF row, phase
<1>9. requests'[r] = [requests[r] EXCEPT !.phase = phase]
  BY <1>1, <1>3, GotoEffect DEF Becomes
<1>10. /\ requests'[r].phase = phase /\ Becomes(r, requests'[r])
       /\ SameWork(q, requests'[r]) /\ requests'[r] \in Request
       /\ requests'[r].previous = q.previous /\ requests'[r].seen = q.seen
  BY <1>1, <1>3, <1>9, GotoEffect
<1>11. QED  BY <1>2, <1>4, <1>7, <1>8, <1>10 DEF phase

LEMMA AdjustedType ==
  ASSUME NEW q \in Request
  PROVE  /\ Adjusted(q) \in Aggregate
         /\ Adjusted(q).sum = q.seen.sum + q.stars - q.previous
         /\ Adjusted(q).count =
              IF q.kind = "rate" /\ q.previous = 0 THEN q.seen.count + 1
              ELSE IF q.kind = "rate" THEN q.seen.count
              ELSE IF q.seen.count > 0 THEN q.seen.count - 1 ELSE 0
<1>1. q.stars \in Int /\ q.previous \in Int /\ q.seen.sum \in Int /\ q.seen.count \in Nat
  BY StarsAreIntegers DEF Request, Aggregate
<1>2. q.seen.sum + q.stars - q.previous \in Int
  BY <1>1
<1>3. (IF q.kind = "rate" /\ q.previous = 0 THEN q.seen.count + 1
       ELSE IF q.kind = "rate" THEN q.seen.count
       ELSE IF q.seen.count > 0 THEN q.seen.count - 1 ELSE 0) \in Nat
  BY <1>1
<1>4. QED  BY <1>2, <1>3 DEF Adjusted, Aggregate

LEMMA WriteAggregatesEffect ==
  ASSUME TypeOK, Shapes, NEW r \in Requests, WriteAggregates(r)
  PROVE  LET q == requests[r]
             new == requests'[r] IN
         /\ q.kind \in {"rate", "retract"} /\ q.phase = "aggregate"
         /\ Becomes(r, new) /\ new \in Request
         /\ \/ /\ q.kind = "rate" /\ High(q.stars)
               /\ new.phase = "invalidate" /\ SameWork(q, new)
            \/ /\ ~ (q.kind = "rate" /\ High(q.stars))
               /\ new = Idle
         /\ aggregates' = [aggregates EXCEPT ![q.memory] = Adjusted(q)]
         /\ aggregates' \in [Memories -> Aggregate]
         /\ UNCHANGED <<ratings, userRatings, centroids, collections, index, starts, torn>>
<1> DEFINE q == requests[r]
<1>1. requests \in [Requests -> Request] /\ q \in Request
  BY DEF TypeOK
<1>2. q.kind \in {"rate", "retract"} /\ q.phase = "aggregate"
  BY <1>1 DEF WriteAggregates, At, Shapes, Shape, Request, Kinds
<1>3. aggregates' = [aggregates EXCEPT ![q.memory] = Adjusted(q)]
  BY DEF WriteAggregates
<1>4. aggregates' \in [Memories -> Aggregate]
  BY <1>1, <1>3, AdjustedType DEF TypeOK
<1>5. UNCHANGED <<ratings, userRatings, centroids, collections, index, starts, torn>>
  BY DEF WriteAggregates
<1>6. /\ Becomes(r, requests'[r]) /\ requests'[r] \in Request
      /\ \/ /\ q.kind = "rate" /\ High(q.stars)
            /\ requests'[r].phase = "invalidate" /\ SameWork(q, requests'[r])
         \/ /\ ~ (q.kind = "rate" /\ High(q.stars))
            /\ requests'[r] = Idle
  <2>1. CASE q.kind = "rate" /\ High(q.stars)
    <3>1. Goto(r, "invalidate") /\ "invalidate" \in Phases
      BY <2>1 DEF WriteAggregates, Phases
    <3>2. requests'[r] = [requests[r] EXCEPT !.phase = "invalidate"]
      BY <1>1, <3>1, GotoEffect DEF Becomes
    <3>3. QED  BY <1>1, <2>1, <3>1, <3>2, GotoEffect
  <2>2. CASE ~ (q.kind = "rate" /\ High(q.stars))
    <3>1. Finish(r)
      BY <2>2 DEF WriteAggregates
    <3>2. Becomes(r, Idle)
      BY <1>1, <3>1, FinishEffect
    <3>3. QED  BY <2>2, <3>2, IdleType DEF Becomes
  <2>3. QED  BY <2>1, <2>2
<1>7. QED  BY <1>2, <1>3, <1>4, <1>5, <1>6

LEMMA InvalidateCentroidEffect ==
  ASSUME TypeOK, Shapes, NEW r \in Requests, InvalidateCentroid(r)
  PROVE  LET q == requests[r] IN
         /\ q.kind = "rate" /\ q.phase = "invalidate"
         /\ Becomes(r, Idle)
         /\ centroids' = [centroids EXCEPT ![q.user] = NoCentroid]
         /\ centroids' \in [Users -> Centroid]
         /\ UNCHANGED <<ratings, userRatings, aggregates, collections, index, starts, torn>>
<1> DEFINE q == requests[r]
<1>1. requests \in [Requests -> Request] /\ q \in Request
  BY DEF TypeOK
<1>2. q.kind = "rate" /\ q.phase = "invalidate"
  BY <1>1 DEF InvalidateCentroid, At, Shapes, Shape, Request, Kinds
<1>3. Becomes(r, Idle)
  BY <1>1, FinishEffect DEF InvalidateCentroid
<1>4. NoCentroid \in Centroid
  BY DEF NoCentroid, Centroid
<1>5. centroids' = [centroids EXCEPT ![q.user] = NoCentroid]
  BY DEF InvalidateCentroid
<1>6. centroids' \in [Users -> Centroid]
  BY <1>4, <1>5 DEF TypeOK
<1>7. QED  BY <1>2, <1>3, <1>5, <1>6 DEF InvalidateCentroid

LEMMA FetchAggregatesEffect ==
  ASSUME TypeOK, Shapes, NEW r \in Requests, FetchAggregates(r)
  PROVE  LET q == requests[r]
             new == requests'[r] IN
         /\ q.kind = "retract" /\ q.phase = "fetch" /\ new.phase = "aggregate"
         /\ Becomes(r, new) /\ SameWork(q, new) /\ new \in Request
         /\ new.previous = q.previous /\ new.seen = aggregates[q.memory]
         /\ UNCHANGED <<stores, starts, torn>>
<1> DEFINE q == requests[r]
           new == [q EXCEPT !.phase = "aggregate", !.seen = aggregates[q.memory]]
<1>1. requests \in [Requests -> Request] /\ q \in Request
  BY DEF TypeOK
<1>2. q.kind = "retract" /\ q.phase = "fetch"
  BY <1>1 DEF FetchAggregates, At, Shapes, Shape, Request, Kinds
<1>3. aggregates[q.memory] \in Aggregate
  BY <1>1 DEF TypeOK, Request
<1>4. new \in Request
  BY <1>1, <1>3 DEF Request, Phases
<1>5. requests' = [requests EXCEPT ![r] = new]
  BY <1>1 DEF FetchAggregates
<1>6. /\ new.phase = "aggregate" /\ SameWork(q, new)
      /\ new.seen = aggregates[q.memory] /\ new.previous = q.previous
  BY <1>1 DEF Request, SameWork
<1> HIDE DEF new
<1>7. Becomes(r, new) /\ requests'[r] = new
  BY <1>1, <1>4, <1>5, BecomesBy DEF Becomes
<1>8. UNCHANGED <<stores, starts, torn>>
  BY DEF FetchAggregates
<1>9. QED  BY <1>2, <1>4, <1>6, <1>7, <1>8

\* What a centroid, or the request that computes it, has taken notice of.
Known(c) == c.highs \cup c.missed

LEMMA HighsAreMemories == \A u \in Users : Highs(u) \in SUBSET Memories
  BY DEF Highs

LEMMA ComputeCentroidEffect ==
  ASSUME TypeOK, Shapes, NEW r \in Requests, ComputeCentroid(r)
  PROVE  LET q == requests[r]
             new == requests'[r] IN
         /\ q.kind = "recommend" /\ q.phase = "compute"
         /\ Becomes(r, new) /\ new \in Request
         /\ \/ new = Idle
            \/ new.phase = "cache" /\ SameWork(q, new) /\ Highs(q.user) \subseteq Known(new)
         /\ UNCHANGED <<stores, starts, torn>>
<1> DEFINE q == requests[r]
           Highs_q == Highs(q.user)
           Cached(known) == requests' = [requests EXCEPT ![r].phase = "cache", ![r].highs = known,
                                                         ![r].missed = Highs_q \ known]
<1>1. requests \in [Requests -> Request] /\ q \in Request /\ q.user \in Users
  BY DEF TypeOK, Request
<1>2. q.kind = "recommend" /\ q.phase = "compute"
  BY <1>1 DEF ComputeCentroid, At, Shapes, Shape, Request, Kinds
<1>3. Highs_q \in SUBSET Memories
  BY <1>1, HighsAreMemories
<1>4. UNCHANGED <<stores, starts, torn>>
  BY DEF ComputeCentroid
<1>5. Finish(r) \/ \E known \in SUBSET Memories : Cached(known)
  <2>1. SUFFICES ASSUME NEW read \in Read(q.user), NEW known \in Fetched(read), Cached(known)
                 PROVE  known \in SUBSET Memories
    BY DEF ComputeCentroid
  <2>2. read \in SUBSET Memories
    BY <1>3 DEF Read, kSubset
  <2>3. known \subseteq read
    BY DEF Fetched
  <2>4. QED  BY <2>2, <2>3
<1>6. CASE Finish(r)
  <2>1. Becomes(r, Idle)
    BY <1>1, <1>6, FinishEffect
  <2>2. QED  BY <2>1, <1>2, <1>4, IdleType DEF Becomes
<1>7. ASSUME NEW known \in SUBSET Memories, Cached(known)
      PROVE  LET new == requests'[r] IN
             /\ Becomes(r, new) /\ new \in Request
             /\ new.phase = "cache" /\ SameWork(q, new) /\ Highs(q.user) \subseteq Known(new)
  <2> DEFINE new == [q EXCEPT !.phase = "cache", !.highs = known, !.missed = Highs_q \ known]
  <2>1. new \in Request
    BY <1>1, <1>3 DEF Request, Phases
  <2>2. requests' = [requests EXCEPT ![r] = new]
    BY <1>1, <1>7
  <2>3. /\ new.phase = "cache" /\ SameWork(q, new)
        /\ new.highs = known /\ new.missed = Highs_q \ known
    BY <1>1 DEF Request, SameWork
  <2>4. Highs_q \subseteq Known(new)
    BY <2>3 DEF Known
  <2> HIDE DEF new
  <2>5. Becomes(r, new) /\ requests'[r] = new
    BY <1>1, <2>1, <2>2, BecomesBy DEF Becomes
  <2>6. QED  BY <2>1, <2>3, <2>4, <2>5
<1> HIDE DEF Cached
<1>8. QED  BY <1>2, <1>4, <1>5, <1>6, <1>7

LEMMA CacheCentroidEffect ==
  ASSUME TypeOK, Shapes, NEW r \in Requests, CacheCentroid(r)
  PROVE  LET q == requests[r] IN
         /\ q.kind = "recommend" /\ q.phase = "cache"
         /\ Becomes(r, Idle)
         /\ centroids' = [centroids EXCEPT ![q.user] = [cached |-> TRUE, highs |-> q.highs, missed |-> q.missed]]
         /\ centroids' \in [Users -> Centroid]
         /\ UNCHANGED <<ratings, userRatings, aggregates, collections, index, starts, torn>>
<1> DEFINE q == requests[r]
           c == [cached |-> TRUE, highs |-> q.highs, missed |-> q.missed]
<1>1. requests \in [Requests -> Request] /\ q \in Request
  BY DEF TypeOK
<1>2. q.kind = "recommend" /\ q.phase = "cache"
  BY <1>1 DEF CacheCentroid, At, Shapes, Shape, Request, Kinds
<1>3. Becomes(r, Idle)
  BY <1>1, FinishEffect DEF CacheCentroid
<1>4. c \in Centroid
  BY <1>1 DEF Centroid, Request
<1>5. centroids' = [centroids EXCEPT ![q.user] = c]
  BY DEF CacheCentroid
<1> HIDE DEF c
<1>6. centroids' \in [Users -> Centroid]
  BY <1>4, <1>5 DEF TypeOK
<1>7. QED  BY <1>2, <1>3, <1>5, <1>6 DEF CacheCentroid, c

LEMMA BreakOffEffect ==
  ASSUME TypeOK, Shapes, NEW r \in Requests, BreakOff(r)
  PROVE  LET q == requests[r] IN
         /\ q.kind # "none"
         /\ Becomes(r, Idle)
         /\ TearType' /\ torn.memories \subseteq torn'.memories
         /\ torn.users \subseteq torn'.users /\ torn.pairs \subseteq torn'.pairs
         /\ q.phase \in {"user", "fetch", "aggregate"} => q.memory \in torn'.memories
         /\ q.phase \in {"aggregate", "invalidate"} => q.user \in torn'.users
         /\ q.phase = "user" => <<q.memory, q.user>> \in torn'.pairs
         /\ UNCHANGED <<stores, starts>>
<1> DEFINE q == requests[r]
           ms == IF q.phase \in {"user", "fetch", "aggregate"} THEN {q.memory} ELSE {}
           us == IF q.phase \in {"aggregate", "invalidate"} THEN {q.user} ELSE {}
           ps == IF q.phase = "user" THEN {<<q.memory, q.user>>} ELSE {}
<1>1. requests \in [Requests -> Request] /\ q \in Request /\ TearType
  BY DEF TypeOK, TearType
<1>2. q.kind # "none"
  BY <1>1 DEF BreakOff, Shapes, Shape
<1>3. Becomes(r, Idle)
  BY <1>1, FinishEffect DEF BreakOff
<1>4. ms \in SUBSET Memories /\ us \in SUBSET Users /\ ps \in SUBSET (Memories \X Users)
  BY <1>1 DEF Request
<1>5. Tear(ms, us, ps) /\ UNCHANGED <<stores, starts>>
  BY DEF BreakOff
<1>6. /\ q.phase \in {"user", "fetch", "aggregate"} => q.memory \in ms
      /\ q.phase \in {"aggregate", "invalidate"} => q.user \in us
      /\ q.phase = "user" => <<q.memory, q.user>> \in ps
  OBVIOUS
<1> HIDE DEF ms, us, ps
<1>7. /\ TearType'
      /\ torn'.memories = torn.memories \cup ms
      /\ torn'.users = torn.users \cup us
      /\ torn'.pairs = torn.pairs \cup ps
  BY <1>1, <1>4, <1>5, TearEffect
<1>8. QED  BY <1>2, <1>3, <1>5, <1>6, <1>7

\* The requests that are accepted.
LEMMA RateEffect ==
  ASSUME TypeOK, NEW r \in Requests, NEW u \in Users, NEW m \in Memories, NEW stars \in Stars,
         Rate(r, u, m, stars)
  PROVE  \E new \in Request :
           /\ Accept(r, new) /\ new.kind = "rate" /\ new.phase = "read" /\ new.user = u
           /\ new.memory = m /\ new.stars = stars /\ new.seen = aggregates[m]
<1> DEFINE new == [Idle EXCEPT !.kind = "rate", !.phase = "read", !.user = u, !.memory = m,
                               !.stars = stars, !.seen = aggregates[m]]
<1>1. aggregates[m] \in Aggregate /\ stars \in Ratings
  BY StarsAreIntegers DEF TypeOK
<1>2. new \in Request
  BY <1>1, IdleType DEF Request, Kinds, Phases
<1>3. /\ new.kind = "rate" /\ new.phase = "read" /\ new.user = u
      /\ new.memory = m /\ new.stars = stars /\ new.seen = aggregates[m]
  BY IdleType DEF Request
<1>4. Accept(r, new)
  BY DEF Rate
<1> HIDE DEF new
<1>5. QED  BY <1>2, <1>3, <1>4

LEMMA RetractEffect ==
  ASSUME TypeOK, NEW r \in Requests, NEW u \in Users, NEW m \in Memories, Retract(r, u, m)
  PROVE  \E new \in Request :
           /\ Accept(r, new) /\ new.kind = "retract" /\ new.phase = "memory" /\ new.user = u
           /\ new.memory = m /\ new.stars = 0 /\ new.previous = ratings[m][u]
           /\ new.previous # 0
<1> DEFINE new == [Idle EXCEPT !.kind = "retract", !.phase = "memory", !.user = u, !.memory = m,
                               !.previous = ratings[m][u]]
<1>1. ratings[m][u] \in Ratings
  BY DEF TypeOK
<1>2. new \in Request
  BY <1>1, IdleType DEF Request, Kinds, Phases
<1>3. /\ new.kind = "retract" /\ new.phase = "memory" /\ new.user = u
      /\ new.memory = m /\ new.stars = 0 /\ new.previous = ratings[m][u]
  BY IdleType DEF Request, Idle
<1>4. Accept(r, new) /\ ratings[m][u] # 0
  BY DEF Retract
<1> HIDE DEF new
<1>5. QED  BY <1>2, <1>3, <1>4

LEMMA RecommendEffect ==
  ASSUME TypeOK, NEW r \in Requests, NEW u \in Users, Recommend(r, u)
  PROVE  /\ ~ centroids[u].cached
         /\ \E new \in Request :
              Accept(r, new) /\ new.kind = "recommend" /\ new.phase = "compute" /\ new.user = u
<1> DEFINE new == [Idle EXCEPT !.kind = "recommend", !.phase = "compute", !.user = u]
<1>1. new \in Request
  BY IdleType DEF Request, Kinds, Phases
<1>2. new.kind = "recommend" /\ new.phase = "compute" /\ new.user = u
  BY IdleType DEF Request
<1>3. Accept(r, new) /\ ~ centroids[u].cached
  BY DEF Recommend
<1> HIDE DEF new
<1>4. QED  BY <1>1, <1>2, <1>3

-----------------------------------------------------------------------------
(* The steps of the deletion, and what they do to the stores of the        *)
(* ratings.                                                                *)

\* What the deletion goes through in step 3 are memories, and the pair it is at is torn.
Targets ==
  /\ On("memory") \/ On("user") => deletion.todo \subseteq Memories
  /\ On("user") => \E m \in Memories : deletion.at = {m} /\ <<m, Leaver>> \in torn.pairs

Base == DeletionTypeOK /\ Shapes /\ Targets

DeletionRecord ==
  [step : Steps, todo : SUBSET Items, at : SUBSET Items, errors : BOOLEAN, alone : BOOLEAN,
   calls : 0..MaxCalls]

MemoryRatingGone(m) ==
  /\ ratings' = [ratings EXCEPT ![m] = [@ EXCEPT ![Leaver] = 0]] \/ UNCHANGED ratings
  /\ torn'.memories = torn.memories \cup {m} /\ torn'.users = torn.users
  /\ torn'.pairs = torn.pairs \cup {<<m, Leaver>>}
  /\ UNCHANGED <<userRatings, centroids>>

UserRatingGone(m) ==
  /\ <<m, Leaver>> \in torn.pairs
  /\ userRatings' = [userRatings EXCEPT ![Leaver] = [@ EXCEPT ![m] = 0]]
  /\ torn'.memories = torn.memories /\ torn'.users = torn.users
  /\ \/ torn'.pairs = torn.pairs
     \/ /\ torn'.pairs = torn.pairs \ {<<m, Leaver>>}
        /\ ratings[m][Leaver] = 0 /\ ~ BusyPair(m, Leaver)
  /\ UNCHANGED <<ratings, centroids>>

CentroidGone ==
  /\ centroids' = [centroids EXCEPT ![Leaver] = NoCentroid]
  /\ UNCHANGED <<ratings, userRatings, torn>>

OnStores ==
  /\ TearType' /\ UNCHANGED <<requests, starts, aggregates>>
  /\ collections' \subseteq collections /\ index' \subseteq index
  /\ \/ UNCHANGED <<ratings, userRatings, centroids, torn>>
     \/ \E m \in Memories : MemoryRatingGone(m) \/ UserRatingGone(m)
     \/ CentroidGone

LEMMA CellTypes ==
  ASSUME TypeOK, NEW m \in Memories
  PROVE  /\ [ratings EXCEPT ![m] = [@ EXCEPT ![Leaver] = 0]] \in [Memories -> [Users -> Ratings]]
         /\ [userRatings EXCEPT ![Leaver] = [@ EXCEPT ![m] = 0]] \in [Users -> [Memories -> Ratings]]
         /\ [centroids EXCEPT ![Leaver] = NoCentroid] \in [Users -> Centroid]
<1>1. Leaver \in Users /\ 0 \in Ratings
  BY DeletionAssumption, StarsAreIntegers
<1>2. /\ ratings \in [Memories -> [Users -> Ratings]]
      /\ userRatings \in [Users -> [Memories -> Ratings]]
      /\ centroids \in [Users -> Centroid]
  BY DEF TypeOK
<1>3. [ratings[m] EXCEPT ![Leaver] = 0] \in [Users -> Ratings]
  BY <1>1, <1>2
<1>4. [ratings EXCEPT ![m] = [@ EXCEPT ![Leaver] = 0]] \in [Memories -> [Users -> Ratings]]
  BY <1>2, <1>3
<1>5. [userRatings[Leaver] EXCEPT ![m] = 0] \in [Memories -> Ratings]
  BY <1>1, <1>2
<1>6. [userRatings EXCEPT ![Leaver] = [@ EXCEPT ![m] = 0]] \in [Users -> [Memories -> Ratings]]
  BY <1>1, <1>2, <1>5
<1>7. [centroids EXCEPT ![Leaver] = NoCentroid] \in [Users -> Centroid]
  BY <1>1, <1>2 DEF NoCentroid, Centroid
<1>8. QED  BY <1>4, <1>6, <1>7

\* Every step of the deletion is one of these to the stores.
LEMMA DeletionOnStores ==
  ASSUME Base, Call \/ DeletionStep \/ Die
  PROVE  OnStores
<1>0. TearType /\ (UNCHANGED torn => TearType')
  BY DEF Base, DeletionTypeOK, TypeOK, TearType
<1>1. CASE Call
  BY <1>0, <1>1 DEF Call, OnStores, vars, stores
<1>2. CASE Die
  BY <1>0, <1>2 DEF Die, OnStores, vars, stores
<1>3. CASE ScanRegistry \/ Unregister \/ EndCollections \/ DeleteDocuments \/ EndDocuments
            \/ QueryRatings \/ EndRatings \/ DeleteRegistryEntries \/ EndIndex \/ DeletePermissions
  BY <1>0, <1>3 DEF ScanRegistry, Unregister, EndCollections, DeleteDocuments, EndDocuments,
              QueryRatings, EndRatings, DeleteRegistryEntries, EndIndex, DeletePermissions,
              OnStores, vars, stores
<1>4. CASE DropCollection
  BY <1>0, <1>4 DEF DropCollection, OnStores, requestVars
<1>5. CASE DeleteIndexEntry
  BY <1>0, <1>5 DEF DeleteIndexEntry, OnStores, requestVars
<1>6. CASE DeleteCentroid
  BY <1>0, <1>6 DEF DeleteCentroid, OnStores, CentroidGone, requestVars
<1>7. CASE DeleteMemoryRating
  <2>1. PICK m \in deletion.todo :
          /\ ratings' = [ratings EXCEPT ![m][Leaver] = 0] \/ (Failing /\ UNCHANGED ratings)
          /\ Tear({m}, {}, {<<m, Leaver>>})
    BY <1>7 DEF DeleteMemoryRating
  <2>2. m \in Memories
    BY <1>7, <2>1 DEF DeleteMemoryRating, Base, Targets
  <2>3. /\ {m} \in SUBSET Memories /\ {} \in SUBSET Users
        /\ {<<m, Leaver>>} \in SUBSET (Memories \X Users)
    BY <2>2, DeletionAssumption
  <2>4. /\ torn'.memories = torn.memories \cup {m} /\ torn'.users = torn.users \cup {}
        /\ torn'.pairs = torn.pairs \cup {<<m, Leaver>>}
        /\ TearType'
    BY <1>0, <2>1, <2>3, TearEffect
  <2>5. MemoryRatingGone(m)
    BY <1>7, <2>1, <2>4 DEF DeleteMemoryRating, MemoryRatingGone
  <2>6. QED  BY <1>7, <2>2, <2>4, <2>5 DEF DeleteMemoryRating, OnStores, requestVars
<1>8. CASE DeleteUserRating
  <2>1. PICK m \in deletion.at :
          \/ /\ userRatings' = [userRatings EXCEPT ![Leaver][m] = 0]
             /\ torn' = IF ratings[m][Leaver] # 0 \/ BusyPair(m, Leaver) THEN torn
                        ELSE [torn EXCEPT !.pairs = @ \ {<<m, Leaver>>}]
          \/ UNCHANGED <<userRatings, torn>>
    BY <1>8 DEF DeleteUserRating
  <2>2. m \in Memories /\ <<m, Leaver>> \in torn.pairs
    BY <1>8, <2>1 DEF DeleteUserRating, Base, Targets
  <2>4. UNCHANGED <<ratings, aggregates, centroids, collections, index, requests, starts>>
    BY <1>8 DEF DeleteUserRating, requestVars
  <2>5. CASE UNCHANGED <<userRatings, torn>>
    BY <1>0, <2>4, <2>5 DEF OnStores
  <2>6. CASE /\ userRatings' = [userRatings EXCEPT ![Leaver][m] = 0]
             /\ torn' = IF ratings[m][Leaver] # 0 \/ BusyPair(m, Leaver) THEN torn
                        ELSE [torn EXCEPT !.pairs = @ \ {<<m, Leaver>>}]
    <3>1. CASE ratings[m][Leaver] # 0 \/ BusyPair(m, Leaver)
      <4>1. UserRatingGone(m)
        BY <2>2, <2>4, <2>6, <3>1 DEF UserRatingGone
      <4>2. UNCHANGED torn
        BY <2>6, <3>1
      <4>3. QED  BY <1>0, <2>2, <2>4, <4>1, <4>2 DEF OnStores
    <3>2. CASE ~ (ratings[m][Leaver] # 0 \/ BusyPair(m, Leaver))
      <4>1. torn' = [torn EXCEPT !.pairs = @ \ {<<m, Leaver>>}]
        BY <2>6, <3>2
      <4>2. /\ torn'.memories = torn.memories /\ torn'.users = torn.users
            /\ torn'.pairs = torn.pairs \ {<<m, Leaver>>}
            /\ TearType'
        BY <1>0, <4>1 DEF TearType
      <4>3. UserRatingGone(m)
        BY <2>2, <2>4, <2>6, <3>2, <4>2 DEF UserRatingGone
      <4>4. QED  BY <2>2, <2>4, <4>2, <4>3 DEF OnStores
    <3>3. QED  BY <3>1, <3>2
  <2>7. QED  BY <2>1, <2>5, <2>6
<1>9. QED  BY <1>1, <1>2, <1>3, <1>4, <1>5, <1>6, <1>7, <1>8 DEF DeletionStep

\* The deletion keeps its shape, and goes through memories in step 3.
LEMMA DeletionKeepsShape ==
  ASSUME Base, Call \/ DeletionStep \/ Die
  PROVE  /\ registry' \subseteq UserOwned /\ documents' \subseteq Documents
         /\ deletion' \in DeletionRecord
         /\ Targets'
<1>0. /\ deletion \in DeletionRecord /\ registry \subseteq UserOwned /\ documents \subseteq Documents
      /\ userRatings \in [Users -> [Memories -> Ratings]] /\ index \subseteq Memories
      /\ starts \in Nat
  BY ConstantsAssumption DEF Base, DeletionTypeOK, TypeOK, DeletionRecord
<1>1. CASE Call
  <2>1. starts + deletion.calls < MaxCalls /\ deletion.calls \in 0..MaxCalls
    BY <1>0, <1>1 DEF Call, DeletionRecord
  <2>2. deletion.calls + 1 \in 0..MaxCalls
    BY <1>0, <2>1, DeletionAssumption
  <2>3. (\A r \in Running : requests[r].user # Leaver) \in BOOLEAN
    OBVIOUS
  <2>4. deletion' \in DeletionRecord
    BY <1>1, <2>2, <2>3 DEF Call, DeletionRecord, Steps
  <2>5. deletion'.step = "scan"
    BY <1>1 DEF Call
  <2>6. QED  BY <1>0, <1>1, <2>4, <2>5 DEF Call, Targets, On
<1>2. CASE Die
  BY <1>0, <1>2 DEF Die, Go, DeletionRecord, Steps, Targets, On
<1>3. CASE ScanRegistry
  BY <1>0, <1>3, ZenonT(40) DEF ScanRegistry, Go, Note, DeletionRecord, Steps, Items, Targets, On
<1>4. CASE DropCollection
  <2>1. PICK c \in deletion.todo : GoAt("unregister", c) \/ Note("collections", deletion.todo \ {c})
    BY <1>4 DEF DropCollection
  <2>2. deletion' \in DeletionRecord
    <3>1. deletion.todo \in SUBSET Items /\ deletion.todo \ {c} \in SUBSET Items
          /\ {c} \in SUBSET Items
      BY <1>0, <2>1 DEF DeletionRecord
    <3>2. CASE GoAt("unregister", c)
      BY <1>0, <3>1, <3>2 DEF GoAt, DeletionRecord, Steps
    <3>3. CASE Note("collections", deletion.todo \ {c})
      BY <1>0, <3>1, <3>3 DEF Note, DeletionRecord, Steps
    <3>4. QED  BY <2>1, <3>2, <3>3
  <2>3. deletion'.step \in {"unregister", "collections"}
    BY <1>0, <2>1 DEF GoAt, Note, DeletionRecord
  <2>4. QED  BY <1>0, <1>4, <2>2, <2>3 DEF DropCollection, Targets, On
<1>5. CASE Unregister
  BY <1>0, <1>5 DEF Unregister, Go, Note, DeletionRecord, Steps, Targets, On
<1>6. CASE EndCollections
  BY <1>0, <1>6, DeletionAssumption DEF EndCollections, Go, DeletionRecord, Steps, Items, Targets, On
<1>7. CASE DeleteDocuments
  BY <1>0, <1>7, ZenonT(40) DEF DeleteDocuments, Go, Note, DeletionRecord, Steps, Targets, On
<1>8. CASE EndDocuments
  BY <1>0, <1>8 DEF EndDocuments, Go, DeletionRecord, Steps, Targets, On
<1>9. CASE QueryRatings
  <2> DEFINE todo == {m \in Memories : userRatings[Leaver][m] # 0}
  <2>1. todo \subseteq Memories /\ todo \subseteq Items
    BY DEF Items
  <2>2. Go("memory", todo) \/ Note("centroid", {})
    BY <1>9 DEF QueryRatings
  <2>3. registry' = registry /\ documents' = documents
    BY <1>9 DEF QueryRatings
  <2> HIDE DEF todo
  <2>4. CASE Go("memory", todo)
    BY <1>0, <2>1, <2>3, <2>4 DEF Go, DeletionRecord, Steps, Targets, On
  <2>5. CASE Note("centroid", {})
    BY <1>0, <2>3, <2>5 DEF Note, DeletionRecord, Steps, Targets, On
  <2>6. QED  BY <2>2, <2>4, <2>5
<1>10. CASE DeleteMemoryRating
  <2>1. PICK m \in deletion.todo : Tear({m}, {}, {<<m, Leaver>>}) /\ GoAt("user", m)
    BY <1>10 DEF DeleteMemoryRating
  <2>2. deletion.todo \subseteq Memories
    BY <1>10 DEF DeleteMemoryRating, Base, Targets
  <2>3. /\ deletion' \in DeletionRecord /\ deletion'.step = "user" /\ deletion'.at = {m}
        /\ deletion'.todo \subseteq Memories
    BY <1>0, <2>1, <2>2 DEF GoAt, DeletionRecord, Steps
  <2>4. m \in Memories /\ <<m, Leaver>> \in torn'.pairs
    BY <2>1, <2>2 DEF Tear
  <2>5. Targets'
    BY <2>1, <2>2, <2>3, <2>4 DEF Targets, On
  <2>6. QED  BY <1>0, <1>10, <2>3, <2>5 DEF DeleteMemoryRating
<1>11. CASE DeleteUserRating
  <2>1. Go("memory", deletion.todo) \/ Note("centroid", {})
    BY <1>11 DEF DeleteUserRating
  <2>2. deletion.todo \subseteq Memories
    BY <1>11 DEF DeleteUserRating, Base, Targets
  <2>3. /\ deletion' \in DeletionRecord
        /\ (deletion'.step = "memory" /\ deletion'.todo \subseteq Memories) \/ deletion'.step = "centroid"
    BY <1>0, <2>1, <2>2 DEF Go, Note, DeletionRecord, Steps
  <2>4. QED  BY <1>0, <1>11, <2>3 DEF DeleteUserRating, Targets, On
<1>12. CASE EndRatings
  BY <1>0, <1>12 DEF EndRatings, Go, DeletionRecord, Steps, Targets, On
<1>13. CASE DeleteCentroid
  BY <1>0, <1>13 DEF DeleteCentroid, Go, Note, DeletionRecord, Steps, Targets, On
<1>14. CASE DeleteRegistryEntries
  <2> DEFINE todo == {m \in index : CollectionOf[m] \in UserOwned}
  <2>1. todo \subseteq Items
    BY <1>0 DEF Items
  <2>2. /\ Go("index", todo) \/ Note("index", todo)
        /\ registry' = {} \/ registry' \in SUBSET registry
        /\ documents' = documents
    BY <1>14 DEF DeleteRegistryEntries
  <2> HIDE DEF todo
  <2>3. deletion' \in DeletionRecord /\ deletion'.step = "index"
    BY <1>0, <2>1, <2>2 DEF Go, Note, DeletionRecord, Steps
  <2>4. QED  BY <1>0, <2>2, <2>3 DEF Targets, On
<1>15. CASE DeleteIndexEntry
  BY <1>0, <1>15, ZenonT(40) DEF DeleteIndexEntry, Go, Note, DeletionRecord, Steps, Targets, On
<1>16. CASE EndIndex
  BY <1>0, <1>16 DEF EndIndex, Go, DeletionRecord, Steps, Targets, On
<1>17. CASE DeletePermissions
  BY <1>0, <1>17 DEF DeletePermissions, Go, Note, DeletionRecord, Steps, Targets, On
<1>18. QED
  BY <1>1, <1>2, <1>3, <1>4, <1>5, <1>6, <1>7, <1>8, <1>9, <1>10, <1>11, <1>12, <1>13, <1>14,
     <1>15, <1>16, <1>17 DEF DeletionStep

-----------------------------------------------------------------------------
(* Types and shapes are kept                                               *)

\* What a step of the whole may be.
LEMMA StepCases ==
  ASSUME DeletionNext
  PROVE  \/ Call \/ DeletionStep \/ Die
         \/ /\ UNCHANGED deletionVars
            /\ \E r \in Requests :
                 \/ \E u \in Users :
                      /\ u # Leaver \/ deletion.calls = 0
                      /\ \/ Recommend(r, u)
                         \/ \E m \in Memories :
                              (\E stars \in Stars : Rate(r, u, m, stars)) \/ Retract(r, u, m)
                 \/ RatingStep(r)
<1>1. CASE Serve
  <2>1. PICK r \in Requests :
          \/ \E u \in IF deletion.calls = 0 THEN Users ELSE Users \ {Leaver} :
               \/ Recommend(r, u)
               \/ \E m \in Memories :
                    (\E stars \in Stars : Rate(r, u, m, stars)) \/ Retract(r, u, m)
          \/ RatingStep(r)
    BY <1>1 DEF Serve
  <2>2. UNCHANGED deletionVars
    BY <1>1 DEF Serve
  <2>3. QED  BY <2>1, <2>2
<1>2. QED  BY <1>1 DEF DeletionNext

LEMMA ShapesKept ==
  ASSUME Shapes, NEW r \in Requests, NEW new, Becomes(r, new), Shape(new)
  PROVE  Shapes'
<1>1. ASSUME NEW p \in Requests PROVE Shape(requests'[p])
  BY <1>1 DEF Shapes, Becomes
<1>2. QED  BY <1>1 DEF Shapes, Shape

LEMMA IdleShape == Shape(Idle)
  BY IdleFields DEF Shape

LEMMA TypesOf ==
  ASSUME TypeOK, requests' \in [Requests -> Request], starts' \in 0..MaxStarts, TearType',
         ratings' \in [Memories -> [Users -> Ratings]],
         userRatings' \in [Users -> [Memories -> Ratings]],
         aggregates' \in [Memories -> Aggregate], centroids' \in [Users -> Centroid],
         collections' \subseteq collections, index' \subseteq index
  PROVE  TypeOK'
  BY DEF TypeOK, TearType

LEMMA AcceptTypes ==
  ASSUME TypeOK, Shapes, NEW r \in Requests, NEW new \in Request, Accept(r, new), Shape(new)
  PROVE  TypeOK' /\ Shapes'
<1>1. /\ Becomes(r, new) /\ starts' \in 0..MaxStarts /\ TearType' /\ UNCHANGED stores
  BY AcceptEffect
<1>2. /\ ratings \in [Memories -> [Users -> Ratings]]
      /\ userRatings \in [Users -> [Memories -> Ratings]]
      /\ aggregates \in [Memories -> Aggregate] /\ centroids \in [Users -> Centroid]
  BY DEF TypeOK
<1>3. TypeOK'
  BY <1>1, <1>2, TypesOf DEF stores, Becomes
<1>4. QED  BY <1>1, <1>3, ShapesKept

LEMMA RatingStepTypes ==
  ASSUME TypeOK, Shapes, NEW r \in Requests, RatingStep(r)
  PROVE  TypeOK' /\ Shapes'
<1> DEFINE q == requests[r]
           new == requests'[r]
<1>1. /\ ratings \in [Memories -> [Users -> Ratings]]
      /\ userRatings \in [Users -> [Memories -> Ratings]]
      /\ aggregates \in [Memories -> Aggregate] /\ centroids \in [Users -> Centroid]
      /\ TearType /\ (UNCHANGED torn => TearType') /\ starts \in 0..MaxStarts
      /\ Shape(q) /\ Shape(Idle)
  BY IdleShape DEF TypeOK, TearType, Shapes
<1> USE DEF stores
<1>2. CASE ReadRating(r)
  <2>1. Becomes(r, new) /\ Shape(new) /\ UNCHANGED <<stores, starts, torn>>
    BY <1>1, <1>2, ReadRatingEffect DEF Shape, SameWork
  <2>2. QED  BY <1>1, <2>1, TypesOf, ShapesKept DEF Becomes
<1>3. CASE WriteMemoryRating(r)
  <2>1. /\ Becomes(r, new) /\ Shape(new) /\ ratings' \in [Memories -> [Users -> Ratings]]
        /\ UNCHANGED <<userRatings, aggregates, centroids, collections, index, starts, torn>>
    BY <1>1, <1>3, WriteMemoryRatingEffect DEF Shape, SameWork
  <2>2. QED  BY <1>1, <2>1, TypesOf, ShapesKept DEF Becomes
<1>4. CASE WriteUserRating(r)
  <2>1. /\ Becomes(r, new) /\ Shape(new) /\ userRatings' \in [Users -> [Memories -> Ratings]]
        /\ UNCHANGED <<ratings, aggregates, centroids, collections, index, starts, torn>>
    BY <1>1, <1>4, WriteUserRatingEffect DEF Shape, SameWork
  <2>2. QED  BY <1>1, <2>1, TypesOf, ShapesKept DEF Becomes
<1>5. CASE WriteAggregates(r)
  <2>1. /\ Becomes(r, new) /\ Shape(new) /\ aggregates' \in [Memories -> Aggregate]
        /\ UNCHANGED <<ratings, userRatings, centroids, collections, index, starts, torn>>
    BY <1>1, <1>5, WriteAggregatesEffect DEF Shape, SameWork
  <2>2. QED  BY <1>1, <2>1, TypesOf, ShapesKept DEF Becomes
<1>6. CASE InvalidateCentroid(r)
  <2>1. /\ Becomes(r, Idle) /\ centroids' \in [Users -> Centroid]
        /\ UNCHANGED <<ratings, userRatings, aggregates, collections, index, starts, torn>>
    BY <1>6, InvalidateCentroidEffect
  <2>2. QED  BY <1>1, <2>1, TypesOf, ShapesKept DEF Becomes
<1>7. CASE FetchAggregates(r)
  <2>1. Becomes(r, new) /\ Shape(new) /\ UNCHANGED <<stores, starts, torn>>
    BY <1>1, <1>7, FetchAggregatesEffect DEF Shape, SameWork
  <2>2. QED  BY <1>1, <2>1, TypesOf, ShapesKept DEF Becomes
<1>8. CASE ComputeCentroid(r)
  <2>1. Becomes(r, new) /\ Shape(new) /\ UNCHANGED <<stores, starts, torn>>
    BY <1>1, <1>8, ComputeCentroidEffect DEF Shape, SameWork
  <2>2. QED  BY <1>1, <2>1, TypesOf, ShapesKept DEF Becomes
<1>9. CASE CacheCentroid(r)
  <2>1. /\ Becomes(r, Idle) /\ centroids' \in [Users -> Centroid]
        /\ UNCHANGED <<ratings, userRatings, aggregates, collections, index, starts, torn>>
    BY <1>9, CacheCentroidEffect
  <2>2. QED  BY <1>1, <2>1, TypesOf, ShapesKept DEF Becomes
<1>10. CASE BreakOff(r)
  <2>1. Becomes(r, Idle) /\ TearType' /\ UNCHANGED <<stores, starts>>
    BY <1>10, BreakOffEffect
  <2>2. QED  BY <1>1, <2>1, TypesOf, ShapesKept DEF Becomes
<1>11. QED
  BY <1>2, <1>3, <1>4, <1>5, <1>6, <1>7, <1>8, <1>9, <1>10 DEF RatingStep

LEMMA OnStoresTypes ==
  ASSUME TypeOK, OnStores
  PROVE  TypeOK'
<1>1. /\ ratings \in [Memories -> [Users -> Ratings]]
      /\ userRatings \in [Users -> [Memories -> Ratings]]
      /\ aggregates \in [Memories -> Aggregate] /\ centroids \in [Users -> Centroid]
      /\ requests \in [Requests -> Request] /\ starts \in 0..MaxStarts
  BY DEF TypeOK
<1>2. /\ ratings' \in [Memories -> [Users -> Ratings]]
      /\ userRatings' \in [Users -> [Memories -> Ratings]]
      /\ centroids' \in [Users -> Centroid]
  <2>1. CASE UNCHANGED <<ratings, userRatings, centroids, torn>>
    BY <1>1, <2>1
  <2>2. CASE CentroidGone
    BY <1>1, <2>2, CellTypes, ConstantsAssumption DEF CentroidGone
  <2>3. ASSUME NEW m \in Memories, MemoryRatingGone(m)
        PROVE (/\ ratings' \in [Memories -> [Users -> Ratings]]
             /\ userRatings' \in [Users -> [Memories -> Ratings]]
             /\ centroids' \in [Users -> Centroid])
    BY <1>1, <2>3, CellTypes DEF MemoryRatingGone
  <2>4. ASSUME NEW m \in Memories, UserRatingGone(m)
        PROVE (/\ ratings' \in [Memories -> [Users -> Ratings]]
             /\ userRatings' \in [Users -> [Memories -> Ratings]]
             /\ centroids' \in [Users -> Centroid])
    BY <1>1, <2>4, CellTypes DEF UserRatingGone
  <2>5. QED  BY <2>1, <2>2, <2>3, <2>4 DEF OnStores
<1>3. QED  BY <1>1, <1>2, TypesOf DEF OnStores

LEMMA TornGrows ==
  ASSUME TypeOK, Shapes, NEW r \in Requests, RatingStep(r)
  PROVE  /\ torn.memories \subseteq torn'.memories
         /\ torn.users \subseteq torn'.users
         /\ torn.pairs \subseteq torn'.pairs
<1>1. CASE BreakOff(r)
  BY <1>1, BreakOffEffect
<1>2. CASE ~ BreakOff(r)
  <2>1. UNCHANGED torn
    BY <1>2 DEF RatingStep, ReadRating, WriteMemoryRating, WriteUserRating, WriteAggregates,
                InvalidateCentroid, FetchAggregates, ComputeCentroid, CacheCentroid
  <2>2. QED  BY <2>1
<1>3. QED  BY <1>1, <1>2

LEMMA BaseRequests ==
  ASSUME Base, UNCHANGED deletionVars, TypeOK' /\ Shapes', torn.pairs \subseteq torn'.pairs
  PROVE  Base'
<1>1. Targets'
  BY DEF Base, Targets, On, deletionVars
<1>2. DeletionTypeOK'
  BY DEF Base, DeletionTypeOK, deletionVars, Items, Steps
<1>3. QED  BY <1>1, <1>2 DEF Base

\* A request that is accepted has the shape of its kind.
LEMMA AcceptedShapes ==
  ASSUME NEW new \in Request
  PROVE  /\ new.kind = "rate" /\ new.phase = "read" /\ new.stars \in Stars => Shape(new)
         /\ new.kind = "retract" /\ new.phase = "memory" /\ new.stars = 0 /\ new.previous # 0
              => Shape(new)
         /\ new.kind = "recommend" /\ new.phase = "compute" => Shape(new)
  BY DEF Shape

LEMMA BaseNext ==
  ASSUME Base, [DeletionNext]_allVars
  PROVE  Base'
<1>0. TypeOK /\ Shapes
  BY DEF Base, DeletionTypeOK
<1>1. CASE Call \/ DeletionStep \/ Die
  <2>1. OnStores
    BY <1>1, DeletionOnStores
  <2>2. TypeOK'
    BY <1>0, <2>1, OnStoresTypes
  <2>3. Shapes'
    BY <1>0, <2>1 DEF OnStores, Shapes, Shape
  <2>4. QED  BY <1>1, <2>2, <2>3, DeletionKeepsShape DEF Base, DeletionTypeOK, DeletionRecord
<1>2. ASSUME UNCHANGED deletionVars, NEW r \in Requests, RatingStep(r) PROVE Base'
  BY <1>0, <1>2, RatingStepTypes, TornGrows, BaseRequests
<1>3. ASSUME UNCHANGED deletionVars, NEW r \in Requests, NEW new \in Request, Accept(r, new), Shape(new)
      PROVE  Base'
  BY <1>0, <1>3, AcceptTypes, AcceptEffect, BaseRequests
<1>4. ASSUME UNCHANGED deletionVars, NEW r \in Requests, NEW u \in Users, Recommend(r, u)
      PROVE  Base'
  BY <1>0, <1>3, <1>4, RecommendEffect, AcceptedShapes
<1>5. ASSUME UNCHANGED deletionVars, NEW r \in Requests, NEW u \in Users, NEW m \in Memories,
             NEW stars \in Stars, Rate(r, u, m, stars)
      PROVE  Base'
  BY <1>0, <1>3, <1>5, RateEffect, AcceptedShapes
<1>6. ASSUME UNCHANGED deletionVars, NEW r \in Requests, NEW u \in Users, NEW m \in Memories,
             Retract(r, u, m)
      PROVE  Base'
  BY <1>0, <1>3, <1>6, RetractEffect, AcceptedShapes
<1>7. CASE UNCHANGED allVars
  BY <1>7 DEF allVars, vars, stores, deletionVars, Base, DeletionTypeOK, TypeOK, Shapes, Shape,
              Targets, On
<1>8. QED  BY <1>1, <1>2, <1>4, <1>5, <1>6, <1>7, StepCases

LEMMA BaseInit ==
  ASSUME DeletionInit
  PROVE  Base
<1>1. PICK rated \in SUBSET Memories, stars \in Stars :
        LET first == [m \in Memories |-> IF m \in rated THEN stars ELSE 0] IN
        /\ ratings = [m \in Memories |-> [u \in Users |-> first[m]]]
        /\ userRatings = [u \in Users |-> first]
        /\ aggregates = [m \in Memories |->
             [sum |-> Cardinality(Users) * first[m],
              count |-> IF m \in rated THEN Cardinality(Users) ELSE 0]]
  BY DEF DeletionInit, Init
<1> DEFINE first == [m \in Memories |-> IF m \in rated THEN stars ELSE 0]
<1>2. /\ ratings = [m \in Memories |-> [u \in Users |-> first[m]]]
      /\ userRatings = [u \in Users |-> first]
      /\ aggregates = [m \in Memories |->
           [sum |-> Cardinality(Users) * first[m],
            count |-> IF m \in rated THEN Cardinality(Users) ELSE 0]]
  BY <1>1
<1>3. first \in [Memories -> Ratings]
  BY StarsAreIntegers
<1>4. Cardinality(Users) \in Nat
  BY ConstantsAssumption, FS_CardinalityType
<1>5. \A m \in Memories : Cardinality(Users) * first[m] \in Int
  BY <1>3, <1>4, StarsAreIntegers
<1> HIDE DEF first
<1>6. /\ ratings \in [Memories -> [Users -> Ratings]]
      /\ userRatings \in [Users -> [Memories -> Ratings]]
  BY <1>2, <1>3
<1>7. aggregates \in [Memories -> Aggregate]
  BY <1>2, <1>4, <1>5 DEF Aggregate
<1>8. /\ centroids = [u \in Users |-> NoCentroid] /\ collections = Collections /\ index = Memories
      /\ requests = [r \in Requests |-> Idle] /\ starts = 0
      /\ torn = [memories |-> {}, users |-> {}, pairs |-> {}]
  BY DEF DeletionInit, Init
<1>9. TypeOK
  BY <1>6, <1>7, <1>8, IdleType, ConstantsAssumption DEF TypeOK, NoCentroid, Centroid
<1>10. Shapes
  BY <1>8, IdleShape DEF Shapes
<1>11. DeletionTypeOK /\ Targets
  BY <1>9, DeletionAssumption DEF DeletionInit, DeletionTypeOK, Targets, On, Steps
<1>12. QED  BY <1>10, <1>11 DEF Base

\* Documents, requests and the deletion keep their types, whatever overlaps, fails or dies: no
\* sum or count is anything but a number, and step 3 deletes ratings of memories only.
THEOREM TypeCorrect == DeletionSpec => []DeletionTypeOK
<1>1. DeletionInit => Base
  BY BaseInit
<1>2. Base /\ [DeletionNext]_allVars => Base'
  BY BaseNext
<1>3. Base => DeletionTypeOK
  BY DEF Base
<1>4. QED  BY <1>1, <1>2, <1>3, PTL DEF DeletionSpec

LEMMA BaseAlways == DeletionSpec => []Base
<1>1. DeletionInit => Base
  BY BaseInit
<1>2. Base /\ [DeletionNext]_allVars => Base'
  BY BaseNext
<1>3. QED  BY <1>1, <1>2, PTL DEF DeletionSpec

-----------------------------------------------------------------------------
(* The sums and counts on the memories.  On a memory that is not torn at   *)
(* most one request rates or retracts; until that one has written the      *)
(* rating its aggregates match, from then on they will match when it       *)
(* writes what it is about to make of them.                                *)

OnMemory(r, m) == requests[r].kind \in {"rate", "retract"} /\ requests[r].memory = m
Halfway(r) == requests[r].phase \in {"user", "fetch", "aggregate"}

Summed(m) ==
  /\ aggregates[m].sum = Total(ratings[m])
  /\ aggregates[m].count = Count(ratings[m])

\* What the request has read of memory m is still so, and what it owes m.
Remembers(r, m) ==
  LET q == requests[r] IN
  /\ q.phase = "memory" => q.previous = ratings[m][q.user]
  /\ (q.phase = "aggregate" \/ (q.kind = "rate" /\ q.phase \in {"read", "memory", "user"})) =>
       q.seen = aggregates[m]
  /\ Halfway(r) =>
       /\ Total(ratings[m]) = aggregates[m].sum + q.stars - q.previous
       /\ Count(ratings[m]) = IF q.kind = "retract" THEN aggregates[m].count - 1
                              ELSE IF q.previous = 0 THEN aggregates[m].count + 1
                              ELSE aggregates[m].count

MemoryOK(m) ==
  /\ \A r, p \in Requests : OnMemory(r, m) /\ OnMemory(p, m) => r = p
  /\ (\A r \in Requests : OnMemory(r, m) => ~ Halfway(r)) => Summed(m)
  /\ \A r \in Requests : OnMemory(r, m) => Remembers(r, m)

MemoriesOK == \A m \in Memories \ torn.memories : MemoryOK(m)

\* A memory that the step has nothing to do with.
LEMMA MemoryUntouched ==
  ASSUME NEW m \in Memories, MemoryOK(m),
         ratings'[m] = ratings[m], aggregates'[m] = aggregates[m],
         \A p \in Requests : \/ requests'[p] = requests[p]
                             \/ ~ OnMemory(p, m) /\ ~ OnMemory(p, m)'
  PROVE  MemoryOK(m)'
<1>1. ASSUME NEW p \in Requests, OnMemory(p, m)'
      PROVE  OnMemory(p, m) /\ requests'[p] = requests[p]
  BY <1>1 DEF OnMemory
<1>2. ASSUME NEW p \in Requests, OnMemory(p, m)
      PROVE  OnMemory(p, m)' /\ requests'[p] = requests[p]
  BY <1>2 DEF OnMemory
<1>3. \A r, p \in Requests : OnMemory(r, m)' /\ OnMemory(p, m)' => r = p
  BY <1>1 DEF MemoryOK
<1>4. Summed(m) => Summed(m)'
  BY DEF Summed, Total, Count
<1>5. (\A r \in Requests : OnMemory(r, m)' => ~ Halfway(r)') => Summed(m)'
  BY <1>2, <1>4 DEF MemoryOK, Halfway
<1>6. ASSUME NEW r \in Requests, OnMemory(r, m)' PROVE Remembers(r, m)'
  <2>1. Remembers(r, m) /\ requests'[r] = requests[r]
    BY <1>1, <1>6 DEF MemoryOK
  <2>2. QED  BY <2>1 DEF Remembers, Halfway, Total, Count
<1>7. QED  BY <1>3, <1>5, <1>6 DEF MemoryOK

\* A memory that no other request is at work on.
LEMMA MemoryWorker ==
  ASSUME NEW m \in Memories, NEW r \in Requests, NEW new, Becomes(r, new),
         \A p \in Requests \ {r} : ~ OnMemory(p, m),
         OnMemory(r, m)' => Remembers(r, m)' /\ (Halfway(r)' \/ Summed(m)'),
         ~ OnMemory(r, m)' => Summed(m)'
  PROVE  MemoryOK(m)'
<1>1. \A p \in Requests \ {r} : ~ OnMemory(p, m)'
  BY DEF OnMemory, Becomes
<1>2. QED  BY <1>1 DEF MemoryOK

LEMMA MemoryAccepts ==
  ASSUME TypeOK, Shapes, NEW m \in Memories \ torn'.memories, MemoryOK(m),
         NEW r \in Requests, NEW new \in Request, Accept(r, new),
         \/ new.kind = "recommend"
         \/ new.kind = "rate" /\ new.phase = "read" /\ new.seen = aggregates[new.memory]
         \/ /\ new.kind = "retract" /\ new.phase = "memory"
            /\ new.previous = ratings[new.memory][new.user]
  PROVE  MemoryOK(m)'
<1>1. /\ requests[r].kind = "none" /\ Becomes(r, new) /\ UNCHANGED <<ratings, aggregates>>
      /\ new.kind # "recommend" =>
           \A p \in Rating : requests[p].memory = new.memory => new.memory \in torn'.memories
  BY AcceptEffect DEF stores
<1>2. ~ OnMemory(r, m) /\ requests'[r] = new /\ \A p \in Requests \ {r} : requests'[p] = requests[p]
  BY <1>1 DEF OnMemory, Becomes
<1>3. CASE new.kind = "recommend" \/ new.memory # m
  <2>1. ~ OnMemory(r, m)'
    BY <1>2, <1>3 DEF OnMemory
  <2>2. QED  BY <1>1, <1>2, <2>1, MemoryUntouched
<1>4. CASE new.kind # "recommend" /\ new.memory = m
  <2>1. \A p \in Requests : ~ OnMemory(p, m)
    BY <1>1, <1>2, <1>4 DEF OnMemory, Rating, Running
  <2>2. Summed(m)
    BY <2>1 DEF MemoryOK
  <2>3. Summed(m)'
    BY <1>1, <2>2 DEF Summed, Total, Count
  <2>4. Remembers(r, m)'
    BY <1>1, <1>2, <1>4 DEF Remembers, Halfway
  <2>5. QED  BY <1>1, <2>1, <2>3, <2>4, MemoryWorker
<1>5. QED  BY <1>3, <1>4

\* A step of a request that is not on the memory.
LEMMA MemoryOfOthers ==
  ASSUME TypeOK, Shapes, NEW m \in Memories, MemoryOK(m), NEW r \in Requests, RatingStep(r),
         ~ OnMemory(r, m)
  PROVE  MemoryOK(m)'
<1> DEFINE q == requests[r]
<1>0. /\ ratings \in [Memories -> [Users -> Ratings]] /\ aggregates \in [Memories -> Aggregate]
      /\ q \in Request
  BY DEF TypeOK
<1>1. /\ \E new \in Request : Becomes(r, new) /\ (new = Idle \/ SameWork(q, new))
      /\ q.kind = "recommend" \/ q.memory # m => ratings'[m] = ratings[m] /\ aggregates'[m] = aggregates[m]
  <2>1. CASE ReadRating(r)
    BY <2>1, ReadRatingEffect DEF stores
  <2>2. CASE WriteMemoryRating(r)
    BY <1>0, <2>2, WriteMemoryRatingEffect
  <2>3. CASE WriteUserRating(r)
    BY <2>3, WriteUserRatingEffect
  <2>4. CASE WriteAggregates(r)
    BY <1>0, <2>4, WriteAggregatesEffect
  <2>5. CASE InvalidateCentroid(r)
    BY <2>5, InvalidateCentroidEffect, IdleType
  <2>6. CASE FetchAggregates(r)
    BY <2>6, FetchAggregatesEffect DEF stores
  <2>7. CASE ComputeCentroid(r)
    BY <2>7, ComputeCentroidEffect DEF stores
  <2>8. CASE CacheCentroid(r)
    BY <2>8, CacheCentroidEffect, IdleType
  <2>9. CASE BreakOff(r)
    BY <2>9, BreakOffEffect, IdleType DEF stores
  <2>10. QED
    BY <2>1, <2>2, <2>3, <2>4, <2>5, <2>6, <2>7, <2>8, <2>9 DEF RatingStep
<1>2. q.kind # "none"
  BY <1>0 DEF RatingStep, ReadRating, WriteMemoryRating, WriteUserRating, WriteAggregates,
              InvalidateCentroid, FetchAggregates, ComputeCentroid, CacheCentroid, BreakOff, At,
              Shapes, Shape
<1>3. q.kind = "recommend" \/ q.memory # m
  BY <1>0, <1>2 DEF OnMemory, Request, Kinds
<1>4. ~ OnMemory(r, m)'
  BY <1>1, IdleFields DEF OnMemory, Becomes, SameWork
<1>5. QED  BY <1>1, <1>3, <1>4, MemoryUntouched DEF Becomes

\* A step of the one request that is on the memory.
LEMMA MemoryOfWorker ==
  ASSUME TypeOK, Shapes, NEW m \in Memories \ torn'.memories, MemoryOK(m),
         NEW r \in Requests, RatingStep(r), OnMemory(r, m)
  PROVE  MemoryOK(m)'
<1> DEFINE q == requests[r]
           row == ratings[m]
           new == requests'[r]
<1>1. /\ q.memory = m /\ q.kind \in {"rate", "retract"}
      /\ \A p \in Requests \ {r} : ~ OnMemory(p, m)
      /\ Remembers(r, m)
      /\ ~ Halfway(r) => Summed(m)
  BY DEF OnMemory, MemoryOK
<1>2. /\ q \in Request /\ ratings \in [Memories -> [Users -> Ratings]]
      /\ row \in [Users -> Ratings] /\ aggregates \in [Memories -> Aggregate]
      /\ q.user \in Users /\ q.stars \in Ratings /\ q.previous \in Ratings
      /\ aggregates[m].sum \in Int /\ aggregates[m].count \in Nat
      /\ Total(row) \in Int /\ Count(row) \in Nat
      /\ Shape(q)
  BY RowTypes DEF TypeOK, Request, Aggregate, Shapes
<1>3. ~ OnMemory(r, m)' \/ OnMemory(r, m)'
  OBVIOUS
<1>4. CASE ReadRating(r)
  <2>1. /\ q.kind = "rate" /\ q.phase = "read" /\ new.phase = "memory" /\ Becomes(r, new)
        /\ SameWork(q, new) /\ new.previous = row[q.user] /\ new.seen = q.seen
        /\ UNCHANGED <<ratings, aggregates>>
    BY <1>1, <1>4, ReadRatingEffect DEF stores
  <2>2. OnMemory(r, m)' /\ ~ Halfway(r)
    BY <1>1, <2>1 DEF OnMemory, SameWork, Halfway
  <2>3. Summed(m)'
    BY <1>1, <2>1, <2>2 DEF Summed, Total, Count
  <2>4. Remembers(r, m)'
    BY <1>1, <2>1 DEF Remembers, Halfway, SameWork
  <2>5. QED  BY <1>1, <2>1, <2>2, <2>3, <2>4, MemoryWorker
<1>5. CASE WriteMemoryRating(r)
  <2>1. /\ q.phase = "memory" /\ new.phase = "user" /\ Becomes(r, new) /\ SameWork(q, new)
        /\ new.previous = q.previous /\ new.seen = q.seen
        /\ ratings' = [ratings EXCEPT ![q.memory] = [@ EXCEPT ![q.user] = q.stars]]
        /\ UNCHANGED aggregates
    BY <1>5, WriteMemoryRatingEffect
  <2>2. OnMemory(r, m)' /\ Halfway(r)' /\ ~ Halfway(r)
    BY <1>1, <2>1 DEF OnMemory, SameWork, Halfway
  <2>3. ratings'[m] = [row EXCEPT ![q.user] = q.stars]
    BY <1>1, <1>2, <2>1
  <2>4. /\ Total(ratings'[m]) = Total(row) + q.stars - row[q.user]
        /\ (row[q.user] = 0) = (q.stars = 0) => Count(ratings'[m]) = Count(row)
        /\ row[q.user] = 0 /\ q.stars # 0 => Count(ratings'[m]) = Count(row) + 1
        /\ row[q.user] # 0 /\ q.stars = 0 => Count(ratings'[m]) = Count(row) - 1
    <3> DEFINE changed == [row EXCEPT ![q.user] = q.stars]
    <3>1. /\ Total(changed) = Total(row) + q.stars - row[q.user]
          /\ (row[q.user] = 0) = (q.stars = 0) => Count(changed) = Count(row)
          /\ row[q.user] = 0 /\ q.stars # 0 => Count(changed) = Count(row) + 1
          /\ row[q.user] # 0 /\ q.stars = 0 => Count(changed) = Count(row) - 1
      BY <1>2, RowChange, ZenonT(40)
    <3>2. ratings'[m] = changed
      BY <2>3
    <3> HIDE DEF changed
    <3>3. QED  BY <3>1, <3>2
  <2>5. row[q.user] = q.previous
    BY <1>1, <2>1 DEF Remembers
  <2>6. q.kind = "rate" => q.stars # 0
    BY <1>2, StarsAreIntegers DEF Shape
  <2>7. q.kind = "retract" => q.stars = 0 /\ q.previous # 0
    BY <1>2 DEF Shape
  <2>8. aggregates[m].sum = Total(row) /\ aggregates[m].count = Count(row)
    BY <1>1, <2>2 DEF Summed
  <2>9. Total(ratings'[m]) = aggregates[m].sum + q.stars - q.previous
    BY <2>4, <2>5, <2>8
  <2>10. Count(ratings'[m]) = IF q.kind = "retract" THEN aggregates[m].count - 1
                              ELSE IF q.previous = 0 THEN aggregates[m].count + 1
                              ELSE aggregates[m].count
    BY <1>1, <2>4, <2>5, <2>6, <2>7, <2>8
  <2>11. q.kind = "rate" => q.seen = aggregates[m]
    BY <1>1, <2>1 DEF Remembers
  <2>12. Total(ratings[m])' = Total(ratings'[m]) /\ Count(ratings[m])' = Count(ratings'[m])
    BY DEF Total, Count
  <2>13. Remembers(r, m)'
    BY <1>1, <2>1, <2>2, <2>9, <2>10, <2>11, <2>12 DEF Remembers, SameWork
  <2>14. QED  BY <1>1, <2>1, <2>2, <2>13, MemoryWorker
<1>6. CASE WriteUserRating(r)
  <2>1. /\ q.phase = "user" /\ new.phase = IF q.kind = "rate" THEN "aggregate" ELSE "fetch"
        /\ Becomes(r, new) /\ SameWork(q, new) /\ new.previous = q.previous /\ new.seen = q.seen
        /\ UNCHANGED <<ratings, aggregates>>
    BY <1>6, WriteUserRatingEffect
  <2>2. OnMemory(r, m)' /\ Halfway(r)' /\ Halfway(r)
    BY <1>1, <2>1 DEF OnMemory, SameWork, Halfway
  <2>3. Remembers(r, m)'
    BY <1>1, <2>1, <2>2 DEF Remembers, SameWork, Total, Count
  <2>4. QED  BY <1>1, <2>1, <2>2, <2>3, MemoryWorker
<1>7. CASE WriteAggregates(r)
  <2>1. /\ q.phase = "aggregate" /\ Becomes(r, new)
        /\ \/ new.phase = "invalidate" /\ SameWork(q, new)
           \/ new = Idle
        /\ aggregates' = [aggregates EXCEPT ![q.memory] = Adjusted(q)]
        /\ UNCHANGED ratings
    BY <1>7, WriteAggregatesEffect
  <2>2. /\ q.seen = aggregates[m]
        /\ Total(row) = aggregates[m].sum + q.stars - q.previous
        /\ Count(row) = IF q.kind = "retract" THEN aggregates[m].count - 1
                        ELSE IF q.previous = 0 THEN aggregates[m].count + 1
                        ELSE aggregates[m].count
    BY <1>1, <2>1 DEF Remembers, Halfway
  <2>3. aggregates'[m] = Adjusted(q)
    BY <1>1, <1>2, <2>1
  <2>4. aggregates'[m].sum = Total(row) /\ aggregates'[m].count = Count(row)
    BY <1>1, <1>2, <2>2, <2>3, AdjustedType
  <2>5. Summed(m)'
    BY <2>1, <2>4 DEF Summed, Total, Count
  <2>6. OnMemory(r, m)' => Remembers(r, m)'
    BY <2>1, IdleFields DEF OnMemory, Remembers, Halfway
  <2>7. QED  BY <1>1, <2>1, <2>5, <2>6, MemoryWorker
<1>8. CASE FetchAggregates(r)
  <2>1. /\ q.phase = "fetch" /\ new.phase = "aggregate" /\ Becomes(r, new) /\ SameWork(q, new)
        /\ new.previous = q.previous /\ new.seen = aggregates[q.memory]
        /\ UNCHANGED <<ratings, aggregates>>
    BY <1>8, FetchAggregatesEffect DEF stores
  <2>2. OnMemory(r, m)' /\ Halfway(r)' /\ Halfway(r)
    BY <1>1, <2>1 DEF OnMemory, SameWork, Halfway
  <2>3. Remembers(r, m)'
    BY <1>1, <2>1, <2>2 DEF Remembers, SameWork, Total, Count
  <2>4. QED  BY <1>1, <2>1, <2>2, <2>3, MemoryWorker
<1>9. ASSUME Becomes(r, Idle), UNCHANGED <<ratings, aggregates>>, ~ Halfway(r)
      PROVE  MemoryOK(m)'
  <2>1. Summed(m)' /\ ~ OnMemory(r, m)'
    BY <1>1, <1>9, IdleFields DEF Summed, Total, Count, OnMemory, Becomes
  <2>2. QED  BY <1>1, <1>9, <2>1, MemoryWorker
<1>10. CASE InvalidateCentroid(r)
  BY <1>9, <1>10, InvalidateCentroidEffect DEF Halfway
<1>11. CASE BreakOff(r)
  <2>1. ~ Halfway(r)
    BY <1>1, <1>11, BreakOffEffect DEF Halfway
  <2>2. QED  BY <1>9, <1>11, <2>1, BreakOffEffect DEF stores
<1>12. CASE ComputeCentroid(r) \/ CacheCentroid(r)
  BY <1>1, <1>12, ComputeCentroidEffect, CacheCentroidEffect
<1>13. QED
  BY <1>4, <1>5, <1>6, <1>7, <1>8, <1>10, <1>11, <1>12 DEF RatingStep

\* The deletion tears every memory whose ratings it touches.
LEMMA MemoryOfDeletion ==
  ASSUME TypeOK, OnStores, NEW m \in Memories \ torn'.memories, m \notin torn.memories => MemoryOK(m)
  PROVE  MemoryOK(m)'
<1>1. UNCHANGED <<requests, aggregates>>
  BY DEF OnStores
<1>2. m \notin torn.memories /\ ratings'[m] = ratings[m]
  <2>1. CASE UNCHANGED <<ratings, userRatings, centroids, torn>>
    BY <2>1
  <2>2. CASE CentroidGone
    BY <2>2 DEF CentroidGone
  <2>3. ASSUME NEW n \in Memories, MemoryRatingGone(n)
        PROVE  m \notin torn.memories /\ ratings'[m] = ratings[m]
    BY <2>3 DEF MemoryRatingGone, TypeOK
  <2>4. ASSUME NEW n \in Memories, UserRatingGone(n)
        PROVE  m \notin torn.memories /\ ratings'[m] = ratings[m]
    BY <2>4 DEF UserRatingGone
  <2>5. QED  BY <2>1, <2>2, <2>3, <2>4 DEF OnStores
<1>3. QED  BY <1>1, <1>2, MemoryUntouched

LEMMA MemoriesNext ==
  ASSUME Base, MemoriesOK, [DeletionNext]_allVars
  PROVE  MemoriesOK'
<1>0. TypeOK /\ Shapes
  BY DEF Base, DeletionTypeOK
<1> SUFFICES ASSUME NEW m \in Memories \ torn'.memories PROVE MemoryOK(m)'
  BY DEF MemoriesOK
<1>1. m \notin torn.memories => MemoryOK(m)
  BY DEF MemoriesOK
<1>2. CASE Call \/ DeletionStep \/ Die
  BY <1>0, <1>1, <1>2, DeletionOnStores, MemoryOfDeletion
<1>3. ASSUME NEW r \in Requests, RatingStep(r) PROVE MemoryOK(m)'
  <2>1. m \notin torn.memories
    BY <1>0, <1>3, TornGrows
  <2>2. QED  BY <1>0, <1>1, <1>3, <2>1, MemoryOfOthers, MemoryOfWorker
<1>4. ASSUME NEW r \in Requests, NEW new \in Request, Accept(r, new),
             \/ new.kind = "recommend"
             \/ new.kind = "rate" /\ new.phase = "read" /\ new.seen = aggregates[new.memory]
             \/ /\ new.kind = "retract" /\ new.phase = "memory"
                /\ new.previous = ratings[new.memory][new.user]
      PROVE  MemoryOK(m)'
  <2>1. m \notin torn.memories
    BY <1>0, <1>4, AcceptEffect
  <2>2. QED  BY <1>0, <1>1, <1>4, <2>1, MemoryAccepts
<1>5. ASSUME NEW r \in Requests, NEW u \in Users, Recommend(r, u) PROVE MemoryOK(m)'
  BY <1>0, <1>4, <1>5, RecommendEffect
<1>6. ASSUME NEW r \in Requests, NEW u \in Users, NEW n \in Memories, NEW stars \in Stars,
             Rate(r, u, n, stars)
      PROVE  MemoryOK(m)'
  BY <1>0, <1>4, <1>6, RateEffect
<1>7. ASSUME NEW r \in Requests, NEW u \in Users, NEW n \in Memories, Retract(r, u, n)
      PROVE  MemoryOK(m)'
  BY <1>0, <1>4, <1>7, RetractEffect
<1>8. CASE UNCHANGED allVars
  BY <1>1, <1>8, MemoryUntouched DEF allVars, vars, stores
<1>9. QED  BY <1>2, <1>3, <1>5, <1>6, <1>7, <1>8, StepCases

LEMMA MemoriesInit ==
  ASSUME DeletionInit
  PROVE  MemoriesOK
<1>1. PICK rated \in SUBSET Memories, stars \in Stars :
        LET first == [m \in Memories |-> IF m \in rated THEN stars ELSE 0] IN
        /\ ratings = [m \in Memories |-> [u \in Users |-> first[m]]]
        /\ aggregates = [m \in Memories |->
             [sum |-> Cardinality(Users) * first[m],
              count |-> IF m \in rated THEN Cardinality(Users) ELSE 0]]
  BY DEF DeletionInit, Init
<1>2. requests = [r \in Requests |-> Idle]
  BY DEF DeletionInit, Init
<1> SUFFICES ASSUME NEW m \in Memories PROVE MemoryOK(m)
  BY DEF MemoriesOK
<1> DEFINE c == IF m \in rated THEN stars ELSE 0
<1>3. c \in Ratings /\ (c = 0 <=> m \notin rated)
  BY StarsAreIntegers
<1>4. /\ ratings[m] = [u \in Users |-> c]
      /\ aggregates[m].sum = Cardinality(Users) * c
      /\ aggregates[m].count = IF m \in rated THEN Cardinality(Users) ELSE 0
  BY <1>1
<1> HIDE DEF c
<1>5. /\ Total([u \in Users |-> c]) = Cardinality(Users) * c
      /\ Count([u \in Users |-> c]) = IF c = 0 THEN 0 ELSE Cardinality(Users)
  BY <1>3, RowOfOne
<1>6. Summed(m)
  BY <1>3, <1>4, <1>5 DEF Summed
<1>7. \A r \in Requests : ~ OnMemory(r, m)
  BY <1>2, IdleFields DEF OnMemory
<1>8. QED  BY <1>6, <1>7 DEF MemoryOK

\* Whatever is rated, rated again, retracted and broken off, and by however many users: the sum
\* and the count on a memory are those of the ratings stored under it, unless a request broke
\* off between writing the rating and the aggregates, two requests met on it or the deletion of
\* a user removed a rating.
THEOREM AggregatesAlwaysMatch == DeletionSpec => []AggregatesMatch
<1>1. DeletionInit => MemoriesOK
  BY MemoriesInit
<1>2. Base /\ MemoriesOK /\ [DeletionNext]_allVars => MemoriesOK'
  BY MemoriesNext
<1>3. Base /\ MemoriesOK => AggregatesMatch
  <2> SUFFICES ASSUME Base, MemoriesOK, NEW m \in Memories \ torn.memories, ~ Busy(m)
               PROVE  /\ aggregates[m].sum = MapThenSumSet(LAMBDA u : ratings[m][u], Users)
                      /\ aggregates[m].count = Cardinality({u \in Users : ratings[m][u] # 0})
    BY DEF AggregatesMatch
  <2>1. \A r \in Requests : ~ OnMemory(r, m)
    BY DEF Busy, OnMemory, Rating, Running
  <2>2. Summed(m)
    BY <2>1 DEF MemoriesOK, MemoryOK
  <2>3. QED  BY <2>2 DEF Summed, Total, Count, Sum
<1>4. QED  BY <1>1, <1>2, <1>3, BaseAlways, PTL DEF DeletionSpec

-----------------------------------------------------------------------------
(* The two documents of a rating.  On a pair that is not torn at most one  *)
(* request rates or retracts; the documents differ only while it is        *)
(* between them, and then the one under the memory is what it writes.      *)

OnPair(r, m, u) ==
  requests[r].kind \in {"rate", "retract"} /\ requests[r].memory = m /\ requests[r].user = u

PairOK(m, u) ==
  /\ \A r, p \in Requests : OnPair(r, m, u) /\ OnPair(p, m, u) => r = p
  /\ (\A r \in Requests : OnPair(r, m, u) => requests[r].phase # "user") =>
       userRatings[u][m] = ratings[m][u]
  /\ \A r \in Requests : OnPair(r, m, u) /\ requests[r].phase = "user" =>
       ratings[m][u] = requests[r].stars

PairsOK == \A m \in Memories, u \in Users : <<m, u>> \notin torn.pairs => PairOK(m, u)

LEMMA PairUntouched ==
  ASSUME NEW m \in Memories, NEW u \in Users, PairOK(m, u),
         ratings'[m][u] = ratings[m][u], userRatings'[u][m] = userRatings[u][m],
         \A p \in Requests : \/ requests'[p] = requests[p]
                             \/ ~ OnPair(p, m, u) /\ ~ OnPair(p, m, u)'
  PROVE  PairOK(m, u)'
<1>1. ASSUME NEW p \in Requests, OnPair(p, m, u)'
      PROVE  OnPair(p, m, u) /\ requests'[p] = requests[p]
  BY <1>1 DEF OnPair
<1>2. ASSUME NEW p \in Requests, OnPair(p, m, u)
      PROVE  OnPair(p, m, u)' /\ requests'[p] = requests[p]
  BY <1>2 DEF OnPair
<1>3. \A r, p \in Requests : OnPair(r, m, u)' /\ OnPair(p, m, u)' => r = p
  BY <1>1 DEF PairOK
<1>4. (\A r \in Requests : OnPair(r, m, u)' => requests'[r].phase # "user") =>
        userRatings'[u][m] = ratings'[m][u]
  BY <1>2 DEF PairOK
<1>5. \A r \in Requests : OnPair(r, m, u)' /\ requests'[r].phase = "user" =>
        ratings'[m][u] = requests'[r].stars
  BY <1>1 DEF PairOK
<1>6. QED  BY <1>3, <1>4, <1>5 DEF PairOK

LEMMA PairWorker ==
  ASSUME NEW m \in Memories, NEW u \in Users, NEW r \in Requests, NEW new, Becomes(r, new),
         \A p \in Requests \ {r} : ~ OnPair(p, m, u),
         OnPair(r, m, u)' /\ new.phase = "user" => ratings'[m][u] = new.stars,
         ~ (OnPair(r, m, u)' /\ new.phase = "user") => userRatings'[u][m] = ratings'[m][u]
  PROVE  PairOK(m, u)'
<1>1. \A p \in Requests \ {r} : ~ OnPair(p, m, u)'
  BY DEF OnPair, Becomes
<1>2. requests'[r] = new
  BY DEF Becomes
<1>3. QED  BY <1>1, <1>2 DEF PairOK

LEMMA PairAccepts ==
  ASSUME TypeOK, Shapes, NEW m \in Memories, NEW u \in Users, <<m, u>> \notin torn'.pairs,
         PairOK(m, u), NEW r \in Requests, NEW new \in Request, Accept(r, new),
         new.kind \in {"rate", "retract", "recommend"}, new.phase # "user"
  PROVE  PairOK(m, u)'
<1>1. /\ requests[r].kind = "none" /\ Becomes(r, new) /\ UNCHANGED <<ratings, userRatings>>
      /\ new.kind # "recommend" =>
           \A p \in Rating : requests[p].memory = new.memory /\ requests[p].user = new.user =>
             <<new.memory, new.user>> \in torn'.pairs
  BY AcceptEffect DEF stores
<1>2. ~ OnPair(r, m, u) /\ requests'[r] = new /\ \A p \in Requests \ {r} : requests'[p] = requests[p]
  BY <1>1 DEF OnPair, Becomes
<1>3. CASE new.kind = "recommend" \/ new.memory # m \/ new.user # u
  <2>1. ~ OnPair(r, m, u)'
    BY <1>2, <1>3 DEF OnPair
  <2>2. QED  BY <1>1, <1>2, <2>1, PairUntouched
<1>4. CASE new.kind # "recommend" /\ new.memory = m /\ new.user = u
  <2>1. \A p \in Requests : ~ OnPair(p, m, u)
    BY <1>1, <1>2, <1>4 DEF OnPair, Rating, Running
  <2>2. userRatings[u][m] = ratings[m][u]
    BY <2>1 DEF PairOK
  <2>3. QED  BY <1>1, <2>1, <2>2, PairWorker
<1>5. QED  BY <1>3, <1>4

\* A step of a request that runs.
LEMMA PairSteps ==
  ASSUME TypeOK, Shapes, NEW m \in Memories, NEW u \in Users, <<m, u>> \notin torn'.pairs,
         PairOK(m, u), NEW r \in Requests, RatingStep(r)
  PROVE  PairOK(m, u)'
<1> DEFINE q == requests[r]
           new == requests'[r]
<1>1. /\ ratings \in [Memories -> [Users -> Ratings]]
      /\ userRatings \in [Users -> [Memories -> Ratings]]
      /\ q \in Request /\ q.memory \in Memories /\ q.user \in Users
  BY DEF TypeOK, Request
\* No document is written, and the request is not between the two.
<1>2. ASSUME NEW n, Becomes(r, n), n = Idle \/ SameWork(q, n), q.phase # "user", n.phase # "user",
             UNCHANGED <<ratings, userRatings>>
      PROVE  PairOK(m, u)'
  <2>1. CASE OnPair(r, m, u)
    <3>1. \A p \in Requests \ {r} : ~ OnPair(p, m, u)
      BY <2>1 DEF PairOK
    <3>2. userRatings[u][m] = ratings[m][u]
      BY <1>2, <2>1, <3>1 DEF PairOK
    <3>3. QED  BY <1>2, <3>1, <3>2, PairWorker
  <2>2. CASE ~ OnPair(r, m, u)
    <3>1. ~ OnPair(r, m, u)'
      BY <1>2, <2>2, IdleFields DEF OnPair, Becomes, SameWork
    <3>2. QED  BY <1>2, <2>2, <3>1, PairUntouched DEF Becomes
  <2>3. QED  BY <2>1, <2>2
<1>3. CASE ReadRating(r)
  BY <1>2, <1>3, ReadRatingEffect DEF stores
<1>4. CASE WriteMemoryRating(r)
  <2>1. /\ q.kind \in {"rate", "retract"} /\ q.phase = "memory" /\ new.phase = "user"
        /\ Becomes(r, new) /\ SameWork(q, new)
        /\ ratings' = [ratings EXCEPT ![q.memory] = [@ EXCEPT ![q.user] = q.stars]]
        /\ UNCHANGED userRatings
    BY <1>4, WriteMemoryRatingEffect
  <2>2. CASE q.memory = m /\ q.user = u
    <3>1. ratings'[m][u] = q.stars
      BY <1>1, <2>1, <2>2
    <3>2. OnPair(r, m, u) /\ OnPair(r, m, u)'
      BY <2>1, <2>2 DEF OnPair, SameWork
    <3>3. \A p \in Requests \ {r} : ~ OnPair(p, m, u)
      BY <3>2 DEF PairOK
    <3>4. QED  BY <2>1, <3>1, <3>2, <3>3, PairWorker DEF SameWork
  <2>3. CASE ~ (q.memory = m /\ q.user = u)
    <3>1. ratings'[m][u] = ratings[m][u]
      BY <1>1, <2>1, <2>3
    <3>2. ~ OnPair(r, m, u) /\ ~ OnPair(r, m, u)'
      BY <2>1, <2>3 DEF OnPair, SameWork
    <3>3. QED  BY <2>1, <3>1, <3>2, PairUntouched DEF Becomes
  <2>4. QED  BY <2>2, <2>3
<1>5. CASE WriteUserRating(r)
  <2>1. /\ q.kind \in {"rate", "retract"} /\ q.phase = "user" /\ new.phase # "user"
        /\ Becomes(r, new) /\ SameWork(q, new)
        /\ userRatings' = [userRatings EXCEPT ![q.user] = [@ EXCEPT ![q.memory] = q.stars]]
        /\ UNCHANGED ratings
    BY <1>5, WriteUserRatingEffect
  <2>2. CASE q.memory = m /\ q.user = u
    <3>1. userRatings'[u][m] = q.stars
      BY <1>1, <2>1, <2>2
    <3>2. OnPair(r, m, u)
      BY <2>1, <2>2 DEF OnPair
    <3>3. ratings[m][u] = q.stars /\ \A p \in Requests \ {r} : ~ OnPair(p, m, u)
      BY <2>1, <3>2 DEF PairOK
    <3>4. QED  BY <2>1, <3>1, <3>3, PairWorker
  <2>3. CASE ~ (q.memory = m /\ q.user = u)
    <3>1. userRatings'[u][m] = userRatings[u][m]
      BY <1>1, <2>1, <2>3
    <3>2. ~ OnPair(r, m, u) /\ ~ OnPair(r, m, u)'
      BY <2>1, <2>3 DEF OnPair, SameWork
    <3>3. QED  BY <2>1, <3>1, <3>2, PairUntouched DEF Becomes
  <2>4. QED  BY <2>2, <2>3
<1>6. CASE WriteAggregates(r)
  BY <1>2, <1>6, WriteAggregatesEffect, IdleFields
<1>7. CASE InvalidateCentroid(r)
  BY <1>2, <1>7, InvalidateCentroidEffect, IdleFields
<1>8. CASE FetchAggregates(r)
  BY <1>2, <1>8, FetchAggregatesEffect DEF stores
<1>9. CASE ComputeCentroid(r)
  BY <1>2, <1>9, ComputeCentroidEffect, IdleFields DEF stores
<1>10. CASE CacheCentroid(r)
  BY <1>2, <1>10, CacheCentroidEffect, IdleFields
<1>11. CASE BreakOff(r)
  <2>1. /\ q.kind # "none" /\ Becomes(r, Idle) /\ UNCHANGED <<ratings, userRatings>>
        /\ q.phase = "user" => <<q.memory, q.user>> \in torn'.pairs
    BY <1>11, BreakOffEffect DEF stores
  <2>2. CASE q.phase # "user"
    BY <1>2, <2>1, <2>2, IdleFields
  <2>3. CASE q.phase = "user"
    <3>1. ~ OnPair(r, m, u) /\ ~ OnPair(r, m, u)'
      BY <2>1, <2>3, IdleFields DEF OnPair, Becomes
    <3>2. QED  BY <2>1, <3>1, PairUntouched DEF Becomes
  <2>4. QED  BY <2>2, <2>3
<1>12. QED
  BY <1>3, <1>4, <1>5, <1>6, <1>7, <1>8, <1>9, <1>10, <1>11 DEF RatingStep

LEMMA PairOfDeletion ==
  ASSUME TypeOK, OnStores, NEW m \in Memories, NEW u \in Users, <<m, u>> \notin torn'.pairs,
         <<m, u>> \notin torn.pairs => PairOK(m, u)
  PROVE  PairOK(m, u)'
<1>1. /\ UNCHANGED requests /\ Leaver \in Users
      /\ ratings \in [Memories -> [Users -> Ratings]]
      /\ userRatings \in [Users -> [Memories -> Ratings]]
  BY DeletionAssumption DEF OnStores, TypeOK
<1>2. ASSUME <<m, u>> \notin torn.pairs, ratings'[m][u] = ratings[m][u],
             userRatings'[u][m] = userRatings[u][m]
      PROVE  PairOK(m, u)'
  BY <1>1, <1>2, PairUntouched
<1>3. CASE UNCHANGED <<ratings, userRatings, centroids, torn>>
  BY <1>2, <1>3
<1>4. CASE CentroidGone
  BY <1>2, <1>4 DEF CentroidGone
<1>5. ASSUME NEW n \in Memories, MemoryRatingGone(n) PROVE PairOK(m, u)'
  <2>1. <<m, u>> \notin torn.pairs /\ ~ (m = n /\ u = Leaver)
    BY <1>5 DEF MemoryRatingGone
  <2>2. ratings'[m][u] = ratings[m][u] /\ userRatings'[u][m] = userRatings[u][m]
    BY <1>1, <1>5, <2>1 DEF MemoryRatingGone
  <2>3. QED  BY <1>2, <2>1, <2>2
<1>6. ASSUME NEW n \in Memories, UserRatingGone(n) PROVE PairOK(m, u)'
  <2>1. CASE m = n /\ u = Leaver
    <3>1. ratings[m][u] = 0 /\ ~ BusyPair(m, u) /\ UNCHANGED ratings
      BY <1>6, <2>1 DEF UserRatingGone
    <3>2. userRatings'[u][m] = 0
      BY <1>1, <1>6, <2>1 DEF UserRatingGone
    <3>3. \A p \in Requests : ~ OnPair(p, m, u)'
      BY <1>1, <3>1 DEF BusyPair, OnPair, Rating, Running
    <3>4. QED  BY <3>1, <3>2, <3>3 DEF PairOK
  <2>2. CASE ~ (m = n /\ u = Leaver)
    <3>1. <<m, u>> \notin torn.pairs
      BY <1>6, <2>2 DEF UserRatingGone
    <3>2. ratings'[m][u] = ratings[m][u] /\ userRatings'[u][m] = userRatings[u][m]
      BY <1>1, <1>6, <2>2 DEF UserRatingGone
    <3>3. QED  BY <1>2, <3>1, <3>2
  <2>3. QED  BY <2>1, <2>2
<1>7. QED  BY <1>3, <1>4, <1>5, <1>6 DEF OnStores

LEMMA PairsNext ==
  ASSUME Base, PairsOK, [DeletionNext]_allVars
  PROVE  PairsOK'
<1>0. TypeOK /\ Shapes
  BY DEF Base, DeletionTypeOK
<1> SUFFICES ASSUME NEW m \in Memories, NEW u \in Users, <<m, u>> \notin torn'.pairs
             PROVE  PairOK(m, u)'
  BY DEF PairsOK
<1>1. <<m, u>> \notin torn.pairs => PairOK(m, u)
  BY DEF PairsOK
<1>2. CASE Call \/ DeletionStep \/ Die
  BY <1>0, <1>1, <1>2, DeletionOnStores, PairOfDeletion
<1>3. ASSUME NEW r \in Requests, RatingStep(r) PROVE PairOK(m, u)'
  <2>1. <<m, u>> \notin torn.pairs
    BY <1>0, <1>3, TornGrows
  <2>2. QED  BY <1>0, <1>1, <1>3, <2>1, PairSteps
<1>4. ASSUME NEW r \in Requests, NEW new \in Request, Accept(r, new),
             new.kind \in {"rate", "retract", "recommend"}, new.phase # "user"
      PROVE  PairOK(m, u)'
  <2>1. <<m, u>> \notin torn.pairs
    BY <1>0, <1>4, AcceptEffect
  <2>2. QED  BY <1>0, <1>1, <1>4, <2>1, PairAccepts
<1>5. ASSUME NEW r \in Requests, NEW v \in Users, Recommend(r, v) PROVE PairOK(m, u)'
  BY <1>0, <1>4, <1>5, RecommendEffect
<1>6. ASSUME NEW r \in Requests, NEW v \in Users, NEW n \in Memories, NEW stars \in Stars,
             Rate(r, v, n, stars)
      PROVE  PairOK(m, u)'
  BY <1>0, <1>4, <1>6, RateEffect
<1>7. ASSUME NEW r \in Requests, NEW v \in Users, NEW n \in Memories, Retract(r, v, n)
      PROVE  PairOK(m, u)'
  BY <1>0, <1>4, <1>7, RetractEffect
<1>8. CASE UNCHANGED allVars
  BY <1>1, <1>8, PairUntouched DEF allVars, vars, stores
<1>9. QED  BY <1>2, <1>3, <1>5, <1>6, <1>7, <1>8, StepCases

LEMMA PairsInit ==
  ASSUME DeletionInit
  PROVE  PairsOK
<1>1. PICK rated \in SUBSET Memories, stars \in Stars :
        LET first == [m \in Memories |-> IF m \in rated THEN stars ELSE 0] IN
        /\ ratings = [m \in Memories |-> [u \in Users |-> first[m]]]
        /\ userRatings = [u \in Users |-> first]
  BY DEF DeletionInit, Init
<1>2. requests = [r \in Requests |-> Idle]
  BY DEF DeletionInit, Init
<1> SUFFICES ASSUME NEW m \in Memories, NEW u \in Users PROVE PairOK(m, u)
  BY DEF PairsOK
<1>3. userRatings[u][m] = ratings[m][u]
  BY <1>1
<1>4. \A r \in Requests : ~ OnPair(r, m, u)
  BY <1>2, IdleFields DEF OnPair
<1>5. QED  BY <1>3, <1>4 DEF PairOK

\* The document of a rating under the memory and the one under the user agree whenever no
\* request of this user for this memory is at work, none of them broke off between the two and
\* no two of them met; whatever other users do, and through the deletion of a user's account.
THEOREM IndexesAlwaysAgree == DeletionSpec => []IndexesAgree
<1>1. DeletionInit => PairsOK
  BY PairsInit
<1>2. Base /\ PairsOK /\ [DeletionNext]_allVars => PairsOK'
  BY PairsNext
<1>3. PairsOK => IndexesAgree
  <2> SUFFICES ASSUME PairsOK, NEW m \in Memories, NEW u \in Users, <<m, u>> \notin torn.pairs,
                      ~ BusyPair(m, u)
               PROVE  userRatings[u][m] = ratings[m][u]
    BY DEF IndexesAgree
  <2>1. \A r \in Requests : ~ OnPair(r, m, u)
    BY DEF BusyPair, OnPair, Rating, Running
  <2>2. QED  BY <2>1 DEF PairsOK, PairOK
<1>4. QED  BY <1>1, <1>2, <1>3, BaseAlways, PTL DEF DeletionSpec

-----------------------------------------------------------------------------
(* The centroids.  Of a user that is not torn at most one request runs; a  *)
(* cached centroid knows all that the user rates high unless that request  *)
(* has written a high rating and is about to invalidate it, and a          *)
(* recommendation about to cache one has taken notice of them all.         *)

OnUser(r, u) == requests[r].kind # "none" /\ requests[r].user = u

Raising(q) == q.kind = "rate" /\ q.phase \in {"aggregate", "invalidate"} /\ High(q.stars)

CentroidOK(u) ==
  /\ \A r, p \in Requests : OnUser(r, u) /\ OnUser(p, u) => r = p
  /\ (centroids[u].cached /\ \A r \in Requests : OnUser(r, u) => ~ Raising(requests[r])) =>
       Highs(u) \subseteq Known(centroids[u])
  /\ \A r \in Requests : OnUser(r, u) /\ requests[r].phase = "cache" =>
       Highs(u) \subseteq Known(requests[r])

CentroidsOK == \A u \in Users \ torn.users : CentroidOK(u)

LEMMA CentroidUntouched ==
  ASSUME NEW u \in Users, CentroidOK(u),
         Highs(u)' \subseteq Highs(u),
         centroids'[u] = centroids[u] \/ ~ centroids'[u].cached,
         \A p \in Requests : \/ requests'[p] = requests[p]
                             \/ ~ OnUser(p, u) /\ ~ OnUser(p, u)'
  PROVE  CentroidOK(u)'
<1>1. ASSUME NEW p \in Requests, OnUser(p, u)'
      PROVE  OnUser(p, u) /\ requests'[p] = requests[p]
  BY <1>1 DEF OnUser
<1>2. ASSUME NEW p \in Requests, OnUser(p, u)
      PROVE  OnUser(p, u)' /\ requests'[p] = requests[p]
  BY <1>2 DEF OnUser
<1>3. \A r, p \in Requests : OnUser(r, u)' /\ OnUser(p, u)' => r = p
  BY <1>1 DEF CentroidOK
<1>4. (centroids'[u].cached /\ \A r \in Requests : OnUser(r, u)' => ~ Raising(requests'[r])) =>
        Highs(u)' \subseteq Known(centroids'[u])
  BY <1>2 DEF CentroidOK
<1>5. \A r \in Requests : OnUser(r, u)' /\ requests'[r].phase = "cache" =>
        Highs(u)' \subseteq Known(requests'[r])
  BY <1>1 DEF CentroidOK
<1>6. QED  BY <1>3, <1>4, <1>5 DEF CentroidOK, Raising

LEMMA CentroidWorker ==
  ASSUME NEW u \in Users, NEW r \in Requests, NEW new, Becomes(r, new),
         \A p \in Requests \ {r} : ~ OnUser(p, u),
         (centroids'[u].cached /\ ~ (OnUser(r, u)' /\ Raising(new))) =>
           Highs(u)' \subseteq Known(centroids'[u]),
         OnUser(r, u)' /\ new.phase = "cache" => Highs(u)' \subseteq Known(new)
  PROVE  CentroidOK(u)'
<1>1. \A p \in Requests \ {r} : ~ OnUser(p, u)'
  BY DEF OnUser, Becomes
<1>2. requests'[r] = new
  BY DEF Becomes
<1>3. (centroids'[u].cached /\ \A p \in Requests : OnUser(p, u)' => ~ Raising(requests'[p])) =>
        Highs(u)' \subseteq Known(centroids'[u])
  BY <1>2
<1>4. \A p \in Requests : OnUser(p, u)' /\ requests'[p].phase = "cache" =>
        Highs(u)' \subseteq Known(requests'[p])
  BY <1>1, <1>2
<1>5. QED  BY <1>1, <1>3, <1>4 DEF CentroidOK, Raising

LEMMA CentroidAccepts ==
  ASSUME TypeOK, Shapes, NEW u \in Users \ torn'.users, CentroidOK(u),
         NEW r \in Requests, NEW new \in Request, Accept(r, new),
         new.kind \in {"rate", "retract", "recommend"},
         new.phase \notin {"aggregate", "invalidate", "cache"}
  PROVE  CentroidOK(u)'
<1>1. /\ requests[r].kind = "none" /\ Becomes(r, new) /\ UNCHANGED <<userRatings, centroids>>
      /\ \A p \in Running : requests[p].user = new.user => new.user \in torn'.users
  BY AcceptEffect DEF stores
<1>2. /\ ~ OnUser(r, u) /\ requests'[r] = new
      /\ \A p \in Requests \ {r} : requests'[p] = requests[p]
      /\ Highs(u)' = Highs(u)
  BY <1>1 DEF OnUser, Becomes, Highs
<1>3. CASE new.user # u
  <2>1. ~ OnUser(r, u)'
    BY <1>2, <1>3 DEF OnUser
  <2>2. QED  BY <1>1, <1>2, <2>1, CentroidUntouched
<1>4. CASE new.user = u
  <2>1. \A p \in Requests : ~ OnUser(p, u)
    BY <1>1, <1>2, <1>4 DEF OnUser, Running
  <2>2. centroids[u].cached => Highs(u) \subseteq Known(centroids[u])
    BY <2>1 DEF CentroidOK
  <2>3. QED  BY <1>1, <1>2, <2>1, <2>2, CentroidWorker
<1>5. QED  BY <1>3, <1>4

LEMMA HighStars == ~ High(0) /\ \A s \in Ratings : High(s) \in BOOLEAN
  BY DEF High

LEMMA CentroidSteps ==
  ASSUME TypeOK, Shapes, NEW u \in Users \ torn'.users, CentroidOK(u),
         NEW r \in Requests, RatingStep(r)
  PROVE  CentroidOK(u)'
<1> DEFINE q == requests[r]
           new == requests'[r]
<1>1. /\ userRatings \in [Users -> [Memories -> Ratings]] /\ centroids \in [Users -> Centroid]
      /\ q \in Request /\ q.memory \in Memories /\ q.user \in Users /\ Shape(q)
  BY DEF TypeOK, Request, Shapes
<1>2. UNCHANGED userRatings => Highs(u)' = Highs(u)
  BY DEF Highs
<1>3. OnUser(r, u) => \A p \in Requests \ {r} : ~ OnUser(p, u)
  BY DEF CentroidOK
<1>4. OnUser(r, u) /\ ~ Raising(q) /\ centroids[u].cached => Highs(u) \subseteq Known(centroids[u])
  BY <1>3 DEF CentroidOK
\* Nothing is written that concerns the user, and the request is not about to invalidate.
<1>5. ASSUME NEW n, Becomes(r, n), n = Idle \/ SameWork(q, n), ~ Raising(q), n.phase # "cache",
             UNCHANGED <<userRatings, centroids>>
      PROVE  CentroidOK(u)'
  <2>1. CASE OnUser(r, u)
    BY <1>2, <1>3, <1>4, <1>5, <2>1, CentroidWorker
  <2>2. CASE ~ OnUser(r, u)
    <3>1. ~ OnUser(r, u)' \/ q.kind = "none"
      BY <1>5, <2>2, IdleFields DEF OnUser, Becomes, SameWork
    <3>2. ~ OnUser(r, u)'
      BY <1>5, <2>2, <3>1, IdleFields DEF OnUser, Becomes, SameWork
    <3>3. QED  BY <1>2, <1>5, <2>2, <3>2, CentroidUntouched DEF Becomes
  <2>3. QED  BY <2>1, <2>2
<1>6. CASE ReadRating(r)
  BY <1>5, <1>6, ReadRatingEffect DEF stores, Raising
<1>7. CASE WriteMemoryRating(r)
  BY <1>5, <1>7, WriteMemoryRatingEffect DEF Raising
<1>8. CASE WriteUserRating(r)
  <2>1. /\ q.kind \in {"rate", "retract"} /\ q.phase = "user"
        /\ new.phase = (IF q.kind = "rate" THEN "aggregate" ELSE "fetch")
        /\ Becomes(r, new) /\ SameWork(q, new)
        /\ userRatings' = [userRatings EXCEPT ![q.user] = [@ EXCEPT ![q.memory] = q.stars]]
        /\ UNCHANGED centroids
    BY <1>8, WriteUserRatingEffect
  <2>2. CASE q.user # u
    <3>1. Highs(u)' = Highs(u)
      BY <1>1, <2>1, <2>2 DEF Highs
    <3>2. ~ OnUser(r, u) /\ ~ OnUser(r, u)'
      BY <2>1, <2>2 DEF OnUser, SameWork
    <3>3. QED  BY <2>1, <3>1, <3>2, CentroidUntouched DEF Becomes
  <2>3. CASE q.user = u
    <3>1. OnUser(r, u) /\ OnUser(r, u)' /\ ~ Raising(q)
      BY <2>1, <2>3 DEF OnUser, SameWork, Raising
    <3>2. ~ High(q.stars) => Highs(u)' \subseteq Highs(u)
      <4>1. \A m \in Memories : userRatings'[u][m] = IF m = q.memory THEN q.stars
                                                     ELSE userRatings[u][m]
        BY <1>1, <2>1, <2>3
      <4>2. QED  BY <4>1 DEF Highs
    <3>3. ~ Raising(new) => ~ High(q.stars)
      BY <1>1, <2>1, HighStars DEF Raising, SameWork, Shape
    <3>4. (centroids'[u].cached /\ ~ (OnUser(r, u)' /\ Raising(new))) =>
            Highs(u)' \subseteq Known(centroids'[u])
      BY <1>4, <2>1, <3>1, <3>2, <3>3
    <3>5. new.phase # "cache"
      BY <2>1
    <3>6. QED  BY <1>3, <2>1, <3>1, <3>4, <3>5, CentroidWorker
  <2>4. QED  BY <2>2, <2>3
<1>9. CASE WriteAggregates(r)
  <2>1. /\ q.kind \in {"rate", "retract"} /\ q.phase = "aggregate" /\ Becomes(r, new)
        /\ \/ q.kind = "rate" /\ High(q.stars) /\ new.phase = "invalidate" /\ SameWork(q, new)
           \/ ~ (q.kind = "rate" /\ High(q.stars)) /\ new = Idle
        /\ UNCHANGED <<userRatings, centroids>>
    BY <1>9, WriteAggregatesEffect
  <2>2. CASE Raising(q)
    <3>1. new.phase = "invalidate" /\ SameWork(q, new) /\ Raising(new)
      BY <2>1, <2>2 DEF Raising, SameWork
    <3>2. CASE OnUser(r, u)
      <4>1. OnUser(r, u)'
        BY <3>1, <3>2 DEF OnUser, SameWork
      <4>2. QED  BY <1>3, <2>1, <3>1, <3>2, <4>1, CentroidWorker
    <3>3. CASE ~ OnUser(r, u)
      <4>1. ~ OnUser(r, u)'
        BY <3>1, <3>3 DEF OnUser, SameWork
      <4>2. QED  BY <1>2, <2>1, <3>3, <4>1, CentroidUntouched DEF Becomes
    <3>4. QED  BY <3>2, <3>3
  <2>3. CASE ~ Raising(q)
    BY <1>5, <2>1, <2>3, IdleFields DEF Raising
  <2>4. QED  BY <2>2, <2>3
<1>10. CASE InvalidateCentroid(r)
  <2>1. /\ q.kind = "rate" /\ Becomes(r, Idle)
        /\ centroids' = [centroids EXCEPT ![q.user] = NoCentroid]
        /\ UNCHANGED userRatings
    BY <1>10, InvalidateCentroidEffect
  <2>2. CASE q.user = u
    <3>1. OnUser(r, u) /\ ~ centroids'[u].cached
      BY <1>1, <2>1, <2>2 DEF OnUser, NoCentroid
    <3>2. QED  BY <1>3, <2>1, <3>1, IdleFields, CentroidWorker
  <2>3. CASE q.user # u
    <3>1. ~ OnUser(r, u) /\ ~ OnUser(r, u)'
      BY <2>1, <2>3, IdleFields DEF OnUser, Becomes
    <3>2. centroids'[u] = centroids[u]
      BY <1>1, <2>1, <2>3
    <3>3. QED  BY <1>2, <2>1, <3>1, <3>2, CentroidUntouched DEF Becomes
  <2>4. QED  BY <2>2, <2>3
<1>11. CASE FetchAggregates(r)
  BY <1>5, <1>11, FetchAggregatesEffect DEF stores, Raising
<1>12. CASE ComputeCentroid(r)
  <2>1. /\ q.kind = "recommend" /\ Becomes(r, new) /\ UNCHANGED <<userRatings, centroids>>
        /\ new = Idle \/ (new.phase = "cache" /\ SameWork(q, new) /\ Highs(q.user) \subseteq Known(new))
    BY <1>12, ComputeCentroidEffect DEF stores
  <2>2. CASE new = Idle
    BY <1>5, <2>1, <2>2, IdleFields DEF Raising
  <2>3. CASE new.phase = "cache" /\ SameWork(q, new) /\ Highs(q.user) \subseteq Known(new)
    <3>1. CASE q.user = u
      <4>1. OnUser(r, u) /\ ~ Raising(q)
        BY <2>1, <3>1 DEF OnUser, Raising
      <4>2. QED  BY <1>2, <1>3, <1>4, <2>1, <2>3, <3>1, <4>1, CentroidWorker
    <3>2. CASE q.user # u
      <4>1. ~ OnUser(r, u) /\ ~ OnUser(r, u)'
        BY <2>3, <3>2 DEF OnUser, SameWork
      <4>2. QED  BY <1>2, <2>1, <4>1, CentroidUntouched DEF Becomes
    <3>3. QED  BY <3>1, <3>2
  <2>4. QED  BY <2>1, <2>2, <2>3
<1>13. CASE CacheCentroid(r)
  <2>1. /\ q.kind = "recommend" /\ q.phase = "cache" /\ Becomes(r, Idle)
        /\ centroids' = [centroids EXCEPT ![q.user] = [cached |-> TRUE, highs |-> q.highs, missed |-> q.missed]]
        /\ UNCHANGED userRatings
    BY <1>13, CacheCentroidEffect
  <2>2. CASE q.user = u
    <3>1. OnUser(r, u) /\ Known(centroids'[u]) = Known(q)
      BY <1>1, <2>1, <2>2 DEF OnUser, Known
    <3>2. Highs(u) \subseteq Known(q)
      BY <2>1, <3>1 DEF CentroidOK
    <3>3. QED  BY <1>2, <1>3, <2>1, <3>1, <3>2, IdleFields, CentroidWorker
  <2>3. CASE q.user # u
    <3>1. ~ OnUser(r, u) /\ ~ OnUser(r, u)'
      BY <2>1, <2>3, IdleFields DEF OnUser, Becomes
    <3>2. centroids'[u] = centroids[u]
      BY <1>1, <2>1, <2>3
    <3>3. QED  BY <1>2, <2>1, <3>1, <3>2, CentroidUntouched DEF Becomes
  <2>4. QED  BY <2>2, <2>3
<1>14. CASE BreakOff(r)
  <2>1. /\ q.kind # "none" /\ Becomes(r, Idle) /\ UNCHANGED <<userRatings, centroids>>
        /\ q.phase \in {"aggregate", "invalidate"} => q.user \in torn'.users
    BY <1>14, BreakOffEffect DEF stores
  <2>2. CASE ~ Raising(q)
    BY <1>5, <2>1, <2>2, IdleFields
  <2>3. CASE Raising(q)
    <3>1. ~ OnUser(r, u) /\ ~ OnUser(r, u)'
      BY <2>1, <2>3, IdleFields DEF OnUser, Becomes, Raising
    <3>2. QED  BY <1>2, <2>1, <3>1, CentroidUntouched DEF Becomes
  <2>4. QED  BY <2>2, <2>3
<1>15. QED
  BY <1>6, <1>7, <1>8, <1>9, <1>10, <1>11, <1>12, <1>13, <1>14 DEF RatingStep

\* The deletion lowers ratings and drops a centroid; neither makes one miss a high rating.
LEMMA CentroidOfDeletion ==
  ASSUME TypeOK, OnStores, NEW u \in Users \ torn'.users, u \notin torn.users => CentroidOK(u)
  PROVE  CentroidOK(u)'
<1>1. /\ UNCHANGED requests /\ Leaver \in Users
      /\ userRatings \in [Users -> [Memories -> Ratings]] /\ centroids \in [Users -> Centroid]
  BY DeletionAssumption DEF OnStores, TypeOK
<1>2. UNCHANGED userRatings => Highs(u)' = Highs(u)
  BY DEF Highs
<1>3. CASE UNCHANGED <<ratings, userRatings, centroids, torn>>
  BY <1>1, <1>2, <1>3, CentroidUntouched
<1>4. CASE CentroidGone
  <2>1. centroids'[u] = centroids[u] \/ ~ centroids'[u].cached
    BY <1>1, <1>4 DEF CentroidGone, NoCentroid
  <2>2. QED  BY <1>1, <1>2, <1>4, <2>1, CentroidUntouched DEF CentroidGone
<1>5. ASSUME NEW n \in Memories, MemoryRatingGone(n) PROVE CentroidOK(u)'
  BY <1>1, <1>2, <1>5, CentroidUntouched DEF MemoryRatingGone
<1>6. ASSUME NEW n \in Memories, UserRatingGone(n) PROVE CentroidOK(u)'
  <2>1. \A m \in Memories : userRatings'[u][m] = userRatings[u][m] \/ userRatings'[u][m] = 0
    BY <1>1, <1>6 DEF UserRatingGone
  <2>2. Highs(u)' \subseteq Highs(u)
    BY <2>1, HighStars DEF Highs
  <2>3. QED  BY <1>1, <1>6, <2>2, CentroidUntouched DEF UserRatingGone
<1>7. QED  BY <1>3, <1>4, <1>5, <1>6 DEF OnStores

LEMMA CentroidsNext ==
  ASSUME Base, CentroidsOK, [DeletionNext]_allVars
  PROVE  CentroidsOK'
<1>0. TypeOK /\ Shapes
  BY DEF Base, DeletionTypeOK
<1> SUFFICES ASSUME NEW u \in Users \ torn'.users PROVE CentroidOK(u)'
  BY DEF CentroidsOK
<1>1. u \notin torn.users => CentroidOK(u)
  BY DEF CentroidsOK
<1>2. CASE Call \/ DeletionStep \/ Die
  BY <1>0, <1>1, <1>2, DeletionOnStores, CentroidOfDeletion
<1>3. ASSUME NEW r \in Requests, RatingStep(r) PROVE CentroidOK(u)'
  <2>1. u \notin torn.users
    BY <1>0, <1>3, TornGrows
  <2>2. QED  BY <1>0, <1>1, <1>3, <2>1, CentroidSteps
<1>4. ASSUME NEW r \in Requests, NEW new \in Request, Accept(r, new),
             new.kind \in {"rate", "retract", "recommend"},
             new.phase \notin {"aggregate", "invalidate", "cache"}
      PROVE  CentroidOK(u)'
  <2>1. u \notin torn.users
    BY <1>0, <1>4, AcceptEffect
  <2>2. QED  BY <1>0, <1>1, <1>4, <2>1, CentroidAccepts
<1>5. ASSUME NEW r \in Requests, NEW v \in Users, Recommend(r, v) PROVE CentroidOK(u)'
  BY <1>0, <1>4, <1>5, RecommendEffect
<1>6. ASSUME NEW r \in Requests, NEW v \in Users, NEW n \in Memories, NEW stars \in Stars,
             Rate(r, v, n, stars)
      PROVE  CentroidOK(u)'
  BY <1>0, <1>4, <1>6, RateEffect
<1>7. ASSUME NEW r \in Requests, NEW v \in Users, NEW n \in Memories, Retract(r, v, n)
      PROVE  CentroidOK(u)'
  BY <1>0, <1>4, <1>7, RetractEffect
<1>8. CASE UNCHANGED allVars
  <2>1. Highs(u)' = Highs(u)
    BY <1>8 DEF allVars, vars, stores, Highs
  <2>2. QED  BY <1>1, <1>8, <2>1, CentroidUntouched DEF allVars, vars, stores
<1>9. QED  BY <1>2, <1>3, <1>5, <1>6, <1>7, <1>8, StepCases

\* A cached centroid knows every memory its user rates high, as one it is made of or one its own
\* computation missed, whenever no request of theirs is at work, met another or broke off before
\* invalidating: of what one request at a time writes, whatever its computation could not
\* fetch, whatever other users do and however their account is deleted, nothing stales it.
THEOREM CentroidsAlwaysKnowHighs == DeletionSpec => []CentroidKnowsHighs
<1>1. DeletionInit => CentroidsOK
  BY IdleFields DEF DeletionInit, Init, CentroidsOK, CentroidOK, OnUser, NoCentroid
<1>2. Base /\ CentroidsOK /\ [DeletionNext]_allVars => CentroidsOK'
  BY CentroidsNext
<1>3. CentroidsOK => CentroidKnowsHighs
  <2> SUFFICES ASSUME CentroidsOK, NEW u \in Users \ torn.users, centroids[u].cached, ~ BusyUser(u)
               PROVE  Highs(u) \subseteq Known(centroids[u])
    BY DEF CentroidKnowsHighs, Known
  <2>1. \A r \in Requests : ~ OnUser(r, u)
    BY DEF BusyUser, OnUser, Running
  <2>2. QED  BY <2>1 DEF CentroidsOK, CentroidOK
<1>4. QED  BY <1>1, <1>2, <1>3, BaseAlways, PTL DEF DeletionSpec

-----------------------------------------------------------------------------
(* What the deletion reports.  A deletion that has noted no error and      *)
(* began when no request of the leaver ran has nothing left to find of     *)
(* what the steps behind it deleted, and of what the step it is at deletes *)
(* only what it still has to do.                                           *)

AfterCollections == {"documents", "query", "memory", "user", "centroid", "registry", "index",
                     "permissions", "done"}
AfterDocuments == AfterCollections \ {"documents"}
AfterRatings == {"centroid", "registry", "index", "permissions", "done"}
AfterCentroid == AfterRatings \ {"centroid"}

\* The leaver has no request at work, unless one ran when the deletion was called.
Silent ==
  /\ deletion.step # "none" => deletion.calls > 0
  /\ deletion.calls > 0 /\ deletion.alone => \A r \in Requests : ~ OnUser(r, Leaver)

OwnedGone ==
  /\ deletion.step \in {"collections", "unregister"} => collections \cap UserOwned \subseteq deletion.todo
  /\ deletion.step \in AfterCollections => collections \cap UserOwned = {}
  /\ On("documents") => documents \cap Paths \subseteq deletion.todo \cup {Permissions}
  /\ deletion.step \in AfterDocuments => documents \cap Paths \subseteq {Permissions}
  /\ On("done") => documents \cap Paths = {}
  /\ deletion.step \in {"index", "permissions", "done"} => registry = {}
  /\ On("index") => \A m \in index : CollectionOf[m] \in UserOwned => m \in deletion.todo
  /\ deletion.step \in {"permissions", "done"} => \A m \in index : CollectionOf[m] \notin UserOwned

Listed(m) == userRatings[Leaver][m] # 0

RatingsGone ==
  /\ On("memory") => \A m \in Memories : Listed(m) => m \in deletion.todo
  /\ On("user") => \A m \in Memories : Listed(m) => m \in deletion.todo \cup deletion.at
  /\ deletion.step \in AfterRatings => \A m \in Memories : ~ Listed(m)
  /\ deletion.step \in AfterCentroid => ~ centroids[Leaver].cached

Cleaned ==
  /\ Silent
  /\ ~ deletion.errors => OwnedGone
  /\ ~ deletion.errors /\ deletion.alone => RatingsGone

LEMMA GoFields ==
  ASSUME deletion \in DeletionRecord, NEW step, NEW todo, Go(step, todo)
  PROVE  /\ deletion'.step = step /\ deletion'.todo = todo /\ deletion'.at = deletion.at
         /\ deletion'.errors = deletion.errors /\ deletion'.alone = deletion.alone
         /\ deletion'.calls = deletion.calls
  BY DEF Go, DeletionRecord

LEMMA GoAtFields ==
  ASSUME deletion \in DeletionRecord, NEW step, NEW x, GoAt(step, x)
  PROVE  /\ deletion'.step = step /\ deletion'.todo = deletion.todo \ {x} /\ deletion'.at = {x}
         /\ deletion'.errors = deletion.errors /\ deletion'.alone = deletion.alone
         /\ deletion'.calls = deletion.calls
  BY DEF GoAt, DeletionRecord

LEMMA NoteFields ==
  ASSUME deletion \in DeletionRecord, NEW step, NEW todo, Note(step, todo)
  PROVE  /\ deletion'.errors /\ deletion'.step = step /\ deletion'.alone = deletion.alone
         /\ deletion'.calls = deletion.calls
  BY DEF Note, DeletionRecord

\* Whatever is noted, nothing is claimed of it.
LEMMA NotedCleaned ==
  ASSUME deletion \in DeletionRecord, Silent, deletion.step # "none", UNCHANGED requests,
         NEW step, NEW todo, Note(step, todo)
  PROVE  Cleaned'
<1>1. Silent'
  BY NoteFields DEF Silent, OnUser
<1>2. QED  BY <1>1, NoteFields DEF Cleaned

\* A step that goes on keeps the leaver silent.
LEMMA GoneOn ==
  ASSUME deletion \in DeletionRecord, Silent, deletion.step # "none", UNCHANGED requests,
         deletion'.alone = deletion.alone, deletion'.calls = deletion.calls
  PROVE  Silent'
  BY DEF Silent, OnUser

LEMMA CleanedCall ==
  ASSUME Base, Cleaned, Call
  PROVE  Cleaned'
<1>1. deletion.calls \in Nat
  BY DeletionAssumption DEF Base, DeletionTypeOK
<1>2. /\ deletion'.step = "scan" /\ deletion'.calls = deletion.calls + 1
      /\ deletion'.alone = (\A r \in Running : requests[r].user # Leaver)
      /\ UNCHANGED requests
  BY DEF Call, vars
<1>3. Silent'
  BY <1>1, <1>2 DEF Silent, OnUser, Running
<1>4. OwnedGone' /\ RatingsGone'
  BY <1>2 DEF OwnedGone, RatingsGone, On, AfterCollections, AfterDocuments, AfterRatings, AfterCentroid
<1>5. QED  BY <1>3, <1>4 DEF Cleaned

LEMMA CleanedDie ==
  ASSUME Base, Cleaned, Die
  PROVE  Cleaned'
<1>1. deletion \in DeletionRecord /\ deletion.step # "none" /\ UNCHANGED requests
      /\ Go("died", {})
  BY DEF Base, DeletionTypeOK, DeletionRecord, Die, vars
<1>2. Silent'
  BY <1>1, GoFields, GoneOn DEF Cleaned
<1>3. OwnedGone' /\ RatingsGone'
  BY <1>1, GoFields DEF OwnedGone, RatingsGone, On, AfterCollections, AfterDocuments, AfterRatings,
                        AfterCentroid
<1>4. QED  BY <1>2, <1>3 DEF Cleaned

\* A step that goes on: what is left to show is what it leaves behind.
LEMMA CleanedOn ==
  ASSUME deletion \in DeletionRecord, Cleaned, deletion.step # "none", UNCHANGED requests,
         deletion'.errors = deletion.errors, deletion'.alone = deletion.alone,
         deletion'.calls = deletion.calls,
         OwnedGone => OwnedGone', RatingsGone => RatingsGone'
  PROVE  Cleaned'
  BY GoneOn DEF Cleaned

LEMMA CleanedCollections ==
  ASSUME Base, Cleaned, ScanRegistry \/ DropCollection \/ Unregister \/ EndCollections
  PROVE  Cleaned'
<1>0. deletion \in DeletionRecord /\ Silent /\ registry \subseteq UserOwned
  BY DEF Base, DeletionTypeOK, DeletionRecord, Cleaned
<1> USE DEF On, AfterCollections, AfterDocuments, AfterRatings, AfterCentroid
<1>1. CASE ScanRegistry
  <2>1. On("scan") /\ UNCHANGED <<vars, registry, documents>>
    BY <1>1 DEF ScanRegistry
  <2>2. CASE Note("collections", UserOwned)
    BY <1>0, <2>1, <2>2, NotedCleaned DEF vars
  <2>3. CASE Go("collections", UserOwned \cup registry)
    <3>1. OwnedGone' /\ RatingsGone'
      BY <1>0, <2>1, <2>3, GoFields DEF OwnedGone, RatingsGone
    <3>2. QED  BY <1>0, <2>1, <2>3, <3>1, GoFields, CleanedOn DEF vars
  <2>4. QED  BY <1>1, <2>2, <2>3 DEF ScanRegistry
<1>2. CASE DropCollection
  <2>1. On("collections") /\ UNCHANGED <<requests, centroids, userRatings, index, registry, documents>>
    BY <1>2 DEF DropCollection, requestVars
  <2>2. PICK c \in deletion.todo :
          \/ collections' = collections \ {c} /\ GoAt("unregister", c)
          \/ Note("collections", deletion.todo \ {c})
    BY <1>2 DEF DropCollection
  <2>3. CASE Note("collections", deletion.todo \ {c})
    BY <1>0, <2>1, <2>3, NotedCleaned
  <2>4. CASE collections' = collections \ {c} /\ GoAt("unregister", c)
    <3>1. (OwnedGone => OwnedGone') /\ RatingsGone'
      BY <1>0, <2>1, <2>4, GoAtFields DEF OwnedGone, RatingsGone
    <3>2. QED  BY <1>0, <2>1, <2>4, <3>1, GoAtFields, CleanedOn
  <2>5. QED  BY <2>2, <2>3, <2>4
<1>3. CASE Unregister
  <2>1. On("unregister") /\ UNCHANGED <<vars, documents>>
    BY <1>3 DEF Unregister
  <2>2. CASE Note("collections", deletion.todo)
    BY <1>0, <2>1, <2>2, NotedCleaned DEF vars
  <2>3. CASE Go("collections", deletion.todo)
    <3>1. (OwnedGone => OwnedGone') /\ RatingsGone'
      BY <1>0, <2>1, <2>3, GoFields DEF OwnedGone, RatingsGone, vars, stores
    <3>2. QED  BY <1>0, <2>1, <2>3, <3>1, GoFields, CleanedOn DEF vars
  <2>4. QED  BY <1>3, <2>2, <2>3 DEF Unregister
<1>4. CASE EndCollections
  <2>1. /\ On("collections") /\ deletion.todo = {} /\ UNCHANGED <<vars, registry, documents>>
        /\ Go("documents", Paths \ {Permissions})
    BY <1>4 DEF EndCollections
  <2>2. documents \subseteq Documents
    BY DEF Base, DeletionTypeOK
  <2>3. (OwnedGone => OwnedGone') /\ RatingsGone'
    BY <1>0, <2>1, <2>2, GoFields DEF OwnedGone, RatingsGone, vars, stores
  <2>4. QED  BY <1>0, <2>1, <2>3, GoFields, CleanedOn DEF vars
<1>5. QED  BY <1>1, <1>2, <1>3, <1>4

LEMMA CleanedDocuments ==
  ASSUME Base, Cleaned,
         DeleteDocuments \/ EndDocuments \/ DeletePermissions
  PROVE  Cleaned'
<1>0. deletion \in DeletionRecord /\ Silent
  BY DEF Base, DeletionTypeOK, DeletionRecord, Cleaned
<1> USE DEF On, AfterCollections, AfterDocuments, AfterRatings, AfterCentroid
<1>1. CASE DeleteDocuments
  <2>1. On("documents") /\ UNCHANGED <<vars, registry>>
    BY <1>1 DEF DeleteDocuments
  <2>2. PICK d \in deletion.todo :
          \/ documents' = documents \ {d} /\ Go("documents", deletion.todo \ {d})
          \/ Note("documents", deletion.todo \ {d})
    BY <1>1 DEF DeleteDocuments
  <2>3. CASE Note("documents", deletion.todo \ {d})
    BY <1>0, <2>1, <2>3, NotedCleaned DEF vars
  <2>4. CASE documents' = documents \ {d} /\ Go("documents", deletion.todo \ {d})
    <3>1. (OwnedGone => OwnedGone') /\ RatingsGone'
      BY <1>0, <2>1, <2>4, GoFields DEF OwnedGone, RatingsGone, vars, stores
    <3>2. QED  BY <1>0, <2>1, <2>4, <3>1, GoFields, CleanedOn DEF vars
  <2>5. QED  BY <2>2, <2>3, <2>4
<1>2. CASE EndDocuments
  <2>1. /\ On("documents") /\ deletion.todo = {} /\ UNCHANGED <<vars, registry, documents>>
        /\ Go("query", {})
    BY <1>2 DEF EndDocuments
  <2>2. (OwnedGone => OwnedGone') /\ RatingsGone'
    BY <1>0, <2>1, GoFields DEF OwnedGone, RatingsGone, vars, stores
  <2>3. QED  BY <1>0, <2>1, <2>2, GoFields, CleanedOn DEF vars
<1>3. CASE DeletePermissions
  <2>1. On("permissions") /\ UNCHANGED <<vars, registry>>
    BY <1>3 DEF DeletePermissions
  <2>2. CASE Note("done", {})
    BY <1>0, <2>1, <2>2, NotedCleaned DEF vars
  <2>3. CASE documents' = documents \ {Permissions} /\ Go("done", {})
    <3>1. OwnedGone => OwnedGone'
      BY <1>0, <2>1, <2>3, GoFields DEF OwnedGone, vars, stores
    <3>2. RatingsGone => RatingsGone'
      BY <1>0, <2>1, <2>3, GoFields DEF RatingsGone, Listed, vars, stores
    <3>3. QED  BY <1>0, <2>1, <2>3, <3>1, <3>2, GoFields, CleanedOn DEF vars
  <2>4. QED  BY <1>3, <2>2, <2>3 DEF DeletePermissions
<1>4. QED  BY <1>1, <1>2, <1>3

\* Nothing of what the leaver owns comes back while step 3 and step 4 go on.
LEMMA OwnedStaysGone ==
  ASSUME OwnedGone, UNCHANGED <<collections, index, registry, documents>>,
         deletion.step \in {"query", "memory", "user", "centroid"},
         deletion'.step \in {"memory", "user", "centroid", "registry"}
  PROVE  OwnedGone'
  BY DEF OwnedGone, On, AfterCollections, AfterDocuments

LEMMA CleanedRatings ==
  ASSUME Base, Cleaned,
         QueryRatings \/ DeleteMemoryRating \/ DeleteUserRating \/ EndRatings \/ DeleteCentroid
  PROVE  Cleaned'
<1>0. deletion \in DeletionRecord /\ Silent /\ TypeOK
  BY DEF Base, DeletionTypeOK, DeletionRecord, Cleaned
<1> USE DEF On, AfterRatings, AfterCentroid
<1>1. CASE QueryRatings
  <2>1. On("query") /\ UNCHANGED <<vars, registry, documents>>
    BY <1>1 DEF QueryRatings
  <2>2. CASE Note("centroid", {})
    BY <1>0, <2>1, <2>2, NotedCleaned DEF vars
  <2>3. CASE Go("memory", {m \in Memories : userRatings[Leaver][m] # 0})
    <3>1. deletion'.step = "memory" /\ deletion'.todo = {m \in Memories : userRatings[Leaver][m] # 0}
      BY <1>0, <2>3, GoFields
    <3>2. RatingsGone'
      BY <2>1, <3>1 DEF RatingsGone, Listed, vars, stores
    <3>3. OwnedGone => OwnedGone'
      BY <2>1, <3>1, OwnedStaysGone DEF vars, stores
    <3>4. QED  BY <1>0, <2>1, <2>3, <3>2, <3>3, GoFields, CleanedOn DEF vars
  <2>4. QED  BY <1>1, <2>2, <2>3 DEF QueryRatings
<1>2. CASE DeleteMemoryRating
  <2>1. /\ On("memory")
        /\ UNCHANGED <<userRatings, centroids, collections, index, requests, registry, documents>>
    BY <1>2 DEF DeleteMemoryRating, requestVars
  <2>2. PICK m \in deletion.todo : GoAt("user", m)
    BY <1>2 DEF DeleteMemoryRating
  <2>3. /\ deletion'.step = "user" /\ deletion'.todo = deletion.todo \ {m} /\ deletion'.at = {m}
    BY <1>0, <2>2, GoAtFields
  <2>4. RatingsGone => RatingsGone'
    BY <2>1, <2>3 DEF RatingsGone, Listed
  <2>5. OwnedGone => OwnedGone'
    BY <2>1, <2>3, OwnedStaysGone
  <2>6. QED  BY <1>0, <2>1, <2>2, <2>4, <2>5, GoAtFields, CleanedOn
<1>3. CASE DeleteUserRating
  <2>1. On("user") /\ UNCHANGED <<centroids, collections, index, requests, registry, documents>>
    BY <1>3 DEF DeleteUserRating, requestVars
  <2>2. PICK m \in deletion.at :
          \/ userRatings' = [userRatings EXCEPT ![Leaver][m] = 0] /\ Go("memory", deletion.todo)
          \/ Note("centroid", {})
    BY <1>3 DEF DeleteUserRating
  <2>3. CASE Note("centroid", {})
    BY <1>0, <2>1, <2>3, NotedCleaned
  <2>4. CASE userRatings' = [userRatings EXCEPT ![Leaver][m] = 0] /\ Go("memory", deletion.todo)
    <3>1. deletion'.step = "memory" /\ deletion'.todo = deletion.todo
      BY <1>0, <2>4, GoFields
    <3>2. deletion.at = {m}
      BY <2>1, <2>2 DEF Base, Targets
    <3>3. \A n \in Memories : Listed(n)' => Listed(n) /\ n # m
      BY <1>0, <2>4, DeletionAssumption DEF Listed, TypeOK
    <3>4. RatingsGone => RatingsGone'
      BY <2>1, <3>1, <3>2, <3>3 DEF RatingsGone
    <3>5. OwnedGone => OwnedGone'
      BY <2>1, <3>1, OwnedStaysGone
    <3>6. QED  BY <1>0, <2>1, <2>4, <3>4, <3>5, GoFields, CleanedOn
  <2>5. QED  BY <2>2, <2>3, <2>4
<1>4. CASE EndRatings
  <2>1. On("memory") /\ deletion.todo = {} /\ UNCHANGED <<vars, registry, documents>> /\ Go("centroid", {})
    BY <1>4 DEF EndRatings
  <2>2. deletion'.step = "centroid"
    BY <1>0, <2>1, GoFields
  <2>3. RatingsGone => RatingsGone'
    BY <2>1, <2>2 DEF RatingsGone, Listed, vars, stores
  <2>4. OwnedGone => OwnedGone'
    BY <2>1, <2>2, OwnedStaysGone DEF vars, stores
  <2>5. QED  BY <1>0, <2>1, <2>3, <2>4, GoFields, CleanedOn DEF vars
<1>5. CASE DeleteCentroid
  <2>1. On("centroid") /\ UNCHANGED <<userRatings, collections, index, requests, registry, documents>>
    BY <1>5 DEF DeleteCentroid, requestVars
  <2>2. CASE Note("registry", {})
    BY <1>0, <2>1, <2>2, NotedCleaned
  <2>3. CASE centroids' = [centroids EXCEPT ![Leaver] = NoCentroid] /\ Go("registry", {})
    <3>1. deletion'.step = "registry"
      BY <1>0, <2>3, GoFields
    <3>2. ~ centroids'[Leaver].cached
      BY <1>0, <2>3, DeletionAssumption DEF NoCentroid, TypeOK
    <3>3. RatingsGone => RatingsGone'
      BY <2>1, <3>1, <3>2 DEF RatingsGone, Listed
    <3>4. OwnedGone => OwnedGone'
      BY <2>1, <3>1, OwnedStaysGone
    <3>5. QED  BY <1>0, <2>1, <2>3, <3>3, <3>4, GoFields, CleanedOn
  <2>4. QED  BY <1>5, <2>2, <2>3 DEF DeleteCentroid
<1>6. QED  BY <1>1, <1>2, <1>3, <1>4, <1>5

LEMMA CleanedEntries ==
  ASSUME Base, Cleaned, DeleteRegistryEntries \/ DeleteIndexEntry \/ EndIndex
  PROVE  Cleaned'
<1>0. deletion \in DeletionRecord /\ Silent /\ index \subseteq Memories
  BY DEF Base, DeletionTypeOK, DeletionRecord, Cleaned, TypeOK
<1> USE DEF On, AfterCollections, AfterDocuments, AfterRatings, AfterCentroid
<1>1. CASE DeleteRegistryEntries
  <2>1. On("registry") /\ UNCHANGED <<vars, documents>>
    BY <1>1 DEF DeleteRegistryEntries
  <2>2. CASE Note("index", {m \in index : CollectionOf[m] \in UserOwned})
    BY <1>0, <2>1, <2>2, NotedCleaned DEF vars
  <2>3. CASE registry' = {} /\ Go("index", {m \in index : CollectionOf[m] \in UserOwned})
    <3>1. /\ deletion'.step = "index"
          /\ deletion'.todo = {m \in index : CollectionOf[m] \in UserOwned}
      BY <1>0, <2>3, GoFields
    <3>2. OwnedGone => OwnedGone'
      BY <2>1, <2>3, <3>1 DEF OwnedGone, vars, stores
    <3>3. RatingsGone => RatingsGone'
      BY <2>1, <3>1 DEF RatingsGone, Listed, vars, stores
    <3>4. QED  BY <1>0, <2>1, <2>3, <3>2, <3>3, GoFields, CleanedOn DEF vars
  <2>4. QED  BY <1>1, <2>2, <2>3 DEF DeleteRegistryEntries
<1>2. CASE DeleteIndexEntry
  <2>1. On("index") /\ UNCHANGED <<userRatings, centroids, collections, requests, registry, documents>>
    BY <1>2 DEF DeleteIndexEntry, requestVars
  <2>2. PICK m \in deletion.todo :
          \/ index' = index \ {m} /\ Go("index", deletion.todo \ {m})
          \/ Note("permissions", {})
    BY <1>2 DEF DeleteIndexEntry
  <2>3. CASE Note("permissions", {})
    BY <1>0, <2>1, <2>3, NotedCleaned
  <2>4. CASE index' = index \ {m} /\ Go("index", deletion.todo \ {m})
    <3>1. deletion'.step = "index" /\ deletion'.todo = deletion.todo \ {m}
      BY <1>0, <2>4, GoFields
    <3>2. OwnedGone => OwnedGone'
      BY <2>1, <2>4, <3>1 DEF OwnedGone
    <3>3. RatingsGone => RatingsGone'
      BY <2>1, <3>1 DEF RatingsGone, Listed
    <3>4. QED  BY <1>0, <2>1, <2>4, <3>2, <3>3, GoFields, CleanedOn
  <2>5. QED  BY <2>2, <2>3, <2>4
<1>3. CASE EndIndex
  <2>1. On("index") /\ deletion.todo = {} /\ UNCHANGED <<vars, registry, documents>> /\ Go("permissions", {})
    BY <1>3 DEF EndIndex
  <2>2. deletion'.step = "permissions"
    BY <1>0, <2>1, GoFields
  <2>3. OwnedGone => OwnedGone'
    BY <2>1, <2>2 DEF OwnedGone, vars, stores
  <2>4. RatingsGone => RatingsGone'
    BY <2>1, <2>2 DEF RatingsGone, Listed, vars, stores
  <2>5. QED  BY <1>0, <2>1, <2>3, <2>4, GoFields, CleanedOn DEF vars
<1>4. QED  BY <1>1, <1>2, <1>3

\* Requests leave the deletion, the registry and the documents alone, neither restore a
\* collection nor an index entry, and are not the leaver's once the deletion is called.
LEMMA CleanedByRequests ==
  ASSUME Base, Cleaned, UNCHANGED <<deletionVars, collections, index>>,
         \/ deletion.calls = 0
         \/ deletion.alone =>
              /\ \A r \in Requests : ~ OnUser(r, Leaver)'
              /\ UNCHANGED <<userRatings[Leaver], centroids[Leaver]>>
  PROVE  Cleaned'
<1>1. UNCHANGED <<deletion, registry, documents>>
  BY DEF deletionVars
<1>2. deletion.calls \in Nat
  BY DeletionAssumption DEF Base, DeletionTypeOK
<1>3. OwnedGone => OwnedGone'
  BY <1>1 DEF OwnedGone, On
<1>4. CASE deletion.calls = 0
  <2>1. deletion.step = "none"
    BY <1>2, <1>4 DEF Cleaned, Silent
  <2>2. RatingsGone'
    BY <1>1, <2>1 DEF RatingsGone, On, AfterRatings, AfterCentroid
  <2>3. Silent'
    BY <1>1, <1>2, <1>4, <2>1 DEF Silent
  <2>4. QED  BY <1>1, <1>3, <2>2, <2>3 DEF Cleaned
<1>5. CASE deletion.calls # 0
  <2>1. Silent'
    BY <1>1, <1>5 DEF Cleaned, Silent
  <2>2. deletion.alone /\ RatingsGone => RatingsGone'
    BY <1>1, <1>5 DEF RatingsGone, Listed, On
  <2>3. QED  BY <1>1, <1>3, <2>1, <2>2 DEF Cleaned
<1>6. QED  BY <1>4, <1>5

LEMMA CleanedByAccepted ==
  ASSUME Base, Cleaned, UNCHANGED deletionVars, NEW r \in Requests, NEW new \in Request,
         Accept(r, new), new.user # Leaver \/ deletion.calls = 0
  PROVE  Cleaned'
<1>1. Becomes(r, new) /\ UNCHANGED stores
  BY AcceptEffect DEF Base, DeletionTypeOK
<1>2. deletion.calls \in Nat
  BY DeletionAssumption DEF Base, DeletionTypeOK
<1>3. CASE deletion.calls # 0 /\ deletion.alone
  <2>1. \A p \in Requests : ~ OnUser(p, Leaver)
    BY <1>2, <1>3 DEF Cleaned, Silent
  <2>2. \A p \in Requests : ~ OnUser(p, Leaver)'
    BY <1>1, <1>3, <2>1 DEF OnUser, Becomes
  <2>3. QED  BY <1>1, <2>2, CleanedByRequests DEF stores
<1>4. QED  BY <1>1, <1>3, CleanedByRequests DEF stores

\* A request that is not the leaver's writes nothing of the leaver's.
LEMMA RatingStepOfOthers ==
  ASSUME TypeOK, Shapes, NEW r \in Requests, RatingStep(r),
         \A p \in Requests : ~ OnUser(p, Leaver)
  PROVE  /\ \A p \in Requests : ~ OnUser(p, Leaver)'
         /\ UNCHANGED <<userRatings[Leaver], centroids[Leaver], collections, index>>
<1> DEFINE q == requests[r]
           new == requests'[r]
           Quiet == \A p \in Requests : ~ OnUser(p, Leaver)'
<1>1. /\ userRatings \in [Users -> [Memories -> Ratings]] /\ centroids \in [Users -> Centroid]
      /\ Leaver \in Users
  BY DeletionAssumption DEF TypeOK
<1>2. q.kind # "none" => q.user # Leaver
  BY DEF OnUser
<1>3. Becomes(r, Idle) => Quiet
  BY IdleFields DEF Becomes, OnUser
<1>4. q.kind # "none" /\ Becomes(r, new) /\ SameWork(q, new) => Quiet
  BY <1>2 DEF Becomes, OnUser, SameWork
<1> HIDE DEF Quiet
<1>5. CASE ReadRating(r)
  <2>1. /\ q.kind # "none" /\ Becomes(r, new) /\ SameWork(q, new)
        /\ UNCHANGED <<userRatings, centroids, collections, index>>
    BY <1>5, ReadRatingEffect DEF stores
  <2>2. QED  BY <1>4, <2>1 DEF Quiet
<1>6. CASE WriteMemoryRating(r)
  <2>1. /\ q.kind # "none" /\ Becomes(r, new) /\ SameWork(q, new)
        /\ UNCHANGED <<userRatings, centroids, collections, index>>
    BY <1>6, WriteMemoryRatingEffect
  <2>2. QED  BY <1>4, <2>1 DEF Quiet
<1>7. CASE WriteUserRating(r)
  <2>1. /\ q.kind # "none" /\ Becomes(r, new) /\ SameWork(q, new)
        /\ userRatings' = [userRatings EXCEPT ![q.user] = [@ EXCEPT ![q.memory] = q.stars]]
        /\ UNCHANGED <<centroids, collections, index>>
    BY <1>7, WriteUserRatingEffect
  <2>2. userRatings'[Leaver] = userRatings[Leaver]
    BY <1>1, <1>2, <2>1
  <2>3. QED  BY <1>4, <2>1, <2>2 DEF Quiet
<1>8. CASE WriteAggregates(r)
  <2>1. /\ q.kind # "none" /\ Becomes(r, new)
        /\ SameWork(q, new) \/ new = Idle
        /\ UNCHANGED <<userRatings, centroids, collections, index>>
    BY <1>8, WriteAggregatesEffect
  <2>2. QED  BY <1>3, <1>4, <2>1 DEF Quiet
<1>9. CASE InvalidateCentroid(r)
  <2>1. /\ q.kind # "none" /\ Becomes(r, Idle)
        /\ centroids' = [centroids EXCEPT ![q.user] = NoCentroid]
        /\ UNCHANGED <<userRatings, collections, index>>
    BY <1>9, InvalidateCentroidEffect
  <2>2. centroids'[Leaver] = centroids[Leaver]
    BY <1>1, <1>2, <2>1
  <2>3. QED  BY <1>3, <2>1, <2>2 DEF Quiet
<1>10. CASE FetchAggregates(r)
  <2>1. /\ q.kind # "none" /\ Becomes(r, new) /\ SameWork(q, new)
        /\ UNCHANGED <<userRatings, centroids, collections, index>>
    BY <1>10, FetchAggregatesEffect DEF stores
  <2>2. QED  BY <1>4, <2>1 DEF Quiet
<1>11. CASE ComputeCentroid(r)
  <2>1. /\ q.kind # "none" /\ Becomes(r, new)
        /\ SameWork(q, new) \/ new = Idle
        /\ UNCHANGED <<userRatings, centroids, collections, index>>
    BY <1>11, ComputeCentroidEffect DEF stores
  <2>2. QED  BY <1>3, <1>4, <2>1 DEF Quiet
<1>12. CASE CacheCentroid(r)
  <2>1. /\ q.kind # "none" /\ Becomes(r, Idle)
        /\ centroids' = [centroids EXCEPT ![q.user] = [cached |-> TRUE, highs |-> q.highs, missed |-> q.missed]]
        /\ UNCHANGED <<userRatings, collections, index>>
    BY <1>12, CacheCentroidEffect
  <2>2. centroids'[Leaver] = centroids[Leaver]
    BY <1>1, <1>2, <2>1
  <2>3. QED  BY <1>3, <2>1, <2>2 DEF Quiet
<1>13. CASE BreakOff(r)
  <2>1. Becomes(r, Idle) /\ UNCHANGED <<userRatings, centroids, collections, index>>
    BY <1>13, BreakOffEffect DEF stores
  <2>2. QED  BY <1>3, <2>1 DEF Quiet
<1>14. QED
  BY <1>5, <1>6, <1>7, <1>8, <1>9, <1>10, <1>11, <1>12, <1>13 DEF RatingStep

\* No request brings a collection or an index entry back.
LEMMA RatingStepKeepsOwned ==
  ASSUME NEW r \in Requests, RatingStep(r)
  PROVE  UNCHANGED <<collections, index>>
  BY DEF RatingStep, ReadRating, WriteMemoryRating, WriteUserRating, WriteAggregates,
         InvalidateCentroid, FetchAggregates, ComputeCentroid, CacheCentroid, BreakOff, stores

LEMMA CleanedNext ==
  ASSUME Base, Cleaned, [DeletionNext]_allVars
  PROVE  Cleaned'
<1>0. TypeOK /\ Shapes /\ deletion.calls \in Nat
  BY DeletionAssumption DEF Base, DeletionTypeOK
<1>1. CASE Call
  BY <1>1, CleanedCall
<1>2. CASE DeletionStep
  BY <1>2, CleanedCollections, CleanedDocuments, CleanedRatings, CleanedEntries DEF DeletionStep
<1>3. CASE Die
  BY <1>3, CleanedDie
<1>4. ASSUME NEW r \in Requests, RatingStep(r), UNCHANGED deletionVars PROVE Cleaned'
  <2>1. UNCHANGED <<collections, index>>
    BY <1>4, RatingStepKeepsOwned
  <2>2. CASE deletion.calls # 0 /\ deletion.alone
    <3>1. \A p \in Requests : ~ OnUser(p, Leaver)
      BY <1>0, <2>2 DEF Cleaned, Silent
    <3>2. QED  BY <1>0, <1>4, <2>1, <3>1, RatingStepOfOthers, CleanedByRequests
  <2>3. QED  BY <1>4, <2>1, <2>2, CleanedByRequests
<1>5. ASSUME NEW r \in Requests, NEW u \in Users, Recommend(r, u), UNCHANGED deletionVars,
             u # Leaver \/ deletion.calls = 0
      PROVE  Cleaned'
  BY <1>0, <1>5, RecommendEffect, CleanedByAccepted
<1>6. ASSUME NEW r \in Requests, NEW u \in Users, NEW m \in Memories, NEW stars \in Stars,
             Rate(r, u, m, stars), UNCHANGED deletionVars, u # Leaver \/ deletion.calls = 0
      PROVE  Cleaned'
  BY <1>0, <1>6, RateEffect, CleanedByAccepted
<1>7. ASSUME NEW r \in Requests, NEW u \in Users, NEW m \in Memories, Retract(r, u, m),
             UNCHANGED deletionVars, u # Leaver \/ deletion.calls = 0
      PROVE  Cleaned'
  BY <1>0, <1>7, RetractEffect, CleanedByAccepted
<1>8. CASE UNCHANGED allVars
  <2>1. \A r \in Requests : OnUser(r, Leaver)' <=> OnUser(r, Leaver)
    BY <1>8 DEF allVars, vars, OnUser
  <2>2. deletion.calls # 0 /\ deletion.alone => \A r \in Requests : ~ OnUser(r, Leaver)'
    BY <1>0, <2>1 DEF Cleaned, Silent
  <2>3. QED  BY <1>8, <2>2, CleanedByRequests DEF allVars, vars, stores
<1>9. QED  BY <1>1, <1>2, <1>3, <1>4, <1>5, <1>6, <1>7, <1>8, StepCases

LEMMA CleanedInit ==
  ASSUME DeletionInit
  PROVE  Cleaned
<1>1. deletion.step = "none" /\ deletion.calls = 0
  BY DEF DeletionInit
<1>2. QED
  BY <1>1 DEF Cleaned, Silent, OwnedGone, RatingsGone, On, AfterCollections, AfterDocuments,
              AfterRatings, AfterCentroid

\* Step 2 goes through documents it has the path of; the others are still there.
Kept ==
  /\ On("documents") => deletion.todo \subseteq Paths
  /\ Documents \ Paths \subseteq documents

LEMMA KeptInit ==
  ASSUME DeletionInit
  PROVE  Kept
  BY DEF DeletionInit, Kept, On

LEMMA KeptNext ==
  ASSUME Base, Kept, [DeletionNext]_allVars
  PROVE  Kept'
<1>0. deletion \in DeletionRecord /\ Permissions \in Paths
  BY DeletionAssumption DEF Base, DeletionTypeOK, DeletionRecord
<1>1. ASSUME documents' = documents, deletion'.step # "documents" PROVE Kept'
  BY <1>1 DEF Kept, On
<1>2. ASSUME UNCHANGED deletionVars PROVE Kept'
  BY <1>2 DEF Kept, On, deletionVars
<1>3. CASE EndCollections
  <2>1. UNCHANGED documents /\ Go("documents", Paths \ {Permissions})
    BY <1>3 DEF EndCollections
  <2>2. QED  BY <1>0, <2>1, GoFields DEF Kept, On
<1>4. CASE DeleteDocuments
  <2>1. PICK d \in deletion.todo :
          \/ documents' = documents \ {d} /\ Go("documents", deletion.todo \ {d})
          \/ documents' = documents /\ Note("documents", deletion.todo \ {d})
    BY <1>4 DEF DeleteDocuments
  <2>2. deletion'.todo = deletion.todo \ {d}
    BY <1>0, <2>1 DEF Go, Note, DeletionRecord
  <2>3. deletion.todo \subseteq Paths
    BY <1>4 DEF DeleteDocuments, Kept
  <2>4. QED  BY <2>1, <2>2, <2>3 DEF Kept
<1>5. CASE DeletePermissions
  <2>1. documents' = documents \/ documents' = documents \ {Permissions}
    BY <1>5 DEF DeletePermissions
  <2>2. deletion'.step = "done"
    BY <1>0, <1>5 DEF DeletePermissions, Go, Note, DeletionRecord
  <2>3. QED  BY <1>0, <2>1, <2>2 DEF Kept, On
<1>6. CASE Call
  BY <1>1, <1>6 DEF Call
<1>7. CASE Die
  BY <1>0, <1>1, <1>7, GoFields DEF Die
<1>8. CASE ScanRegistry \/ Unregister \/ EndDocuments \/ QueryRatings \/ EndRatings
            \/ DeleteCentroid \/ DeleteRegistryEntries \/ EndIndex
  BY <1>0, <1>1, <1>8 DEF ScanRegistry, Unregister, EndDocuments, QueryRatings, EndRatings,
     DeleteCentroid, DeleteRegistryEntries, EndIndex, Go, Note, DeletionRecord
<1>9. CASE DropCollection \/ DeleteMemoryRating \/ DeleteUserRating \/ DeleteIndexEntry
  <2>1. documents' = documents
    BY <1>9 DEF DropCollection, DeleteMemoryRating, DeleteUserRating, DeleteIndexEntry
  <2>2. deletion'.step # "documents"
    BY <1>0, <1>9 DEF DropCollection, DeleteMemoryRating, DeleteUserRating, DeleteIndexEntry,
                      Go, GoAt, Note, DeletionRecord
  <2>3. QED  BY <1>1, <2>1, <2>2
<1>10. CASE Serve \/ UNCHANGED allVars
  BY <1>2, <1>10 DEF Serve, allVars
<1>11. QED
  BY <1>3, <1>4, <1>5, <1>6, <1>7, <1>8, <1>9, <1>10 DEF DeletionNext, DeletionStep

\* A deletion that reports success has left nothing behind any path it goes through, and
\* everything of the user on the others, whatever calls before it failed or died halfway and
\* whatever the other users' requests did meanwhile.  That a rating is gone from under its
\* memory follows from its being gone from the user's own list, because the two agree on every
\* pair that is not torn.
THEOREM ReportsAlwaysHonest == DeletionSpec => []ReportsHonestly
<1>1. DeletionInit => Cleaned
  BY CleanedInit
<1>2. Base /\ Cleaned /\ [DeletionNext]_allVars => Cleaned'
  BY CleanedNext
<1>3. DeletionInit => PairsOK
  BY PairsInit
<1>4. Base /\ PairsOK /\ [DeletionNext]_allVars => PairsOK'
  BY PairsNext
<1>5. Base /\ Cleaned /\ PairsOK /\ Kept => ReportsHonestly
  <2> SUFFICES ASSUME Base, Cleaned, PairsOK, Kept, On("done"), ~ deletion.errors, deletion.alone
               PROVE  /\ collections \cap UserOwned = {} /\ registry = {} /\ documents = Documents \ Paths
                      /\ \A m \in index : CollectionOf[m] \notin UserOwned
                      /\ \A m \in Memories : userRatings[Leaver][m] = 0
                      /\ \A m \in Memories : <<m, Leaver>> \in torn.pairs \/ ratings[m][Leaver] = 0
                      /\ ~ centroids[Leaver].cached
    BY DEF ReportsHonestly
  <2>1. OwnedGone /\ RatingsGone
    BY DEF Cleaned
  <2>2. \A r \in Requests : ~ OnUser(r, Leaver)
    <3>1. deletion.calls > 0
      BY DEF Cleaned, Silent, On
    <3>2. QED  BY <3>1 DEF Cleaned, Silent
  <2>3. \A m \in Memories : userRatings[Leaver][m] = 0
    BY <2>1 DEF RatingsGone, Listed, On, AfterRatings
  <2>4. ASSUME NEW m \in Memories, <<m, Leaver>> \notin torn.pairs PROVE ratings[m][Leaver] = 0
    <3>1. \A r \in Requests : ~ OnPair(r, m, Leaver)
      BY <2>2 DEF OnPair, OnUser
    <3>2. userRatings[Leaver][m] = ratings[m][Leaver]
      BY <2>4, <3>1, DeletionAssumption DEF PairsOK, PairOK
    <3>3. QED  BY <2>3, <3>2
  <2>5. documents = Documents \ Paths
    BY <2>1 DEF OwnedGone, On, Base, DeletionTypeOK, Kept
  <2>6. QED
    BY <2>1, <2>3, <2>4, <2>5 DEF OwnedGone, RatingsGone, On, AfterCollections, AfterRatings, AfterCentroid
<1>6. QED
  BY <1>1, <1>2, <1>3, <1>4, <1>5, KeptInit, KeptNext, BaseAlways, PTL DEF DeletionSpec

=============================================================================

------------------------------- MODULE Ratings -------------------------------
(***************************************************************************)
(* RatingService and the cached preference centroids of                    *)
(* RecommendationService.  A rating is kept three times: under the memory, *)
(* under the user, and summed up on the memory itself, which lives in      *)
(* another store.  Each copy is written by a call of its own, from what a  *)
(* call of the same request read before, and a call that fails or a        *)
(* process that dies ends the request where it is.                         *)
(***************************************************************************)
EXTENDS Integers, FiniteSets, FiniteSetsExt

CONSTANTS
  Users, Memories,
  Collections,    \* the collections of memories
  CollectionOf,   \* CollectionOf[m]: the collection memory m is in
  Stars,          \* the ratings given, of 1..5
  MinProfileSize, \* the high ratings a centroid takes
  VectorFetchCap, \* the high ratings a centroid reads at most
  Requests,       \* the requests that may overlap
  Failing,        \* whether calls may fail
  MaxStarts       \* bound on the requests that are accepted

ASSUME ConstantsAssumption ==
  /\ CollectionOf \in [Memories -> Collections]
  /\ Stars \subseteq 1..5
  /\ MinProfileSize \in Nat
  /\ VectorFetchCap \in Nat
  /\ Failing \in BOOLEAN
  /\ MaxStarts \in Nat
  /\ IsFiniteSet(Users) /\ IsFiniteSet(Memories) /\ Memories # {}

VARIABLES
  ratings,     \* memory_ratings: ratings[m][u], 0 for none
  userRatings, \* user_ratings: userRatings[u][m]
  aggregates,  \* rating_sum and rating_count of each memory
  centroids,   \* of each user: whether one is cached, the highly rated memories it is made
               \* of, and those its computation missed
  collections, \* the collections that exist
  index,       \* the memories whose collection the memory index knows
  requests,    \* what each request is doing
  starts,      \* how many requests were accepted
  torn         \* history: what requests that met or broke off may have left apart

stores == <<ratings, userRatings, aggregates, centroids, collections, index>>
vars == <<stores, requests, starts, torn>>

Ratings == Stars \cup {0}
NoCentroid == [cached |-> FALSE, highs |-> {}, missed |-> {}]
Kinds == {"none", "rate", "retract", "recommend"}
Phases == {"idle", "read", "memory", "user", "fetch", "aggregate", "invalidate",
           "compute", "cache"}

Centroid == [cached : BOOLEAN, highs : SUBSET Memories, missed : SUBSET Memories]
Aggregate == [sum : Int, count : Nat]
Request == [kind : Kinds, phase : Phases, user : Users, memory : Memories, stars : Ratings,
            previous : Ratings, seen : Aggregate, highs : SUBSET Memories,
            missed : SUBSET Memories]
Idle == [kind |-> "none", phase |-> "idle", user |-> CHOOSE u \in Users : TRUE,
         memory |-> CHOOSE m \in Memories : TRUE, stars |-> 0, previous |-> 0,
         seen |-> [sum |-> 0, count |-> 0], highs |-> {}, missed |-> {}]

TypeOK ==
  /\ ratings \in [Memories -> [Users -> Ratings]]
  /\ userRatings \in [Users -> [Memories -> Ratings]]
  /\ aggregates \in [Memories -> Aggregate]
  /\ centroids \in [Users -> Centroid]
  /\ collections \subseteq Collections
  /\ index \subseteq Memories
  /\ requests \in [Requests -> Request]
  /\ starts \in 0..MaxStarts
  /\ torn \in [memories : SUBSET Memories, users : SUBSET Users,
               pairs : SUBSET (Memories \X Users)]

\* Some memories have been rated by everyone alike, and all copies agree.
Init ==
  /\ \E rated \in SUBSET Memories, stars \in Stars :
       LET first == [m \in Memories |-> IF m \in rated THEN stars ELSE 0] IN
       /\ ratings = [m \in Memories |-> [u \in Users |-> first[m]]]
       /\ userRatings = [u \in Users |-> first]
       /\ aggregates = [m \in Memories |->
            [sum |-> Cardinality(Users) * first[m],
             count |-> IF m \in rated THEN Cardinality(Users) ELSE 0]]
  /\ centroids = [u \in Users |-> NoCentroid]
  /\ collections = Collections
  /\ index = Memories
  /\ requests = [r \in Requests |-> Idle]
  /\ starts = 0
  /\ torn = [memories |-> {}, users |-> {}, pairs |-> {}]

-----------------------------------------------------------------------------

Exists(m) == CollectionOf[m] \in collections
High(stars) == stars >= 4

Running == {r \in Requests : requests[r].kind # "none"}
Rating == {r \in Running : requests[r].kind # "recommend"}

Tear(ms, us, ps) ==
  torn' = [memories |-> torn.memories \cup ms, users |-> torn.users \cup us,
           pairs |-> torn.pairs \cup ps]

\* A request is accepted together with its first read.  It tears the memory, the
\* pair and the user of another one at work on the same.
Accept(r, request) ==
  LET m == request.memory
      u == request.user
      others == IF request.kind = "recommend" THEN {} ELSE Rating IN
  /\ requests[r].kind = "none"
  /\ starts < MaxStarts
  /\ starts' = starts + 1
  /\ requests' = [requests EXCEPT ![r] = request]
  /\ Tear({m} \cap {requests[p].memory : p \in others},
          {u} \cap {requests[p].user : p \in Running},
          {<<m, u>>} \cap {<<requests[p].memory, requests[p].user>> : p \in others})
  /\ UNCHANGED stores

Goto(r, phase) == requests' = [requests EXCEPT ![r].phase = phase]
Finish(r) == requests' = [requests EXCEPT ![r] = Idle]
At(r, phase) == requests[r].phase = phase

-----------------------------------------------------------------------------
(* rate.  The aggregates are read first and written last.                  *)

Rate(r, u, m, stars) ==
  /\ m \in index
  /\ Exists(m)
  /\ Accept(r, [Idle EXCEPT !.kind = "rate", !.phase = "read", !.user = u, !.memory = m,
                            !.stars = stars, !.seen = aggregates[m]])

ReadRating(r) ==
  LET q == requests[r] IN
  /\ At(r, "read")
  /\ requests' = [requests EXCEPT ![r].phase = "memory",
                                  ![r].previous = ratings[q.memory][q.user]]
  /\ UNCHANGED <<stores, starts, torn>>

\* Under the memory: the new rating, or none.
WriteMemoryRating(r) ==
  LET q == requests[r] IN
  /\ At(r, "memory")
  /\ ratings' = [ratings EXCEPT ![q.memory][q.user] = q.stars]
  /\ Goto(r, "user")
  /\ UNCHANGED <<userRatings, aggregates, centroids, collections, index, starts, torn>>

\* Slip: a retraction leaves the user's own list alone.
WriteUserRatingOnlyNew(r) ==
  LET q == requests[r] IN
  /\ At(r, "user")
  /\ userRatings' = [userRatings EXCEPT ![q.user][q.memory] = IF q.stars = 0 THEN @ ELSE q.stars]
  /\ Goto(r, IF q.kind = "rate" THEN "aggregate" ELSE "fetch")
  /\ UNCHANGED <<ratings, aggregates, centroids, collections, index, starts, torn>>

WriteUserRating(r) ==
  LET q == requests[r] IN
  /\ At(r, "user")
  /\ userRatings' = [userRatings EXCEPT ![q.user][q.memory] = q.stars]
  /\ Goto(r, IF q.kind = "rate" THEN "aggregate" ELSE "fetch")
  /\ UNCHANGED <<ratings, aggregates, centroids, collections, index, starts, torn>>

\* Slip: a change of rating counts as a new one.
AdjustedAsNew(q) ==
  [sum |-> q.seen.sum + q.stars - q.previous,
   count |-> IF q.kind = "rate" THEN q.seen.count + 1
             ELSE IF q.seen.count > 0 THEN q.seen.count - 1 ELSE 0]

\* What rate and retract make of the aggregates they read; the count has a floor.
Adjusted(q) ==
  [sum |-> q.seen.sum + q.stars - q.previous,
   count |-> IF q.kind = "rate" /\ q.previous = 0 THEN q.seen.count + 1
             ELSE IF q.kind = "rate" THEN q.seen.count
             ELSE IF q.seen.count > 0 THEN q.seen.count - 1 ELSE 0]

WriteAggregates(r) ==
  LET q == requests[r] IN
  /\ At(r, "aggregate")
  /\ Exists(q.memory)
  /\ aggregates' = [aggregates EXCEPT ![q.memory] = Adjusted(q)]
  /\ IF q.kind = "rate" /\ High(q.stars) THEN Goto(r, "invalidate") ELSE Finish(r)
  /\ UNCHANGED <<ratings, userRatings, centroids, collections, index, starts, torn>>

\* Slip: only the best rating counts as high.
InvalidateCentroidOfBest(r) ==
  LET u == requests[r].user IN
  /\ At(r, "invalidate")
  /\ centroids' = [centroids EXCEPT ![u] = IF requests[r].stars > 4 THEN NoCentroid ELSE @]
  /\ Finish(r)
  /\ UNCHANGED <<ratings, userRatings, aggregates, collections, index, starts, torn>>

InvalidateCentroid(r) ==
  /\ At(r, "invalidate")
  /\ centroids' = [centroids EXCEPT ![requests[r].user] = NoCentroid]
  /\ Finish(r)
  /\ UNCHANGED <<ratings, userRatings, aggregates, collections, index, starts, torn>>

-----------------------------------------------------------------------------
(* retract.  The rating is read first; the aggregates only after both of   *)
(* its documents are gone.                                                 *)

Retract(r, u, m) ==
  /\ ratings[m][u] # 0
  /\ Accept(r, [Idle EXCEPT !.kind = "retract", !.phase = "memory", !.user = u, !.memory = m,
                            !.previous = ratings[m][u]])

FetchAggregates(r) ==
  LET q == requests[r] IN
  /\ At(r, "fetch")
  /\ q.memory \in index /\ Exists(q.memory)
  /\ requests' = [requests EXCEPT ![r].phase = "aggregate", ![r].seen = aggregates[q.memory]]
  /\ UNCHANGED <<stores, starts, torn>>

-----------------------------------------------------------------------------
(* getOrComputeCentroid.  Only a miss goes on: high ratings are read, the  *)
(* vectors of their memories fetched, and what they give is cached.        *)

Recommend(r, u) ==
  /\ ~centroids[u].cached
  /\ Accept(r, [Idle EXCEPT !.kind = "recommend", !.phase = "compute", !.user = u])

Highs(u) == {m \in Memories : High(userRatings[u][m])}

\* The latest high ratings up to the cap; which these are is left open.
Read(u) == kSubset(Min({VectorFetchCap, Cardinality(Highs(u))}), Highs(u))

\* The memories a vector comes back for: one that is gone or not in the index is passed
\* over, and so is one whose fetch fails.
Fetched(read) ==
  LET there == {m \in read : m \in index /\ Exists(m)} IN
  IF Failing THEN SUBSET there ELSE {there}

\* Too few ratings, or no vector at all, give no centroid.
ComputeCentroid(r) ==
  LET u == requests[r].user IN
  /\ At(r, "compute")
  /\ \E read \in Read(u) :
       \/ Cardinality(read) < MinProfileSize /\ Finish(r)
       \/ /\ Cardinality(read) >= MinProfileSize
          /\ \E known \in Fetched(read) :
               \/ known = {} /\ Finish(r)
               \/ /\ known # {}
                  /\ requests' = [requests EXCEPT ![r].phase = "cache", ![r].highs = known,
                                                  ![r].missed = Highs(u) \ known]
  /\ UNCHANGED <<stores, starts, torn>>

CacheCentroid(r) ==
  LET q == requests[r] IN
  /\ At(r, "cache")
  /\ centroids' = [centroids EXCEPT ![q.user] =
       [cached |-> TRUE, highs |-> q.highs, missed |-> q.missed]]
  /\ Finish(r)
  /\ UNCHANGED <<ratings, userRatings, aggregates, collections, index, starts, torn>>

-----------------------------------------------------------------------------
(* A call fails, or the process dies, or the memory is no longer there:    *)
(* what was written stays, the rest is not done.                           *)

BreakOff(r) ==
  LET q == requests[r]
      gone == ~(q.memory \in index /\ Exists(q.memory)) IN
  /\ \/ Failing /\ q.kind # "none"
     \/ gone /\ q.phase \in {"fetch", "aggregate"}
  /\ Tear(IF q.phase \in {"user", "fetch", "aggregate"} THEN {q.memory} ELSE {},
          IF q.phase \in {"aggregate", "invalidate"} THEN {q.user} ELSE {},
          IF q.phase = "user" THEN {<<q.memory, q.user>>} ELSE {})
  /\ Finish(r)
  /\ UNCHANGED <<stores, starts>>

RatingStep(r) ==
  \/ ReadRating(r) \/ WriteMemoryRating(r) \/ WriteUserRating(r) \/ WriteAggregates(r)
  \/ InvalidateCentroid(r) \/ FetchAggregates(r) \/ ComputeCentroid(r) \/ CacheCentroid(r)
  \/ BreakOff(r)

Next ==
  \E r \in Requests :
    \/ \E u \in Users, m \in Memories :
         (\E stars \in Stars : Rate(r, u, m, stars)) \/ Retract(r, u, m)
    \/ \E u \in Users : Recommend(r, u)
    \/ RatingStep(r)

Spec == Init /\ [][Next]_vars

-----------------------------------------------------------------------------
(* Properties.                                                             *)

Busy(m) == \E r \in Rating : requests[r].memory = m
BusyPair(m, u) == \E r \in Rating : requests[r].memory = m /\ requests[r].user = u
BusyUser(u) == \E r \in Running : requests[r].user = u

\* The sum and the count on a memory are those of the ratings stored under it, when no
\* request is at work on it, none broke off and no two met: re-rating, retracting and
\* rating again neither drift nor double count.
AggregatesMatch ==
  \A m \in Memories \ torn.memories :
    ~Busy(m) =>
      /\ aggregates[m].sum = MapThenSumSet(LAMBDA u : ratings[m][u], Users)
      /\ aggregates[m].count = Cardinality({u \in Users : ratings[m][u] # 0})

\* The two documents of a rating agree; requests of other users for the same memory,
\* which lose one another's aggregates, cannot part them.
IndexesAgree ==
  \A m \in Memories, u \in Users :
    (<<m, u>> \notin torn.pairs /\ ~BusyPair(m, u)) => userRatings[u][m] = ratings[m][u]

\* A cached centroid knows of every memory its user has rated high: it is made of it, or its
\* own computation missed it, its vector not fetched or the rating beyond the cap.  No high
\* rating given since is left out, and lost for as long as the centroid lives, unless requests
\* of the user met or one broke off before invalidating.  One that was lowered or retracted
\* may still be in.
CentroidKnowsHighs ==
  \A u \in Users \ torn.users :
    (centroids[u].cached /\ ~BusyUser(u)) =>
      Highs(u) \subseteq centroids[u].highs \cup centroids[u].missed

=============================================================================

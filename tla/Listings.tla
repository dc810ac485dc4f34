------------------------------- MODULE Listings -------------------------------
(***************************************************************************)
(* Reading a collection, or several, page by page: the listings of         *)
(* MemoryService over the user's own collection, and those of SpaceService *)
(* over the published copies, which are fetched from every collection,     *)
(* deduplicated, merged and cut.  Each page is a request of its own, with  *)
(* an offset; what is listed may change between two pages.                 *)
(*                                                                         *)
(* All copies of a memory have the same UUID and original_memory_id        *)
(* (module Publication), so a memory stands for both.                      *)
(***************************************************************************)
EXTENDS Integers, FiniteSets, Sequences, SequencesExt

CONSTANTS
  Memories,    \* the memories that match the filters of the listing
  Sources,     \* the sequences of collections that readers of published memories ask for
  Public,      \* Memory_spaces_public
  Friends,     \* the collections of friends
  Precedence,  \* all collections, the one whose copy is preferred first
  Order,       \* Order[f][m]: how far back a query sorted by f has m
  Near,        \* the memories not below MIN_SIMILARITY
  Blocked,     \* the memories of users the reader blocked
  TimeSlices,  \* the memories by when they were made, as buildGradedSlices parts them
  Count,       \* Count[m]: relationship_count
  GradedDensitySlices, \* the counts as buildGradedDensitySlices parts them
  DensityBuckets, \* DENSITY_BUCKET_COUNT
  MinSlice,    \* the least that is searched for in every slice
  SearchLimit, \* SEARCH_LIMIT of byMyRatingsSearch
  Limits,      \* the page sizes that readers ask for
  Ratio,       \* DISCOVERY_RATIO
  MaxWrites,   \* bound: changes to what is listed while a reader reads
  MaxPages     \* bound: pages read

Fields == {"score", "created_at", "relationship_count", "rating_bayesian",
           "sort_field", "curated_score", "distance", "rated_at"}

\* The user's own collection.
Own == "own"

ASSUME ListingsAssumption ==
  /\ IsFiniteSet(Memories)
  /\ Public \in ToSet(Precedence) /\ Friends \subseteq ToSet(Precedence) \ {Public}
  /\ Own \notin ToSet(Precedence)
  /\ Precedence \in Seq(ToSet(Precedence))
  /\ Sources \subseteq Seq(ToSet(Precedence)) \ {<<>>}
  /\ Order \in [Fields -> [Memories -> Nat]]
  /\ \A f \in Fields : IsInjective(Order[f])
  /\ Near \subseteq Memories
  /\ \A m \in Near, x \in Memories \ Near : Order["distance"][m] < Order["distance"][x]
  /\ Blocked \subseteq Memories
  /\ TimeSlices \in Seq(SUBSET Memories) /\ UNION ToSet(TimeSlices) = Memories
  /\ Count \in [Memories -> Nat]
  /\ \A m, x \in Memories : Count[m] > Count[x] =>
       Order["relationship_count"][m] < Order["relationship_count"][x]
  /\ GradedDensitySlices \in Seq(SUBSET Nat)
  /\ \A m \in Memories : Count[m] \in UNION ToSet(GradedDensitySlices)
  /\ \A i, j \in DOMAIN GradedDensitySlices :
       i # j => GradedDensitySlices[i] \cap GradedDensitySlices[j] = {}
  /\ DensityBuckets \in Nat \ {0}
  /\ MinSlice \in Nat /\ SearchLimit \in Nat
  /\ Limits \subseteq Nat \ {0}
  /\ Ratio \in Nat \ {0}
  /\ MaxWrites \in Nat /\ MaxPages \in Nat

VARIABLES
  held,    \* held[c]: the memories that collection c has of those that match
  marked,  \* those with enough ratings (byDiscovery), with a curated score
           \* (byCurated, with a query or not), or rated by the reader
           \* (byRecommendation, byMyRatings)
  reader,  \* what is read, how far, and what was shown
  writes   \* changes so far

vars == <<held, marked, reader, writes>>

\* byCuratedSearch is byCurated with a query.  (byDiscovery with one has another
\* Order, that of relevance, in its pools.)
OwnListings == {"search", "byTime", "byDensity", "byRating", "byProperty", "byBroad",
                "byDiscovery", "byRecommendation", "byCurated", "byCuratedSearch",
                "byTimeSlice", "byDensitySlice", "byDensitySliceAsc",
                "byMyRatings", "byMyRatingsSearch"}
SpaceListings == {"search", "byTime", "byRating", "byProperty", "byBroad", "byCurated",
                  "byCuratedSearch", "byDiscovery", "byRecommendation"}

\* Only search looks at friends.
Reads(listing, cols) ==
  IF cols = <<Own>> THEN listing \in OwnListings
  ELSE /\ listing \in SpaceListings
       /\ ToSet(cols) \cap Friends = {} \/ listing = "search"

UsesMarks(listing, cols) ==
  \/ listing \in {"byDiscovery", "byRecommendation", "byMyRatings", "byMyRatingsSearch"}
  \/ (listing \in {"byCurated", "byCuratedSearch"} /\ cols = <<Own>>)

-----------------------------------------------------------------------------
(* Queries and pages *)

Smaller(a, b) == IF a < b THEN a ELSE b
Larger(a, b) == IF a > b THEN a ELSE b

Slice(s, offset, limit) == SubSeq(s, offset + 1, Smaller(offset + limit, Len(s)))

\* The memories in groups, the least group first, and within a group as a query
\* sorted by f returns them: the k-th has k - 1 ahead.
Ahead(group, f, m) ==
  {x \in DOMAIN group : \/ group[x] < group[m]
                        \/ (group[x] = group[m] /\ Order[f][x] < Order[f][m])}

Arranged(group, f) ==
  [k \in 1..Cardinality(DOMAIN group) |->
     CHOOSE m \in DOMAIN group : Cardinality(Ahead(group, f, m)) = k - 1]

OneGroup(S) == [m \in S |-> 1]

Sorted(S, f) == Arranged(OneGroup(S), f)

\* What the store finds for a query sorted by f with a limit.
Top(S, f, limit) == {m \in S : Cardinality(Ahead(OneGroup(S), f, m)) < limit}

\* Slip: places for the new are only kept once the proven are exhausted.
InterleaveProvenFirst(rated, discovery) == rated \o discovery

\* interleaveDiscovery: every (Ratio+1)-th place is for the discovery pool; when
\* one pool is exhausted the other has the rest.  So the first p places have one
\* of the discovery pool for every Ratio + 1, and as many more as the rated lack,
\* unless there are fewer.
InterleaveDiscovery(rated, discovery) ==
  LET new(p) == Smaller(Len(discovery), Larger(p \div (Ratio + 1), p - Len(rated)))
  IN [p \in 1..(Len(rated) + Len(discovery)) |->
        IF new(p) > new(p - 1) THEN discovery[new(p)] ELSE rated[p - new(p)]]

-----------------------------------------------------------------------------
(* The user's own collection (MemoryService, and RatingService.byMyRatings) *)

\* The store sorts, skips and cuts.
StorePage(f, offset, limit) == Slice(Sorted(held[Own], f), offset, limit)

OwnSearch(offset, limit) == StorePage("score", offset, limit)
OwnByTime(offset, limit) == StorePage("created_at", offset, limit)
OwnByDensity(offset, limit) == StorePage("relationship_count", offset, limit)
OwnByRating(offset, limit) == StorePage("rating_bayesian", offset, limit)
OwnByProperty(offset, limit) == StorePage("sort_field", offset, limit)
OwnByBroad(offset, limit) == StorePage("created_at", offset, limit)

\* Both pools are fetched from the start, merged and cut.
OwnByDiscovery(offset, limit) ==
  LET fetchLimit == (limit + offset) * 2 IN
  Slice(InterleaveDiscovery(
          Sorted(Top(held[Own] \cap marked, "rating_bayesian", fetchLimit), "rating_bayesian"),
          Sorted(Top(held[Own] \ marked, "created_at", fetchLimit), "created_at")),
        offset, limit)

\* The nearest are fetched, as many more as the reader has rated, then the rated
\* are left out, and those not near enough.
OwnByRecommendation(offset, limit) ==
  LET nearest == Top(held[Own], "distance", limit + offset + Cardinality(marked)) IN
  Slice(Sorted((nearest \ marked) \cap Near, "distance"), offset, limit)

\* The scored are fetched by their score or, with a query, by relevance, and then
\* sorted by score.  The pool without a score is what the newest few memories,
\* scored or not, leave.
OwnByCurated(by, offset, limit) ==
  LET fetchLimit == (limit + offset) * 2
      newest == Top(held[Own], "created_at", (fetchLimit + 3) \div 4) IN
  Slice(InterleaveDiscovery(
          Sorted(Top(held[Own] \cap marked, by, fetchLimit), "curated_score"),
          Sorted(newest \ marked, "created_at")),
        offset, limit)

\* Every slice is searched for a third of the page and what comes before it.
PerSlice(offset, limit) == Larger((limit + offset + 2) \div 3, MinSlice)

SearchSlices(slices, offset, limit) ==
  UNION {Top(held[Own] \cap slices[i], "score", PerSlice(offset, limit)) : i \in DOMAIN slices}

OwnByTimeSlice(offset, limit) ==
  Slice(Sorted(SearchSlices(TimeSlices, offset, limit), "created_at"), offset, limit)

OfCounts(slices) == [i \in DOMAIN slices |-> {m \in Memories : Count[m] \in slices[i]}]

\* One slice after the other, which share no counts; within a slice, the order is
\* that of the search.
SliceBySlice(S, slices) ==
  Arranged([m \in S |-> CHOOSE i \in DOMAIN slices : m \in slices[i]], "score")

\* Most connected first.
OwnByDensitySlice(offset, limit) ==
  LET slices == OfCounts(GradedDensitySlices) IN
  Slice(SliceBySlice(SearchSlices(slices, offset, limit), slices), offset, limit)

\* Least connected first, by slices of one width up to the highest count.
BuildEvenDensitySlices(maxCount) ==
  LET n == Smaller(DensityBuckets, maxCount + 1) IN
  [i \in 1..n |-> (((i - 1) * (maxCount + 1)) \div n)..((i * (maxCount + 1)) \div n - 1)]

OwnByDensitySliceAsc(offset, limit) ==
  LET densest == Top(held[Own], "relationship_count", 1)
      slices == OfCounts(BuildEvenDensitySlices(Count[CHOOSE m \in densest : TRUE])) IN
  IF densest = {} THEN <<>>
  ELSE Slice(SliceBySlice(SearchSlices(slices, offset, limit), slices), offset, limit)

\* What the reader rated is listed whether it can still be fetched or not; a search
\* goes through the best matches of the collection for those the reader rated.
OwnByMyRatings(offset, limit) == Slice(Sorted(marked, "rated_at"), offset, limit)

OwnByMyRatingsSearch(offset, limit) ==
  Slice(Sorted(Top(held[Own], "score", SearchLimit) \cap marked, "score"), offset, limit)

\* MemoryService returns a page and no more: a reader stops at a short one.
OwnPage(listing, offset, limit) ==
  LET items ==
        CASE listing = "search" -> OwnSearch(offset, limit)
          [] listing = "byTime" -> OwnByTime(offset, limit)
          [] listing = "byDensity" -> OwnByDensity(offset, limit)
          [] listing = "byRating" -> OwnByRating(offset, limit)
          [] listing = "byProperty" -> OwnByProperty(offset, limit)
          [] listing = "byBroad" -> OwnByBroad(offset, limit)
          [] listing = "byDiscovery" -> OwnByDiscovery(offset, limit)
          [] listing = "byRecommendation" -> OwnByRecommendation(offset, limit)
          [] listing = "byCurated" -> OwnByCurated("curated_score", offset, limit)
          [] listing = "byCuratedSearch" -> OwnByCurated("score", offset, limit)
          [] listing = "byTimeSlice" -> OwnByTimeSlice(offset, limit)
          [] listing = "byDensitySlice" -> OwnByDensitySlice(offset, limit)
          [] listing = "byDensitySliceAsc" -> OwnByDensitySliceAsc(offset, limit)
          [] listing = "byMyRatings" -> OwnByMyRatings(offset, limit)
          [] listing = "byMyRatingsSearch" -> OwnByMyRatingsSearch(offset, limit)
  IN [items |-> items, hasMore |-> Len(items) = limit]

-----------------------------------------------------------------------------
(* Published memories (SpaceService) *)

\* What the collections return, one after the other: copies of memories, each with
\* the place of its collection.
FetchAcrossCollections(cols, f, S, fetchLimit) ==
  UNION {{[id |-> m, from |-> i] : m \in Top(held[cols[i]] \cap S, f, fetchLimit)} :
         i \in DOMAIN cols}

Unblocked(objects) == {o \in objects : o.id \notin Blocked}

ShouldPrefer(c, d) ==
  (CHOOSE i \in DOMAIN Precedence : Precedence[i] = c)
    <= (CHOOSE i \in DOMAIN Precedence : Precedence[i] = d)

\* The winner of each source is the copy preferred to the others.  The UUID of every
\* loser is noted and whatever has a noted UUID is left out, which is that of the
\* winner; it is taken from the notes if the winner comes last.
DedupeBySourceId(cols, objects) ==
  {o \in objects : \A p \in objects : p.id = o.id /\ p # o =>
     p.from < o.from /\ ShouldPrefer(cols[o.from], cols[p.from])}

\* search and byDiscovery keep the first object of each UUID beforehand.
DedupePool(objects) == {o \in objects : \A p \in objects : p.id = o.id => o.from <= p.from}

Ids(objects) == {o.id : o \in objects}

FetchLimit(offset, limit) == (limit + offset) * 2

\* Slips: what the fetch left out is forgotten; a page full of fetched memories
\* is taken for a sign of more.
MoreMerged(total, raw, fetchLimit, offset, limit) == total > offset + limit
MorePage(total, raw, fetchLimit, offset, limit) == total > offset + limit \/ raw >= limit

\* There is more when the fetched memories go on behind the page, or when the
\* fetch was cut.
HasMore(total, raw, fetchLimit, offset, limit) ==
  total > offset + limit \/ raw >= fetchLimit

\* What a friends collection returned is not counted.
Search(cols, offset, limit) ==
  LET fetchLimit == (limit + offset) * Len(cols)
      objects == FetchAcrossCollections(cols, "score", Memories, fetchLimit)
      ids == Ids(Unblocked(DedupeBySourceId(cols, DedupePool(objects)))) IN
  [items |-> Slice(Sorted(ids, "score"), offset, limit),
   hasMore |-> HasMore(Cardinality(ids), Cardinality({o \in objects : cols[o.from] \notin Friends}),
                       fetchLimit, offset, limit)]

\* What each collection returns first in one order is sorted in another, or in the
\* same.
SortedListing(cols, by, f, offset, limit) ==
  LET fetchLimit == FetchLimit(offset, limit)
      objects == FetchAcrossCollections(cols, by, Memories, fetchLimit)
      ids == Ids(DedupeBySourceId(cols, Unblocked(objects))) IN
  [items |-> Slice(Sorted(ids, f), offset, limit),
   hasMore |-> HasMore(Cardinality(ids), Cardinality(objects), fetchLimit, offset, limit)]

ByTime(cols, offset, limit) == SortedListing(cols, "created_at", "created_at", offset, limit)
ByRating(cols, offset, limit) == SortedListing(cols, "rating_bayesian", "rating_bayesian", offset, limit)
ByProperty(cols, offset, limit) == SortedListing(cols, "sort_field", "sort_field", offset, limit)
ByBroad(cols, offset, limit) == SortedListing(cols, "created_at", "created_at", offset, limit)
ByCurated(cols, by, offset, limit) == SortedListing(cols, by, "curated_score", offset, limit)

\* Each pool goes on from collection to collection, sorted within each.
DiscoveryPool(cols, objects, f) ==
  LET pool == Unblocked(DedupeBySourceId(cols, DedupePool(objects))) IN
  Arranged([m \in Ids(pool) |-> (CHOOSE o \in pool : o.id = m).from], f)

ByDiscovery(cols, offset, limit) ==
  LET fetchLimit == FetchLimit(offset, limit)
      rated == FetchAcrossCollections(cols, "rating_bayesian", marked, fetchLimit)
      discovery == FetchAcrossCollections(cols, "created_at", Memories \ marked, fetchLimit)
      merged == InterleaveDiscovery(DiscoveryPool(cols, rated, "rating_bayesian"),
                                    DiscoveryPool(cols, discovery, "created_at")) IN
  [items |-> Slice(merged, offset, limit),
   hasMore |-> \/ HasMore(Len(merged), Cardinality(rated), fetchLimit, offset, limit)
               \/ Cardinality(discovery) >= fetchLimit]

\* With enough ratings of the reader to know what to recommend; otherwise this
\* listing is byDiscovery, which is not told who reads: nobody is blocked there.
ByRecommendation(cols, offset, limit) ==
  LET fetchLimit == limit + offset + Cardinality(marked)
      objects == FetchAcrossCollections(cols, "distance", Memories, fetchLimit)
      ids == ((Ids(DedupeBySourceId(cols, objects)) \ marked) \ Blocked) \cap Near IN
  [items |-> Slice(Sorted(ids, "distance"), offset, limit),
   hasMore |-> HasMore(Cardinality(ids), Cardinality(objects), fetchLimit, offset, limit)]

Page(listing, cols, offset, limit) ==
  CASE cols = <<Own>> -> OwnPage(listing, offset, limit)
    [] cols # <<Own>> /\ listing = "search" -> Search(cols, offset, limit)
    [] cols # <<Own>> /\ listing = "byTime" -> ByTime(cols, offset, limit)
    [] cols # <<Own>> /\ listing = "byRating" -> ByRating(cols, offset, limit)
    [] cols # <<Own>> /\ listing = "byProperty" -> ByProperty(cols, offset, limit)
    [] cols # <<Own>> /\ listing = "byBroad" -> ByBroad(cols, offset, limit)
    [] cols # <<Own>> /\ listing = "byCurated" -> ByCurated(cols, "curated_score", offset, limit)
    [] cols # <<Own>> /\ listing = "byCuratedSearch" -> ByCurated(cols, "score", offset, limit)
    [] cols # <<Own>> /\ listing = "byDiscovery" -> ByDiscovery(cols, offset, limit)
    [] cols # <<Own>> /\ listing = "byRecommendation" -> ByRecommendation(cols, offset, limit)

-----------------------------------------------------------------------------
(* The reader and those who change what it reads *)

InSeveral(h) == {m \in Memories : \E c, d \in DOMAIN h : c # d /\ m \in h[c] \cap h[d]}

Listed(h) == UNION {h[c] : c \in DOMAIN h}

\* What the listing has to show.
Owed(listing) ==
  CASE listing = "byRecommendation" -> (Listed(held) \ marked) \cap Near
    [] listing = "byMyRatings" -> marked
    [] listing = "byMyRatingsSearch" -> Listed(held) \cap marked
    [] OTHER -> Listed(held)

FewInEach(slices, h) == \A i \in DOMAIN slices : Cardinality(h[Own] \cap slices[i]) <= MinSlice

\* The listings whose pages fit together.  The others: by curation with a query, as
\* each page sorts by score what is most relevant as far as that page needs; one's
\* own by curation if some memory has no score, as its second pool goes back only as
\* far as the page needs; one by slices, some of which has more than is searched for
\* in each; a search among more than SEARCH_LIMIT for what one rated; one that meets
\* a memory of a blocked user, which takes a place in the fetch and none in the
\* offset; one that deduplicates by source a memory two collections have; a search
\* of one collection of friends, which never says that there is more.
FitsTogether(listing, cols, h) ==
  /\ listing # "byCuratedSearch"
  /\ \/ /\ cols = <<Own>>
        /\ listing = "byCurated" => h[Own] \subseteq marked
        /\ listing = "byTimeSlice" => FewInEach(TimeSlices, h)
        /\ listing = "byDensitySlice" => FewInEach(OfCounts(GradedDensitySlices), h)
        /\ listing = "byDensitySliceAsc" =>
             \A m \in h[Own] : FewInEach(OfCounts(BuildEvenDensitySlices(Count[m])), h)
        /\ listing = "byMyRatingsSearch" => Cardinality(h[Own]) <= SearchLimit
     \/ /\ cols # <<Own>>
        /\ Listed(h) \cap Blocked = {}
        /\ listing \in {"search", "byDiscovery"} \/ InSeveral(h) = {}
        /\ ~ (listing = "search" /\ Len(cols) = 1 /\ ToSet(cols) \subseteq Friends)

Init ==
  \E listing \in OwnListings \cup SpaceListings, cols \in Sources \cup {<<Own>>},
     limit \in Limits :
    /\ Reads(listing, cols)
    /\ held \in [ToSet(cols) -> SUBSET Memories]
    /\ marked \in IF UsesMarks(listing, cols) THEN SUBSET Memories ELSE {{}}
    /\ reader = [listing |-> listing, cols |-> cols, limit |-> limit, offset |-> 0,
                 shown |-> <<>>, ended |-> FALSE, owed |-> Owed(listing),
                 fits |-> FitsTogether(listing, cols, held), grew |-> FALSE, shrank |-> FALSE]
    /\ writes = 0

NextPage ==
  /\ ~ reader.ended
  /\ reader.offset < MaxPages * reader.limit
  /\ \E page \in {Page(reader.listing, reader.cols, reader.offset, reader.limit)} :
       reader' = [reader EXCEPT !.offset = @ + reader.limit, !.shown = @ \o page.items,
                                !.ended = ~ page.hasMore]
  /\ UNCHANGED <<held, marked, writes>>

\* What changes between two pages, and whether it moves memories to later pages
\* or to earlier ones.
Changed(grew, shrank) ==
  /\ writes < MaxWrites
  /\ writes' = writes + 1
  /\ ~ reader.ended
  /\ reader' = [reader EXCEPT
       !.fits = @ /\ FitsTogether(reader.listing, reader.cols, held'),
       !.grew = @ \/ grew, !.shrank = @ \/ shrank]

\* Another highest count parts the counts anew.
Reslices == reader.listing = "byDensitySliceAsc"

\* A memory that comes to a second collection can also move to the front.
Appear(m, c) ==
  /\ m \notin held[c]
  /\ held' = [held EXCEPT ![c] = @ \cup {m}]
  /\ Changed(TRUE, m \in Listed(held) \/ Reslices)
  /\ UNCHANGED marked

Withdraw(m, c) ==
  /\ m \in held[c]
  /\ held' = [held EXCEPT ![c] = @ \ {m}]
  /\ Changed(m \in InSeveral(held) \/ Reslices, TRUE)
  /\ UNCHANGED marked

\* A memory is rated or curated.
Mark(m) ==
  /\ UsesMarks(reader.listing, reader.cols)
  /\ m \notin marked
  /\ marked' = marked \cup {m}
  /\ UNCHANGED held
  /\ Changed(TRUE, TRUE)

Next ==
  \/ NextPage
  \/ \E m \in Memories : \/ Mark(m)
                         \/ \E c \in DOMAIN held : Appear(m, c) \/ Withdraw(m, c)

Spec == Init /\ [][Next]_vars

-----------------------------------------------------------------------------
(* Properties *)

\* Readers, and what they read, keep their shape.
TypeOK ==
  /\ reader \in [listing : OwnListings \cup SpaceListings, cols : Sources \cup {<<Own>>},
                 limit : Limits, offset : Nat, shown : Seq(Memories), ended : BOOLEAN,
                 owed : SUBSET Memories, fits : BOOLEAN, grew : BOOLEAN, shrank : BOOLEAN]
  /\ Reads(reader.listing, reader.cols)
  /\ held \in [ToSet(reader.cols) -> SUBSET Memories]
  /\ marked \in SUBSET Memories
  /\ writes \in Nat

\* A reader of a listing whose pages fit together who was told that there is no
\* more has seen every memory that was there from the beginning, unless one was
\* taken away while it read; and none twice, unless one was added.
PagesCover ==
  reader.fits =>
    /\ reader.ended /\ ~ reader.shrank => reader.owed \subseteq ToSet(reader.shown)
    /\ ~ reader.grew => Cardinality(ToSet(reader.shown)) = Len(reader.shown)

\* Memories few have rated have their share of what a reader of byDiscovery has
\* seen at any time: one of Ratio + 1, as long as there are any.
NewcomersShown ==
  LET new == reader.owed \ marked
      seen == {i \in DOMAIN reader.shown : reader.shown[i] \in new} IN
  reader.listing = "byDiscovery" /\ reader.fits /\ ~ reader.grew /\ ~ reader.shrank =>
    \/ Cardinality(seen) >= Len(reader.shown) \div (Ratio + 1)
    \/ new \subseteq ToSet(reader.shown)

\* A reader who reads on is told that there is no more one page after it has
\* asked for as many memories as the collections together can have.
ReadersFinish ==
  reader.offset >= Cardinality(Memories) * Len(reader.cols) + reader.limit => reader.ended

\* What utils/dedupe.ts says of deduplication, that of every memory it returns the
\* winner, in one collection or several: a reader who was told that there is no
\* more has seen every memory, when nothing changed and nobody is blocked.  The
\* code removes the winner with the loser if the copy that was found first wins
\* (search and byDiscovery, which drop copies beforehand, are spared).
WinnersKept ==
  /\ reader.cols # <<Own>> /\ reader.listing \notin {"search", "byDiscovery"}
  /\ reader.ended /\ writes = 0 /\ Listed(held) \cap Blocked = {}
  => reader.owed \subseteq ToSet(reader.shown)

=============================================================================

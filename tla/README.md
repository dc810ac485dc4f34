# Formal models of remember-core

remember-core is a TypeScript library of services for memories with several
owners and audiences: an owner writes memories into a private collection,
publishes copies into shared collections, links memories by relationships, rates
them, and a background cycle ("REM") clusters, scores, prunes and reconciles
them. Data lives in two stores without a common transaction, Weaviate (memories,
relationships, copies) and Firestore (tokens, jobs, ratings, indices, state).
Every service is a set of `async` methods: between two `await`s anything may run,
another request of the same process or another process. Almost all writes are
computed from an earlier read. That is where the models look.

The modules here are plain TLA+, checked by TLC on small instances and, where a
`_proofs` module says so, proved by TLAPS for every value of the constants.

## Inventory

| Component | State | Operations | What is hard about it | Status |
|---|---|---|---|---|
| Confirmation tokens and guard (`confirmation-token.service`, `confirmation-guard.service`) | one Firestore document per request: status, expiry, secret, failed attempts, cooldown | create, validate, confirm, deny, retract, validateGuard, applyBackoff | check and settle are separate calls; lazy expiry; counters from stale reads | **modelled, proved** |
| Publication (`space.service`, `space-config`, `memory-index`) | source memory's tracking arrays, one copy per collection, one index entry, configuration | publish, retract, revise, confirm, deny, moderate, search, query | many writes from one early read, per-destination failures, swallowed failures, spaces share a copy and a status | partly: one memory and its destinations, without the events it emits; **proved** |
| Feeds and recommendation (`memory.service`, `space.service`, `dedupe`, `discovery`, `search/*-slice*`, `byMyRatings`) | none of their own | every paged listing of one's own and of published memories | each page is fetched, merged and cut anew while memories come and go; copies share a UUID; `hasMore` is guessed | partly: every paged listing, without byRandom and query augmentation; what fits together **proved** |
| Memories (`memory.service`) | memory documents | create, update, delete, trust level (two-phase), counters, listings | whole-object replace of a stale read, lost counters | partly: update and delete, wherever they race another writer; the listings |
| Relationships (`relationship.service`, `relationship-reorder`) | relationship documents, id lists and counts on memories, member order, version | create, update, reorder, delete | lists and counts read, changed, written back; version check not atomic | **modelled, proved** |
| Ratings (`rating.service`) | a rating under the memory and under the user, sum and count on the memory, centroid | rate, retract, recommend | two stores, aggregates from stale reads, a crash in between | **modelled, proved** |
| User deletion (`user-deletion.service`) | everything a user owns | seven steps | failures in the middle, swallowed failures, repetition | **modelled, proved**, on the stores of Ratings |
| Jobs and workers (`job.service`, import, REM and deletion workers) | job documents with status, steps, progress | create, progress, steps, complete, cancel, cleanup, each worker's execute | unconditional and check-then-act status writes, late cancellation, calls outside a `try` | **modelled, proved** |
| Access control, escalation, ghost configuration (`access-control`, `escalation`, `ghost-config`) | configuration with block list and trust overrides, attempts and blocks per accessor and memory | check, block, unblock, trust, fields, reset | lost increments, late blocks, defaults after failing reads, read-modify-write of lists, updates that replace them whole | access and escalation modelled, the configuration partly, without what a trust level shows; **proved** |
| Follow-up scheduler (`follow-up-scheduler.service`) | follow-up date, notified mark and failure count on memories | scan | emit, then mark; overlapping scans; edits that replace the memory whole; a query of limited size | **modelled, proved** |
| Webhooks (`batched-webhook.service`, `webhook.service`) | buffers and timers per destination | emit, flush, dispose | flushes that overlap, loss after failure | **modelled, proved** |
| REM cycle (`rem.service`, `rem.state`, `rem.clustering`, ...) | cursor, registry | score, cluster, create or merge, phases | order of phases, early ends, the cost cap, edits meanwhile | partly: control, without what is found |
| REM phases (classification, pruning, reconciliation, ...) | decay, deletion marks, genre index | one batch per cycle | starvation behind exempt memories | partly |
| Ghost mood (`mood*.service`) | one mood document per user and ghost | addPressure, update | pressures against decay, two writes of one read | partly; the pressures **proved** |
| Import (`import.service`, extractors) | none of its own | chunk, summarise, link | partial imports | the worker that drives it is in Jobs |
| Re-evaluation triggers | scores | three triggers | a model call between read and write | not modelled |
| Scoring, moderation, classification, duplicates | caches | score, classify | language-model calls, floating point | not modelled |
| Preferences, reports, stores, ids, facades, clients, support code | little or none | wrappers | none | not modelled |

How they interact. `SpaceService` and `MemoryService` write the same source
memory. `SpaceService` and `MemoryService` create confirmation tokens and run an
operation when one is confirmed. The index maps a copy's UUID to a collection for
everything that is given a bare id (ratings, relationships, resolving copies).
Ratings, relationships, the scheduler, REM and its triggers all write properties
of memories. Workers drive the import, the REM cycle and the deletion and report
through jobs. Services emit events to an event bus, which the webhook service
implements. Ghost services read access control, trust and mood. The facades in
`app/` and `web/` call the services and keep no state.

What makes each correct: an operation runs at most once per token; a destination
lists what was last asked of it; a memory's links, count and relationships agree
once nobody is writing, and an order stays a permutation of the members; a memory's
rating sum and count are those of the rating documents; the number of failures
before a block is the configured one, and a block stays; a follow-up is reminded of,
and without failures once; a deletion that reports success has left nothing on the paths it
goes through; an insignificant memory is pruned by a cycle that keeps running; an envelope is in
exactly one batch per destination; a reader who went through all pages has seen
everything, once.

## Modules

| Module | What it is |
|---|---|
| `OneTimeToken` | What a token promises: unissued, open, then used at most once or closed. |
| `ConfirmationTokens` | The two token services, every store call a step, overlapping handlers. |
| `MC_ConfirmationTokens` | TLC instances. |
| `PublicationRegistry` | What publishing promises: a destination lists the memory from a publication that names it until a retraction that names it; nothing else changes that. |
| `Publication` | `SpaceService` for one memory, with `MemoryService.update` and a moderator. |
| `MC_Publication` | TLC instances. |
| `Publication_proofs` | Types, existence of copies, moderation of groups and revision histories, groups and friends as a registry, under overlap, failures and crashes. Without these the spaces are one too, and tracking and reports are right. Then the theorems about `ConfirmationTokens`, whose tokens publications wait for. |
| `Jobs` | `JobService` and its three workers, one job, call by call. |
| `MC_Jobs` | TLC instances. |
| `Jobs_proofs` | Theorems about it. |
| `MemberOrder` | The order of a relationship's members and the five reorderings, as operators. |
| `Relationships`, `MC_Relationships` | `RelationshipService` on one user's collection, beside `MemoryService.update` and `delete`; extends `MemberOrder`. |
| `Relationships_proofs` | Theorems about both. |
| `Ratings` | `RatingService` and the cached centroids, two stores. |
| `UserDeletion`, `MC_UserDeletion` | `UserDeletionService` on the stores of `Ratings`, beside its requests. |
| `UserDeletion_proofs` | Theorems about it and about `Ratings`. |
| `GhostAccess`, `MC_GhostAccess` | The ghost configuration, the escalation records and the check that reads both. |
| `GhostAccess_proofs` | Theorems about it. |
| `BatchedWebhook` | The event bus: buffers, timers, batches. |
| `FollowUps`, `MC_FollowUps` | The scheduler over that bus. |
| `FollowUps_proofs` | Theorems about the reminders and about the bus. |
| `RemCycle`, `MC_RemCycle` | The REM cycle of one collection with its mood, beside a user who edits. |
| `RemCycle_proofs` | Theorems about its types and the pressures. |
| `Listings`, `MC_Listings` | A reader of a listing, page by page, beside those who change it. |
| `Listings_proofs` | Theorems about what it is shown. |

### ConfirmationTokens and the code

`documents[t]` is the Firestore document of token `t`, `call[c]` a handler between
its store calls: which token, what it wants, and the document as it read it.
`validateToken` is a query (`ValidateMiss`, `ValidateExpired`, `ValidateHit`)
followed, in its caller, by an unconditional `updateStatus` (`Settle`) or by the
expiry mark (`WriteExpired`). With the guard configured the handler first runs
`validateGuard` (`GuardCooldown`, `GuardPass`, `GuardMismatch`) and after a wrong
secret `applyBackoff` (`ApplyBackoff`, whose fields are computed from the document
read at the beginning). `Execute` is the operation the token stands for. Time is a
counter; a handler may die between any two steps (`Die`). The specification is `TokensSpec`.

### Publication and the code

`source` is the owner's memory (its three tracking fields and its content),
`copies[c]` the copy in collection `c`, `index` the one entry `memoryIndex` keeps
for the copies' UUID, `requests[r]` a request from its creation to its end, `edit`
a running `MemoryService.update`. `RequestPublish`, `RequestRetract` and
`RequestRevise` are phase 1 with its validation. `Confirm` starts phase 2: the
source is read **once** into `snap`. Then each collection is visited: `FetchCopy`,
`WriteCopy`, for a publication `IndexCopy`. `FetchFails`, `WriteRejected`,
`WriteFails` (which may have written) end a visit without success, as each
destination's own `catch` does. `Track` writes the tracking arrays, computed from
`snap` and the successful visits, and reports; its failure is swallowed, as in
the code. `Crash` ends phase 2 at any point.

Details kept because properties depend on them: the copy in the public collection
is shared by all spaces; `space_ids` is written from `snap`, not from the copy;
`spaces` is another property, which a retraction leaves alone; a retraction from
friends deletes the copy, one from a space or group only removes the id; a
publication takes a failing fetch for a missing copy; a missing configuration, or
one that cannot be read (`ConfigFaults`), means no moderation; an update of a copy merges.

Abstracted: contents are model values, of which `Acceptable` says whether
moderation lets them through; ids of memories and owners (one memory, one owner:
requests for different memories touch different documents); permission checks,
which only refuse; comments, timestamps, webhook events. The fetch of a copy asks
for a list of properties and falls back to asking for all; it is modelled as
returning all that is written back. `retracted`, `announced`, `reviewed` and
`clear` are history, read by properties only.

Two traces a retraction leaves are in the model although no property is about
them: `spaces` keeps the retracted space, and `Visible` stays true of a group's
copy whose `group_ids` was emptied (see Divergences).

### Jobs and the code

`job` is the job's document, `worker` the worker's place in `execute` and its
local variables, `memories`, `parents`, `links` and `worked` what the worker has done
outside the document, `request` a client's cancellation on its way. The import worker
registers a step for each chunk (`AddStep`) and goes around once per chunk:
`IsCancelled`, `MarkRunning`, `CreateChunk`, `CompleteStep`, `ReadProgress`,
`WriteProgress`. Its summaries follow (`CreateParent`, `LinkChunk`), then
`FinishImport` and `Complete`. The REM and the deletion worker register their
fixed steps, mark the first one running, report progress, ask once whether the job
is cancelled, do all their work in one call (`Work`), report the steps completed one
by one and then complete the job. `ReadProgress` and `WriteProgress` are the two store calls of
`updateProgress`: the status it writes is *running* unless what it read was *cancelled*. `Complete` and
`Cancel` write whatever the status is by then, and a cancellation may land at any moment, between
those two calls and after `Complete` as well. A client whose cancellation was lost may send another.

Errors are where the workers differ. `Failing` names the calls that may reject.
Inside a chunk a rejection is caught and the step reported failed
(`CreateChunkFails`, `CompleteStepFails`, `FailStep`); the other two workers have one
`try` from the cancellation check on (`Guarded`, `Catch`), which also holds the emit
of the deletion's event (`Emit`); everything else rejects `execute`
(`Unguarded`, `Abort`), as the end of the process does.

Abstracted: a chunk is a number and an item the summary it belongs to; progress
percentages, timestamps, result payloads and messages; what `runCycle` and
`deleteUserData` do inside their call; `addStep` and `updateStep`, each a read and a
write of the steps array, are single actions, because only the worker writes that
array. The job's time to live, counted in hours from its end, is taken to
outlast the worker. `late` (the chunks made while the job said cancelled) and `undone` (the status
the last cancellation overwrote) are history.

### Relationships and the code

`memories[m]` holds what `RelationshipService` writes of a memory (the ids of its
relationships, their count, `deleted_at`), `relationships[r]` a relationship with its related
ids, member count, order and version. A request is accepted together with its first read
(`CreateRelationship`, `UpdateRelationship`, `Reorder`, `DeleteRelationship`,
`EditMemory` for `MemoryService.update` and `delete`). It writes the relationship
(`Insert`, `Write`, `Drop`) and then, or for a deletion before, the memories. The calls on memories
are `tasks`, performed in any order (`Perform`: `LinkMemory`, `UnlinkMemory`,
`CutMemory`, `ReadCount`, `SetCount`, `ReplaceMemory`), since the code starts them with
`Promise.all` or lets them race; `later` are those that wait for all of the former to
settle. `TaskFails` is a failing call, which the code swallows or not according to the
operation. The five reorderings (`move_to_index`, `swap`, `set_order`, `move_before`,
`move_after`) are the operators of `MemberOrder`, compared there with what each says it does
(`Meant`). Of `move_to_index` that is where the member goes only if the stored positions have no gaps
(`Dense`); with gaps it goes somewhere else, and `Meant` claims no more than that the others keep
their order.

`torn` is history: the memories and relationships for which two requests met or a call
failed. A memory is torn as well when a request works on it for a relationship that is torn:
such a relationship may list what it should not, or not what it should, and an update that
adds a memory a second time counts it a second time. The properties speak of the others. Left out: ids named twice in one request and
negative indices, which make no sense to ask for; reads that run in one `Promise.all` are one
read.

### Ratings, UserDeletion and the code

A rating is kept three times: under the memory, under the user and in the memory's sum
and count, which live in the other store. `Rate` begins a request, `ReadRating`,
`WriteMemoryRating`, `WriteUserRating`, `WriteAggregates` and `InvalidateCentroid` are
its calls; `Retract` takes the same way with a deletion in place of the writes. `Recommend`,
`ComputeCentroid` and `CacheCentroid` are the reading side of the cached
preference centroid: at most `VectorFetchCap` of the user's high ratings are read, those whose memory
is gone or not in the index are passed over, the vectors of a collection whose fetch fails are left
out, and what is left is cached. `missed` keeps which high ratings a computation did not know, whatever
the reason. `BreakOff` is a failing call or a process that dies.

`UserDeletion` works on the same variables and adds the registry, the user's other
documents and `deletion`: the step it is at, the items the step still has to do, and whether
an error was noted. Each step lists its
items and works them off one by one; the error of an item is noted (`Note`) or, for the
rating under a memory, swallowed, as in the code. `Die` ends the call, `Call` may repeat it. The
leaving user sends no new requests once the deletion has begun; those already running
go on. The pages of one query are one read. `Documents` are the other documents kept of a user and
`Paths` those the service deletes. `ghost_escalation`, templates, user reports, confirmation
requests and the mood are documents outside `Paths`; the instance has one of them.

### GhostAccess and the code

`config` is the ghost configuration of one owner, `records[p]` the escalation document of an
accessor and a memory. `Check`, `GetBlock`, `GetAttempts`, `Increment`, `SetBlock` are the
store calls of `checkMemoryAccess` for someone who is not the owner; `RemoveBlock` is
`resetBlock`. `SetUserTrust` and `ChangeBlock` read the configuration (or, when that fails,
take the default for it) and compute what `WriteConfig` writes by a merge: key by key for
the map of overrides, as a whole for the list. `SetConfigFields` is an update of
any fields, unread: it replaces the list and the map whole if it names them, which ends what was
torn of them unless a request that read before is about to write. Trust
levels are compared, not graded: what a level makes visible of a memory is formatting.
`meant` is what the owner's requests amount to, `denials` the refusals since the last reset.
Only the Firestore store of escalations is modelled.

### FollowUps, BatchedWebhook and the code

`BatchedWebhook` has a buffer and a timer per destination. `Emit` puts the event into the
buffers of its owner's destinations and flushes those that are full; `Fire` is a timer,
`Answer` the end of a delivery, well or badly, `Dispose` flushes everything, `BusDies`
loses what is buffered. `owed` is the history that makes losses visible; `Places` and `Sent` are the places of an event
in buffers and batches, and their number is what is compared with it. `WebhookService` is
the same with batches of one. `FollowUps` runs scans over it: `StartScan` and
`QueryNotified` are the two queries, each limited to a page, `EmitReminder`, `Mark` and
`Count` what is done for each memory found. A scan works from what the query returned. The second query takes
the first page of all memories that were notified, in the order of the store (`Rank`), and only then
leaves out those not due again. `StartEdit` and `FinishEdit` are `MemoryService.update`: it reads the
memory and later replaces it by what it read and the fields it changes, whatever was written in between.
The properties it asks for do not include the three of a reminder, so what it writes back of them is
nothing, unless that query failed and it fell back to asking for all. A new date may be any, past ones
included. `Tear` records the edits after which a date may come again (`twice`) or not at all (`never`).

### RemCycle and the code

`cycle` is the place of `runCycle` among its phases and what it read there, `mem[m]` what the
phases keep of a memory (touched, significance, tension, decay, deletion), `index` the genre
index, `mood` the drifted dimensions and the pressures. What the model answers is
arbitrary (`Answers`, `Contradictions`). Each phase takes the oldest or lowest few
memories (`Unscored`, `Unclassified`, `PruningCandidates`). `FindNothing` is the early
return without clusters, which skips pruning and reconciliation. A failing call skips an
item or ends a phase (`CallFails`), an uncaught one the cycle (`Crash`). Scoring stops when the cycle has
paid for `CostCap` memories; a scoring that fails costs nothing. One pressure stands for the several a
scored memory may add one after the other. Reconciliation touches any memories, one update at a
time, if there is a tense one. What a cycle itself writes (abstractions, reconciliation notes)
is inserted as touched and without a significance, so neither scoring nor the pruning query finds it,
and the filter on content type that follows that query has nothing to leave out. `StartEdit` and
`FinishEdit` are an update or a deletion by the user, which replaces the whole object.
A threshold memory of the mood is one more memory that is created.
Left out: what is clustered, abstraction, curation, and the cursor, which
chooses which candidates are clustered and nothing else here.

### Listings and the code

`held[c]` are the memories in collection `c`, `marked` those that were rated or scored since, `reader`
a reader with its listing, its page size, what it has been shown and whether it was told that
there is more. `NextPage` calls the listing with the next offset. Each listing is an operator
from the collections, an offset and a limit to a page and `hasMore`: `OwnPage` for the private
collection, `Page` for published ones, with the fetch enlarged, merged, sorted, relieved of blocked
users, deduplicated and cut as in the code. What a query finds is a set (`Top`), what the code sorts
is a set arranged by how many go before (`Arranged`), and its two loops are modelled by what they
compute: `InterleaveDiscovery` says which memory is at which place, `DedupeBySourceId` which copies
are left, the last one if it is preferred to all others and otherwise none. `Appear`, `Withdraw` and
`Mark` are the changes made while somebody reads. `FitsTogether` names the listings and
collections whose pages can be expected to cover what was there all the time; the
circumstances it excludes are the ones listed under Divergences.
Similarity and the order of a property are given (`Order`, `Precedence`); `Near` are the memories whose
similarity is not below the minimum of the recommendations. byCurated with a query (`byCuratedSearch`)
fetches by relevance what the page needs and sorts that by score. The fallback of the recommendations over
published memories, byDiscovery, is not told who reads, so nobody is blocked in it. Left out: byRandom;
the relationships that a slice search finds beside memories; byMyRatings over several collections.

## Runs

| Run | Instance | Shows |
|---|---|---|
| `tokens_concurrent` | 1 token, 2 overlapping handlers, guard, 3 ticks | what holds although check and write are separate: pending requests have attempts left, settled ones stay settled, late handlers settle nothing, settlements fall in the window |
| `tokens_serial` | 2 tokens, 1 handler | the service implements `OneTimeToken`, and the failure limit holds |
| `publication_serial` | 2 spaces, 1 group, friends, 1 request at a time, no failures | destinations stay independent, tracking and reports are right, the service implements `PublicationRegistry` |
| `publication_concurrent` | 1 moderated group, friends, 2 contents, 2 requests, an editor and a moderator overlap, failures, crashes, at most 3 executions | tracked groups have copies; nothing is shown in the group before a moderator approved it; revisions keep what they replace unless another request to the same copy overlaps; groups and friends change only by requests that name them |
| `jobs_workers` | one job of each type, at most 3 chunks of 2 items, 2 steps, every call may fail, cancellations land anywhere and are sent again where they were lost | what the job says agrees with what was done; only the window of `updateProgress` ever undoes a cancellation; at most one chunk is made while the job says cancelled; a worker that is not cut short ends its job |
| `relationships_overlapping` | 3 memories, one of them foreign, 2 relationship ids, 2 requests, every call may fail | links, counts and orders agree where no requests met and no call failed; each reordering does what it says, `move_to_index` in an order without gaps |
| `ratings_deletion` | 2 users, 2 memories, one high and one low rating, at most 1 vector read, one document inside and one outside the deletion's paths besides permissions, 2 requests and calls of a deletion, every call may fail | the copies of a rating agree where nothing met or broke off; a cached centroid knows every high rating its own computation did not miss; a deletion that reports success has left nothing on the paths it goes through and everything on the others |
| `access_overlapping` | 2 accessors, 1 memory, limit 3, 2 overlapping requests of at most 4, updates of the settings, the list or the overrides, every call may fail | blocks come neither early nor late and stick; checks follow the policy |
| `followups_delivery` | 2 scans, 2 memories, the first without destination, batches of 2, pages of 1, 1 edit, 1 failure, 2 ticks | every date that comes is reminded of but behind a page that others fill for ever, once unless something met, failed or took the mark away; the mark of a scan silences no date; the bus accounts for every event |
| `rem_cycles` | 2 memories, a scoring batch of 2 that is paid for by 1, other batches of 1, 1 edit, 1 fault, cycles without end | every pressure moves the mood exactly until it has faded; what is insignificant is pruned in the end |
| `listings_paging` | 4 memories, 5 arrangements of collections, page sizes 1 and 2, one memory below the minimal similarity, one change while reading | pages that fit together cover what was there; newcomers have their share; every reader comes to an end |
| `listings_vanishing` (violation) | the same | a memory in two collections is on no page |

Bounds and why they are enough. Two handlers of one token show every race, since
all handlers are alike and a third could only repeat what one of them did. The
clock runs one tick past expiry. Two spaces are what it takes for one copy to be shared; groups have a copy
each, so one group and the friends collection show two independent copies. Two
requests and an update are all kinds of writers the source has. In instances with
overlap `MaxStarts` bounds the requests or executions that may start (they may overlap in any
way); instances without overlap need no such bound: their state space is finite
and all sequences of requests are covered, of any length.

Three chunks of two items are a first, a middle and a last step and an item with one
chunk and one with two. Two steps stand for the seven of the REM cycle and the
deletion: the loop over them has a first, a last and a successor, and the theorems
hold for any number. Cancellations are not bounded: one may be sent whenever the job
is seen unfinished and none is on its way.

The relationships instance starts from any stored relationship over its three memories,
legacy ones without an order included, so two requests stand for the last two of any history in
which nothing was torn before; what a torn past does to a third request is left to the theorems, which
bound no number.
The deletion has one collection of the leaver's and one of another user's, one memory in
each, and one rating on either side of the centroid's threshold; with two high ratings and one read, the
cap leaves one out. A limit of three denials and
four requests reach the limit and go one beyond. Two ticks let a date pass, be
moved and pass again; of two memories and pages of one, each may stand before the other; one edit is
of the memory whose reminders are delivered, which is the later one in the store's order. Two memories and batches of one are what it takes for one memory to stand in the way of
another; a scoring batch of two with a cap of one lets the cap be reached, and with a failure the second
memory be scored instead. Four memories
with pages of one and two give listings of up to four pages; `MaxPages` is beyond the last page of
every listing, which `ReadersFinish` confirms.

Where `MaxStarts` or `MaxCalls` stops an instance, or the reader its reading, the configuration
switches the deadlock check off, and in that of `Jobs`,
where a job that has ended and been cleaned up is the end; nowhere else.
Requests, tokens and handlers are interchangeable and symmetry is used in runs
without liveness.

Fairness. Tokens and publication promise no progress (a request may never be
confirmed, a process may die), so their specifications assume none and their
properties are safety and refinement of safety specifications; the same goes for
relationships, ratings and access. `Jobs` has weak
fairness of `Execute` alone: a worker that was started goes on from one `await` to the
next, since the event loop resumes it when the call has settled. Clients, the cleanup
and failures are not fair. A worker that dies or whose `execute` rejects is `Abort`,
which ends its part in `Execute`. `FollowUps` has weak fairness of each scan (a timer starts
one every minute, and what runs goes on) and of the bus (timers fire, deliveries are
answered or time out). `RemCycle` has weak fairness of the cycle, which a timer starts, and of the
end of an edit. That a cycle finds clusters or that no fault comes is not assumed: `PrunedInTurn` is
conditional on cycles that reach pruning again and again and on fewer tense memories ahead
than a query returns, which is when the code can keep its promise. The end of reading is no
liveness property but an invariant (`ReadersFinish`): the reader, if it reads on, is
told that there is no more before `MaxPages`.

## Proofs

Assumptions on constants are named in the modules (`NamesAssumption`,
`ValuesAssumption`): names of different things differ, sets are subsets of what
they should be. Nothing is assumed about sizes: sets may be infinite but where something is
counted or summed over them, which the code does over arrays and query results (`Users` and
`Memories` of `Ratings`, `Memories` and `Ids` of `Relationships`, `Urls` of `BatchedWebhook`
are finite, and of any size, and so is `Memories` of `Listings`). Only those whose elements are chosen from (contents, accessors,
memories) must not be empty. `FollowUpsAssumption` has time last for one tick at least.
`ListingsAssumption` says of the orders of queries that no two memories share a place (the store
breaks ties in some way, and the same way for every page), of the query for the densest memory
that it returns one with the highest count, and of the graded slices that they share no count and leave none out
(the time slices may overlap, and do).

`Publication_proofs`, the tokens. Types; that a pending request has attempts left
(because the number written is computed from a read of the same request, whose
number never exceeded the limit while it was pending); that late calls never
settle; that settled requests stay settled; that settlements fall in the window; and,
for one handler at a time, the refinement of `OneTimeToken` and the limit of failures. The
inductive invariant carries what a handler read from its read to its write; with one handler
that read is still true at the write, so the counter of the document is the number of
attempts that were charged (`ChargedInv`).

`Publication_proofs`. `TrackedHasCopy` is not inductive: `Track` writes arrays
computed from `snap`, an update writes back what it read. The invariant `IInv`
therefore says of **every image** of the source (the document, each request's
`snap`, the editor's copy) that the spaces and groups it tracks have copies, of
every collection counted as a success or about to be indexed that it has one, and
of every visit that the request named it. Copies outside friends are never
deleted, so images stay true however old they are: that is the argument, and why
overlap, failures and crashes do no harm here.

Two more theorems rest on it. `ModeratedGroupsReviewed` (for `~ ConfigFaults`): every
publication of a group with moderation writes *pending* and forgets the review, in one
write, and only a moderator writes *approved*. `RevisionsKeepContent`: requests that run at
the same time have taken each other's destinations out of `clear` (`OnRecord`); so whoever
writes the copy an undisturbed revision is at is that revision itself (`WritersKnown`), and
what it read is what is there (`AsRead`). The content it puts into the history
is therefore the one it replaces. It needs a history of at least one entry.

`Publication_proofs`, the registry. Each step is, to a registry over some destinations,
the beginning or the end of a request, a write to one collection or nothing
(`RegistrySteps`); and outside the public collection a write to `c` lists or
delists `c` alone, if the request named it (`WriteLists`). With `IInv` that gives
the refinement for groups and friends under all circumstances.

`Publication_proofs`, one request at a time. For `~ Overlap` and `~ Faults`. The invariant speaks of
the one running request: its `snap` is the source as it is, and the copies are
listed where the source says, plus (publish) or minus (retract) what the request
has reached. `WriteReaches` is the central lemma: a write to the public
collection, computed from `snap`, changes the listing by exactly the spaces
named, because `snap` is fresh. From it follow `TrackingMatchesCopies`,
`RetractHonoured`, `PublishHonoured` and the refinement of the whole registry.
With `Overlap` TLC refutes `RetractHonoured`: freshness cannot be dispensed with.

`Jobs_proofs`. `ConstantsAssumption` says of `Failing` and `ItemOf` only what they
are; every theorem holds for any number of chunks, items and steps and any
failures. The invariant has a part per theorem: `Position` relates the phase, the
step and the job's type (the worker never stands past its last step, which gives
`TypeCorrect`); `StatusInv` says that a status that is terminal while the worker is still
at work is a cancellation, that a report that has read one finds it still there, and that after a chunk
was made with the job saying cancelled every report has read that until the next check sees it
(`CancelStops`; `EndedStaysEnded`, whose one exception is the window of `updateProgress`). `WorkInv` ties
`worked`, the stored status and the
reported steps to the worker's place; `ImportInv` ties a chunk's step status to the
sets `succeeded` and `failed`, these to the memories, and the links to the
summaries made so far.

`GhostAccess_proofs`. For any limit, accessors, memories and overlap. `NotAhead` says that no
count, in a document or carried by a check, is ahead of the denials since the last reset;
stale reads only lag behind, so blocks never come early. `InStep` says that where nothing
overlapped or failed a pair has one check at a time and it carries what the record says, so
blocks do not come late (`BlocksAsDenied`). `BlocksStay` is the merge of `Increment`: it
leaves the block alone. For the configuration the invariant says of every running request
that what it is going to write and what the owner meant agree: of the list as a whole
(`ListKept`), of the overrides key by key (`TrustKept`), since the one is replaced and the
other merged; an update that replaces either whole starts anew, or leaves it torn if a request that read
before is still to write. A check that no change crossed has the level and the list it read
(`ChecksSteady`), which gives `ChecksFollow`.

`RemCycle_proofs`. The types hold for any number of memories, batches, edits and faults and any cost cap.
`PressuresFelt` rests on two parts. `Once`: a memory that owes a pressure to the mood carries
the mark of the phase that found it, so no phase finds it again, unless an edit undid the mark,
which is on record. `Felt`: the list has at most one pressure of every cause that was not torn,
and the drift of the mood and what is left of the pressure add up to `Life`, but for the one
unit of lead between the two writes of an update. `FeltDrifted` and `FeltSettled` are the two writes.

`FollowUps_proofs`. For any scans, edits, memories and page sizes. Marks and given dates are never ahead
of the clock, in the store (`Past`) or in what an edit has read (`PastRead`). A scan knows the dates of its
memories unless they were moved under it, which is on record (`Dated`); a mark is
written only by a scan whose reminder went out, or by an edit, which is on record when its mark hides its
date. That gives `NeverKeptSilent`. For
`NoDateTwice`: two scans at a memory are on record (`Met`), a reminder that is out is marked
or about to be by the one scan that gave it (`Remembered`), unless an edit took the mark away, which is
on record too, and what a scan has yet to emit
is not out (`Unsaid`), as its query leaves out what is marked.

The second half is about the bus. `BuffersAccount` counts: what is owed of an event is the
number of its places in the buffer plus that of its places in the batches under way. Counts are
cardinalities of sets of places, so a step is a bijection: appending adds a place (`TimesAppend`),
a flush moves every place of the flushed buffers into new batches, one for each (`InOrder`,
`Flushed`), an answer takes one batch out and shifts those behind it (`TakenOut`, `Answered`).
This holds for whatever order `SetToSeq` puts the new batches in.

`Relationships_proofs`. For any finite number of memories and relationships and any requests, calls
that fail and requests that overlap.

- Orders. Members that share no position have different numbers of others ahead of them, and there
  are as many numbers as members: so there is one member for each place, and `Ordered` is the
  sorted list (`OrderedIs`). From this follow what compaction, removal and insertion do to positions,
  and from these, one by one, that the five reorderings do what they say (`ReorderedIs`), whatever order they start from, but for
  the place of `move_to_index` in an order with gaps. `Base` says that
  every stored order, and every order a request has in hand, has different positions.
- Documents. `Stored` says of a relationship that is not torn that at most one request has it
  (`Alone`), and that what it is about to write was made of what is stored (`AllReady`). So members,
  order and number stay in step (`AllSound`), which is `OrderMatches`.
- Memories. `Tidy` says the same of memories that are not torn, call by call. A request has planned for
  each of its memories one call to link, one to count, one to unlink or one to replace (`Planned`), and
  the count that is stored, or read and about to be written, is the number of ids listed plus the
  links and minus the counts still to come (`Counted`, `Balance`): increments and decrements may
  come before or after the ids they stand for. When nothing is pending the two are equal, which is
  `CountMatches`. For one relationship `Agrees` compares what the memory will list when all calls are
  done with what the relationship lists or is about to: `LinksMatch`.

The proof found an error in an earlier form of the model: with `torn` marked only where calls
failed or requests met, `CountMatches` is false from the third request on. An update overwritten by
another leaves a member linked but not listed; the next update adds it again and counts it twice. TLC,
with two requests, had not seen it. It is a defect of the code that was missing from the record of
what may be wrong, and is under Divergences.

`UserDeletion_proofs`. For any finite number of users and memories, any ratings, requests and calls of
the deletion. `MemoriesOK`: on a memory that is not torn at most one request rates or retracts; until it
has written the rating, sum and count are those of the ratings; from then on they differ by just
what it is about to add. Sums over finite sets are computed by a recursive function on sets, whose
equation is proved by looking at a least set on which it fails (`PartialSumsUnique`,
`SumEquationHolds`); that changing one rating changes sum and count by the difference is `RowChange`.
`PairsOK` is the same for the two documents of a rating, `CentroidsOK` for the cached centroid: besides
what its own computation missed, a request that has written a high rating and not yet
invalidated is the only reason why one is missing. `Cleaned` goes through the steps of the deletion: as
long as no error was noted, the steps behind it have left nothing of what they go through, and the
step it is at has left only what it still has to do; no step touches a document outside `Paths`. The rating under a memory, whose failing deletion is swallowed, is found
gone by way of `PairsOK`.

`Listings_proofs`. For any finite number of memories, any collections, orders, page sizes and ratios, and
any changes while somebody reads. To every listing belongs one list (`Whole`) of what there is now, of
which nothing is left out and nothing is in it twice (`WholeLists`). The proof has three parts.

- Pages. Where pages fit together, each is a piece of that list (`PageCuts`), although it is
  made from a fetch of its own that was cut somewhere: what was fetched agrees with all there is up to the
  end of the page, for a query, for queries to several collections merged (`FetchAgree`), for the two
  pools of byDiscovery, which may be exhausted one before the other (`InterleaveAgree`), for slices, for the
  recommendations, where those near enough come before the others (`NearAgree`). And
  a page that says there is no more is the last. A place of the merged list
  belongs to one place of one pool (`Merges`, with `NewPlace` and `RatedPlace`), which gives
  `NewcomersShown`: the `k`-th of the newcomers is among the first `k * (Ratio + 1)`.
- Changes. A memory that comes puts others later and none earlier (`WholeLater`), one that goes does the
  reverse. So a reader has missed nothing before its offset unless something was taken
  away (`OwedShown`), and has nothing shown before it behind its offset unless something was added (`ShownOnce`). The
  invariant `IInv` says so of every state, not only of the last, and from it follows `PagesCover`.
  A memory that comes to a second collection, or a rating, may do both, and is counted as both.
- Ends. Whether pages fit together or not, `hasMore` is true only while the offset is below what all
  collections could have (`PageBounded`), which gives `ReadersFinish`.

What a fold or a filter of a sequence returns for every input takes induction over data, so the listings
are stated without. That the statements are those of the code's two loops is proved turn
by turn: `InterleavesAsTheLoop` has the loop's two counters and its choice at every place,
`DedupesAsTheLoop` its winner and what is left after every copy.

Only model-checked: what is liveness (`Settles`, `Reminded`, `PrunedInTurn`); and the violation. Every
safety property of a run, invariant, step or refinement, is the statement of a theorem. Type
correctness is a theorem of every module that has proofs.

## Divergences between code and documentation

`listings_vanishing` is checked by a run. `utils/dedupe.ts` says that deduplication
returns the winners. Losers are removed by UUID, and all copies of a memory have one
UUID: if the copy that was found first wins, the winner goes with the loser. A memory
published to a space and a group is therefore on no page of byTime, byRating,
byProperty, byBroad, byCurated or byRecommendation over both.

Others are stated by definitions of the modules and can be reproduced by changing one
thing in a configuration; TLC then finds the counterexample.

| Definition | Change | What the code does |
|---|---|---|
| `OneTimeUse` (ConfirmationTokens) | two handlers (as in `tokens_concurrent`) | two overlapping confirms both run the operation |
| `RetractHonoured` (Publication) | `Overlap = TRUE` in the serial instance, `MaxStarts = 4` | an update restores the tracking arrays it read, the next publication lists the retracted space again |
| `SpacesModerated` | two spaces, `Moderated = {s1}` | publishing elsewhere approves the copy that awaits review |
| `GroupsModerated` | `ConfigFaults = TRUE` | a configuration that cannot be read means no moderation |
| `NeverRevived` (Jobs) | without its last disjunct | `updateProgress` writes running over a cancellation that lands between its read and its write, although the comment in it says "Don't overwrite cancelled/terminal status with 'running'" (`job.service.ts:104`) |
| `AlwaysSettles` | `Failing = {"relationship"}` | an import whose relationship call rejects leaves the job running for ever |
| `Reminded` (FollowUps) | without `<>[]Crowded(m)` | a rescheduled memory behind the first page of notified ones is never reminded of again |
| `ReportsHonestly` (UserDeletion) | `documents = {}` for `documents = Documents \ Paths` | a deletion that reports success keeps escalation records, templates, reports, confirmation requests and the mood, although the service is said to delete "all user data" (`user-deletion.service.ts:2`, `:45`) |
| `EventuallyClassified` (RemCycle) | as property of `rem_cycles` | the query takes the oldest `2 * batchSize` memories, classified or not: once they are classified nothing else ever is |
| `PagesCover` (Listings) | drop a conjunct of `FitsTogether` | see below |

Seen while modelling, without a definition of their own:

- Publication. A retraction from friends deletes the copy but not its index entry
  (`RetractedCopy` leaves `index` alone). `query` filters by the property `spaces`,
  which a retraction does not change, so it still answers what was retracted, while
  `search` filters by `space_ids` (`FoundInSpace`); the search of a group does not
  filter by `group_ids` at all (`FoundInGroup`). A tracking write that fails after a
  retraction is swallowed and has the effect of the lost update. The content is checked
  when the token is created and published as it is when the token is confirmed.
  Publishing again resets the status a moderator set. Of two requests to the same
  destination that overlap, a revision may write with what it read before the other wrote:
  what it replaces is then not in the history. `RevisionKeepsContent` excludes
  just that; without its conjunct about `clear` TLC refutes it with `MaxStarts = 4`.
- Tokens and jobs. Overlapping failed attempts are counted once. `complete` and
  `cancel` write over a terminal status, although `job.types.ts` says of these that the
  job will not change again. The deletion worker reports every step completed also when
  the deletion had errors; a deletion that was made is reported failed when its event
  cannot be emitted.
- Relationships. `move_to_index` is wrong when positions have gaps after `set_order`. An update
  that overwrites another's leaves members that list the relationship and are not listed by it;
  adding one of them again counts it twice.
  A deletion that is retried after a failure counts the same members down again.
- Ratings and deletion. A user's deletion leaves the user's share in the sums of other
  users' memories. A failing deletion of the rating under a memory is swallowed and the
  one under the user, by which a repetition would find it, is deleted. Lowering or
  retracting a high rating does not invalidate the centroid. A centroid made while a
  vector could not be fetched, or from more memories than one fetch returns, is cached
  as it is and used until the next high rating.
- Access. `removeUserTrust` writes the map without the key under a deep merge, which
  cannot remove it. A read of the block that fails lets the check go on; a read of the
  configuration that fails denies. A block made after a failing read replaces the whole
  block list. The in-memory store keeps the attempts when a block is removed, the
  Firestore store deletes them.
- Follow-ups and webhooks. Neither bus rejects when a delivery fails: notified does not
  mean delivered. `follow_up_failure_count` is not reset by a new date. Any edit
  of a memory drops its reminder, since `MemoryService.update` replaces the whole object and does not
  ask for its three properties. Where that query falls back to all properties, an edit
  that read a memory before it was marked restores what it read, and the same date is
  reminded of twice; a date set back to before the mark is never reminded of. A date set
  during a scan can be taken for given. A memory whose owner has no destination is
  marked although its event was dropped. `dispose` does not stop later emits.
- REM. An edit that overlaps scoring undoes the mark of having been scored, and decay
  and deletion; the memory is scored again and its pressure felt twice. A scoring that
  fails marks the memory as touched, so it is never scored; reconciliation touches
  unscored memories too. Pruning is skipped when a run finds no cluster. A crash between
  the two writes of the mood has it feel the same pressures again. Space and friends
  collections share the mood of `system`, where two cycles lose one another's pressures.
  A flag that should need a state to persist counts cycles since any dimension jumped.
  Merging never adds new members to the relationship it merges into.
- Listings. Memories of blocked users take places in the fetch and none on the page, so
  a page can be short or empty while others wait behind it. What a friends collection
  returns is not counted, so a search of friends alone never says that there is more.
  The unscored pool of one's own byCurated is what the newest few memories leave. A
  slice search looks for a third of the page in each slice, whatever the slice holds; the
  comment beside it says "so pagination doesn't hit a ceiling". A memory made exactly on
  a boundary of two time slices is in both. A search among one's ratings looks at the
  200 best matches of a collection, rated or not. byTime and the like cut the page before
  leaving out what is not a memory. byCurated with a query sorts by score what was
  fetched by relevance, and fetches more for every page: its pages repeat and miss
  memories although nothing changes.

## What is left

The operations left out of the partly modelled components (byRandom, counters, what a
cycle's clustering finds, abstraction, curation, flags of the mood) and a composition of
tokens and publication, which are joined in the code by `confirm` alone. No proof of a safety
property is open; the listings that do not fit together have none to prove.

## Not modelled, and why

Scoring, editorial and curation scores, clustering distances and recommendation
centroids are floating-point arithmetic on vectors; abstraction, classification,
moderation, narration and query augmentation prepare prompts and parse answers of
a language model. None has a protocol, and TLC and TLAPS have no reals to speak
of. The re-evaluation triggers write composites computed from scores read before a call
of the language model: a lost update of a number that nothing else reads back. Preferences
and reports are single writes. The stores' wrappers, the facades, the clients and the
generated types translate calls. The scripts are one-off tools.

----------------------------- MODULE Publication -----------------------------
(***************************************************************************)
(* SpaceService: one memory of one owner, its published copies and what    *)
(* the source memory records about them.                                   *)
(*                                                                         *)
(* A publish, retract or revise is asked for (phase 1, which validates and *)
(* creates a token) and executed when the token is confirmed (phase 2).    *)
(* Phase 2 reads the source memory once, then visits the destinations one  *)
(* by one - fetch the copy, write it, index it - and finally writes the    *)
(* source's tracking arrays, all computed from that first read.  Every     *)
(* store call is a step: other requests, a moderator and MemoryService's   *)
(* own update run in between.  A call may fail (each destination has its   *)
(* own catch, and the tracking write's failure is swallowed), its answer   *)
(* may be lost, and the process may die at any step.                       *)
(*                                                                         *)
(* Tokens are consumed once (ConfirmationTokens.tla).  Webhook events are  *)
(* emitted after the last write and change nothing here.                   *)
(***************************************************************************)
EXTENDS Integers, FiniteSets, Sequences

CONSTANTS
  Spaces,             \* space ids; they share one collection and one copy
  Groups,             \* group ids; one collection and one copy each
  Public, Friends,    \* Memory_spaces_public and Memory_friends_<owner>
  NoCollection,       \* a request that is at no collection, an empty index
  Contents,           \* what the memory may say
  Acceptable,         \* the contents checkModeration lets through
  Moderated,          \* the spaces and groups configured with require_moderation
  ModeratorActions,   \* the statuses a moderator may set in this instance
  Requests,           \* requests that can be open at the same time
  Overlap,            \* may requests and updates overlap?
  Faults,             \* may calls fail and processes die?
  ConfigFaults,       \* may a reading of the configuration fail?
  MaxRevisionHistory, \* MAX_REVISION_HISTORY
  MaxStarts           \* bound on the executions that may overlap, for TLC

Collections == Groups \cup {Public, Friends}
Destinations == Spaces \cup Groups \cup {Friends}

ASSUME NamesAssumption ==
  /\ Public # Friends
  /\ NoCollection \notin Collections
  /\ Public \notin Groups \cup Spaces
  /\ Friends \notin Groups \cup Spaces
  /\ Spaces \cap Groups = {}

ASSUME ValuesAssumption ==
  /\ Contents # {}
  /\ Acceptable \subseteq Contents
  /\ Moderated \subseteq Spaces \cup Groups
  /\ ModeratorActions \subseteq {"approved", "rejected", "removed"}
  /\ Overlap \in BOOLEAN
  /\ Faults \in BOOLEAN /\ ConfigFaults \in BOOLEAN
  /\ MaxRevisionHistory \in Nat
  /\ MaxStarts \in Nat

VARIABLES
  source,   \* the memory in the owner's collection
  copies,   \* copies[c]: the published copy in collection c
  index,    \* memoryIndex: the one collection recorded for the copies' UUID
  requests, \* requests[r]: a pending or running request
  edit,     \* a running MemoryService.update of the source
  retracted, \* history: destinations whose retraction was reported, and not republished
  announced, \* history: destinations whose publication was reported, and not retracted
  reviewed, \* history: collections whose copy a moderator approved since it was published
  started   \* executions started in an instance with overlap, at most MaxStarts

vars == <<source, copies, index, requests, edit, retracted, announced, reviewed, started>>
history == <<retracted, announced, reviewed, started>>

ModerationStatuses == {"approved", "pending", "rejected", "removed"}

Source ==
  [space_ids : SUBSET Spaces, group_ids : SUBSET Groups,
   published_to_friends : BOOLEAN, content : Contents]

\* space_ids is maintained by publish and retract; spaces is the property a
\* publish writes and a retract leaves alone.
Copy ==
  [exists : BOOLEAN, space_ids : SUBSET Spaces, group_ids : SUBSET Groups,
   spaces : SUBSET Spaces, content : Contents,
   moderation_status : ModerationStatuses, revision_history : Seq(Contents)]

Kinds == {"publish", "retract", "revise"}
Phases == {"idle", "pending", "fetch", "write", "index"}

\* snap is the source memory as phase 2 read it, todo the collections still to
\* visit, at and seen the collection being visited and its copy as fetched, ok
\* the collections that were visited with success.  clear is history: the
\* destinations no other request named while this one was running.
Request ==
  [phase : Phases, kind : Kinds, spaces : SUBSET Spaces, groups : SUBSET Groups,
   friends : BOOLEAN, snap : Source, todo : SUBSET Collections,
   at : Collections \cup {NoCollection}, seen : Copy, ok : SUBSET Collections,
   clear : SUBSET Destinations]

AnyContent == CHOOSE x \in Contents : TRUE

NoCopy ==
  [exists |-> FALSE, space_ids |-> {}, group_ids |-> {}, spaces |-> {},
   content |-> AnyContent, moderation_status |-> "approved", revision_history |-> <<>>]

UnpublishedSource(text) ==
  [space_ids |-> {}, group_ids |-> {}, published_to_friends |-> FALSE, content |-> text]

IdleRequest ==
  [phase |-> "idle", kind |-> "publish", spaces |-> {}, groups |-> {}, friends |-> FALSE,
   snap |-> UnpublishedSource(AnyContent), todo |-> {}, at |-> NoCollection,
   seen |-> NoCopy, ok |-> {}, clear |-> {}]

IdleEdit == [busy |-> FALSE, snap |-> UnpublishedSource(AnyContent), content |-> AnyContent]

Init ==
  /\ \E text \in Contents : source = UnpublishedSource(text)
  /\ copies = [c \in Collections |-> NoCopy]
  /\ index = NoCollection
  /\ requests = [r \in Requests |-> IdleRequest]
  /\ edit = IdleEdit
  /\ retracted = {} /\ announced = {} /\ reviewed = {}
  /\ started = 0

Running(r) == requests[r].phase \in {"fetch", "write", "index"}
Quiet == (\A r \in Requests : ~ Running(r)) /\ ~ edit.busy

\* In an instance without overlap a request or an update is only executed when
\* nothing else is.
Start ==
  \/ Overlap /\ started < MaxStarts /\ started' = started + 1
  \/ ~ Overlap /\ Quiet /\ UNCHANGED started

\* Slip: the friends collection is always visited.
VisitsAlwaysFriends(spaces, groups, friends) ==
  (IF spaces # {} THEN {Public} ELSE {}) \cup groups \cup {Friends}

\* The collections a request with these destinations visits.
Visits(spaces, groups, friends) ==
  (IF spaces # {} THEN {Public} ELSE {}) \cup groups \cup (IF friends THEN {Friends} ELSE {})

\* The destinations a request names, and those of them in the collections cs.
Names(q) == q.spaces \cup q.groups \cup (IF q.friends THEN {Friends} ELSE {})
Reached(q, cs) ==
  (IF Public \in cs THEN q.spaces ELSE {}) \cup (q.groups \cap cs) \cup ({Friends} \cap cs)

-----------------------------------------------------------------------------
(* Phase 1: publish, retract, revise, deny *)

Pending(kind, spaces, groups, friends) ==
  [IdleRequest EXCEPT !.phase = "pending", !.kind = kind, !.spaces = spaces,
                      !.groups = groups, !.friends = friends]

RequestPublish(r, spaces, groups, friends) ==
  /\ requests[r].phase = "idle"
  /\ spaces # {} \/ groups # {} \/ friends
  /\ source.content \in Acceptable
  /\ requests' = [requests EXCEPT ![r] = Pending("publish", spaces, groups, friends)]
  /\ UNCHANGED <<source, copies, index, edit, history>>

\* Only what the source memory says it is published to can be retracted.
RequestRetract(r, spaces, groups, friends) ==
  /\ requests[r].phase = "idle"
  /\ spaces # {} \/ groups # {} \/ friends
  /\ spaces \subseteq source.space_ids
  /\ groups \subseteq source.group_ids
  /\ friends => source.published_to_friends
  /\ requests' = [requests EXCEPT ![r] = Pending("retract", spaces, groups, friends)]
  /\ UNCHANGED <<source, copies, index, edit, history>>

\* The token's payload remembers where the memory is published now.
RequestRevise(r) ==
  /\ requests[r].phase = "idle"
  /\ source.space_ids # {} \/ source.group_ids # {} \/ source.published_to_friends
  /\ source.content \in Acceptable
  /\ requests' = [requests EXCEPT ![r] =
       Pending("revise", source.space_ids, source.group_ids, source.published_to_friends)]
  /\ UNCHANGED <<source, copies, index, edit, history>>

\* The token is denied or expires.
Deny(r) ==
  /\ requests[r].phase = "pending"
  /\ requests' = [requests EXCEPT ![r] = IdleRequest]
  /\ UNCHANGED <<source, copies, index, edit, history>>

-----------------------------------------------------------------------------
(* Phase 2: executePublish, executeRetract, executeRevise *)

\* The source memory is read once.
Confirm(r) ==
  LET q == requests[r] IN
  /\ q.phase = "pending"
  /\ Start
  /\ requests' = [o \in Requests |->
       IF o = r
         THEN [q EXCEPT !.phase = "fetch", !.snap = source,
                        !.todo = Visits(q.spaces, q.groups, q.friends),
                        !.clear = Names(q) \ UNION {Names(requests[p]) :
                                    p \in {p \in Requests : Running(p)}}]
         ELSE [requests[o] EXCEPT !.clear = @ \ Names(q)]]
  /\ retracted' = IF q.kind = "publish" THEN retracted \ Names(q) ELSE retracted
  /\ announced' = IF q.kind = "retract" THEN announced \ Names(q) ELSE announced
  /\ UNCHANGED <<source, copies, index, edit, reviewed>>

\* Spaces come first, then the groups in payload order, the friends last.
NextCollections(todo) ==
  IF Public \in todo THEN {Public}
  ELSE IF todo \cap Groups # {} THEN todo \cap Groups
  ELSE todo

\* The visit of c is over, with or without success; its catch block goes on
\* to the next collection.
Leave(r, c, success) ==
  requests' = [requests EXCEPT
    ![r].phase = "fetch", ![r].at = NoCollection, ![r].seen = NoCopy,
    ![r].todo = @ \ {c}, ![r].ok = IF success THEN @ \cup {c} ELSE @]

\* A publication takes a failing fetch for a copy that does not exist.
Fetched(kind, c) == {copies[c]} \cup (IF kind = "publish" /\ Faults THEN {NoCopy} ELSE {})

FetchCopy(r, c) ==
  /\ requests[r].phase = "fetch"
  /\ c \in NextCollections(requests[r].todo)
  /\ IF requests[r].kind # "publish" /\ ~ copies[c].exists
       THEN Leave(r, c, FALSE)
       ELSE \E doc \in Fetched(requests[r].kind, c) :
              requests' = [requests EXCEPT ![r].phase = "write", ![r].at = c,
                                           ![r].seen = doc]
  /\ UNCHANGED <<source, copies, index, edit, history>>

FetchFails(r, c) ==
  /\ Faults
  /\ requests[r].phase = "fetch"
  /\ c \in NextCollections(requests[r].todo)
  /\ Leave(r, c, FALSE)
  /\ UNCHANGED <<source, copies, index, edit, history>>

\* A publication of a space goes to moderation if one of the spaces it names
\* requires that, one of a group if the group does.  getSpaceConfig takes a
\* failing read for a destination without configuration.
RequiresModeration(q, c) ==
  IF c = Public THEN q.spaces \cap Moderated # {} ELSE c \in Groups \cap Moderated

InitialStatuses(q, c) ==
  (IF RequiresModeration(q, c) THEN {"pending"} ELSE {"approved"})
    \cup (IF ConfigFaults THEN {"approved"} ELSE {})

\* Slips: the copy's space_ids are replaced; its moderation status is kept.
PublishedCopyReplacesSpaces(q, c, doc, status) ==
  [doc EXCEPT
     !.exists = TRUE,
     !.space_ids = IF c = Public THEN q.spaces ELSE q.snap.space_ids,
     !.group_ids = IF c \in Groups THEN q.snap.group_ids \cup {c} ELSE q.snap.group_ids,
     !.spaces = IF c = Public THEN q.spaces ELSE @,
     !.content = q.snap.content,
     !.moderation_status = status]

PublishedCopyKeepsStatus(q, c, doc, status) ==
  [doc EXCEPT
     !.exists = TRUE,
     !.space_ids = IF c = Public THEN q.snap.space_ids \cup q.spaces ELSE q.snap.space_ids,
     !.group_ids = IF c \in Groups THEN q.snap.group_ids \cup {c} ELSE q.snap.group_ids,
     !.spaces = IF c = Public THEN q.spaces ELSE @,
     !.content = q.snap.content,
     !.moderation_status = IF doc.exists THEN @ ELSE status]

\* The write merges these properties into the copy that is there, if any.
PublishedCopy(q, c, doc, status) ==
  [doc EXCEPT
     !.exists = TRUE,
     !.space_ids = IF c = Public THEN q.snap.space_ids \cup q.spaces ELSE q.snap.space_ids,
     !.group_ids = IF c \in Groups THEN q.snap.group_ids \cup {c} ELSE q.snap.group_ids,
     !.spaces = IF c = Public THEN q.spaces ELSE @,
     !.content = q.snap.content,
     !.moderation_status = status]

\* Slip: a retraction from one space clears them all.
RetractedCopyClearsSpaces(q, c, doc) ==
  IF c = Friends THEN NoCopy
  ELSE IF c = Public THEN [doc EXCEPT !.space_ids = {}]
  ELSE [doc EXCEPT !.group_ids = q.seen.group_ids \ {c}]

\* A space or group copy stays, without the id; the friends copy is deleted.
RetractedCopy(q, c, doc) ==
  IF c = Friends THEN NoCopy
  ELSE IF c = Public THEN [doc EXCEPT !.space_ids = q.snap.space_ids \ q.spaces]
  ELSE [doc EXCEPT !.group_ids = q.seen.group_ids \ {c}]

\* buildRevisionHistory: the newest entry first, MAX_REVISION_HISTORY at most.
BuildRevisionHistory(text, old) ==
  SubSeq(<<text>> \o old, 1,
         IF Len(old) < MaxRevisionHistory THEN Len(old) + 1 ELSE MaxRevisionHistory)

\* Slip: the content is overwritten before it is put into the history.
RevisedCopyFirst(q, doc) ==
  [doc EXCEPT
     !.content = q.snap.content,
     !.revision_history = IF q.seen.content # q.snap.content
                            THEN BuildRevisionHistory(q.snap.content, q.seen.revision_history)
                            ELSE q.seen.revision_history]

RevisedCopy(q, doc) ==
  [doc EXCEPT
     !.content = q.snap.content,
     !.revision_history = IF q.seen.content # q.snap.content
                            THEN BuildRevisionHistory(q.seen.content, q.seen.revision_history)
                            ELSE q.seen.revision_history]

\* The copies the write may leave.
WrittenCopies(q, c, doc) ==
  CASE q.kind = "publish" -> {PublishedCopy(q, c, doc, status) : status \in InitialStatuses(q, c)}
    [] q.kind = "retract" -> {RetractedCopy(q, c, doc)}
    [] q.kind = "revise"  -> {RevisedCopy(q, doc)}

\* An insert of an existing id and an update of a missing one are errors; a
\* delete of a missing one is not.
WriteAccepted(q, c) ==
  \/ q.kind = "publish" /\ (q.seen.exists <=> copies[c].exists)
  \/ q.kind = "retract" /\ c = Friends
  \/ q.kind # "publish" /\ copies[c].exists

WriteTo(r, c) ==
  /\ \E doc \in WrittenCopies(requests[r], c, copies[c]) :
       copies' = [copies EXCEPT ![c] = doc]
  /\ reviewed' = IF requests[r].kind = "publish" THEN reviewed \ {c} ELSE reviewed

WriteCopy(r) ==
  LET q == requests[r]
      c == q.at IN
  /\ q.phase = "write"
  /\ WriteAccepted(q, c)
  /\ WriteTo(r, c)
  /\ IF q.kind = "publish"
       THEN requests' = [requests EXCEPT ![r].phase = "index"]
       ELSE Leave(r, c, TRUE)
  /\ UNCHANGED <<source, index, edit, retracted, announced, started>>

WriteRejected(r) ==
  /\ requests[r].phase = "write"
  /\ ~ WriteAccepted(requests[r], requests[r].at)
  /\ Leave(r, requests[r].at, FALSE)
  /\ UNCHANGED <<source, copies, index, edit, history>>

\* The write fails, or succeeds and its answer is lost.
WriteFails(r) ==
  LET q == requests[r]
      c == q.at IN
  /\ Faults
  /\ q.phase = "write"
  /\ WriteAccepted(q, c)
  /\ \/ UNCHANGED <<copies, reviewed>>
     \/ WriteTo(r, c)
  /\ Leave(r, c, FALSE)
  /\ UNCHANGED <<source, index, edit, retracted, announced, started>>

\* memoryIndex.index overwrites the one entry of the copies' UUID; a failure is
\* only logged.
IndexCopy(r) ==
  /\ requests[r].phase = "index"
  /\ \/ index' = requests[r].at
     \/ Faults /\ UNCHANGED index
  /\ Leave(r, requests[r].at, TRUE)
  /\ UNCHANGED <<source, copies, edit, history>>

\* Slip: the groups asked for are tracked, published or not.
TrackPublishedAsAsked(q, doc) ==
  [doc EXCEPT
     !.space_ids = IF Public \in q.ok THEN q.snap.space_ids \cup q.spaces
                                      ELSE q.snap.space_ids,
     !.group_ids = q.snap.group_ids \cup q.groups,
     !.published_to_friends = q.snap.published_to_friends \/ Friends \in q.ok]

TrackPublished(q, doc) ==
  [doc EXCEPT
     !.space_ids = IF Public \in q.ok THEN q.snap.space_ids \cup q.spaces
                                      ELSE q.snap.space_ids,
     !.group_ids = q.snap.group_ids \cup (q.groups \cap q.ok),
     !.published_to_friends = q.snap.published_to_friends \/ Friends \in q.ok]

\* Slip: the spaces stay tracked.
TrackRetractedNotSpaces(q, doc) ==
  [doc EXCEPT
     !.space_ids = q.snap.space_ids,
     !.group_ids = q.snap.group_ids \ (q.groups \cap q.ok),
     !.published_to_friends = q.snap.published_to_friends /\ Friends \notin q.ok]

TrackRetracted(q, doc) ==
  [doc EXCEPT
     !.space_ids = IF Public \in q.ok THEN q.snap.space_ids \ q.spaces
                                      ELSE q.snap.space_ids,
     !.group_ids = q.snap.group_ids \ (q.groups \cap q.ok),
     !.published_to_friends = q.snap.published_to_friends /\ Friends \notin q.ok]

\* Slip: a publication to friends alone is not written.
TracksNewArray(q) ==
  \/ TrackPublished(q, q.snap).space_ids # q.snap.space_ids
  \/ TrackPublished(q, q.snap).group_ids # q.snap.group_ids

\* A publication that tracks nothing new is not written.
TracksSomethingNew(q) == TrackPublished(q, q.snap) # q.snap

Tracked(q, doc) ==
  CASE q.kind = "publish" /\ TracksSomethingNew(q) -> TrackPublished(q, doc)
    [] q.kind = "retract" -> TrackRetracted(q, doc)
    [] OTHER -> doc

\* The tracking arrays of the source are written (or not: the failure is only
\* logged) and the request reports what it reached.
Track(r) ==
  LET q == requests[r]
      done == Reached(q, q.ok) \cap q.clear IN
  /\ q.phase = "fetch"
  /\ q.todo = {}
  /\ \/ source' = Tracked(q, source)
     \/ Faults /\ UNCHANGED source
  /\ requests' = [requests EXCEPT ![r] = IdleRequest]
  /\ retracted' = IF q.kind = "retract" THEN retracted \cup done ELSE retracted
  /\ announced' = IF q.kind = "publish" THEN announced \cup done ELSE announced
  /\ UNCHANGED <<copies, index, edit, reviewed, started>>

\* The process dies: the token is spent and the rest never happens.
Crash(r) ==
  /\ Faults
  /\ Running(r)
  /\ requests' = [requests EXCEPT ![r] = IdleRequest]
  /\ UNCHANGED <<source, copies, index, edit, history>>

-----------------------------------------------------------------------------
(* Others that write the same documents *)

\* MemoryService.update reads the memory with all its properties ...
StartEdit(content) ==
  /\ ~ edit.busy
  /\ Start
  /\ content # source.content
  /\ edit' = [busy |-> TRUE, snap |-> source, content |-> content]
  /\ UNCHANGED <<source, copies, index, requests, retracted, announced, reviewed>>

\* ... and replaces it by what it read with the updated fields.
FinishEdit ==
  /\ edit.busy
  /\ \/ source' = [edit.snap EXCEPT !.content = edit.content]
     \/ Faults /\ UNCHANGED source
  /\ edit' = IdleEdit
  /\ UNCHANGED <<copies, index, requests, history>>

Moderate(c, status) ==
  /\ c # Friends
  /\ copies[c].exists
  /\ copies' = [copies EXCEPT ![c].moderation_status = status]
  /\ reviewed' = IF status = "approved" THEN reviewed \cup {c} ELSE reviewed
  /\ UNCHANGED <<source, index, requests, edit, retracted, announced, started>>

-----------------------------------------------------------------------------
RequestStep(r) ==
  \/ \E spaces \in SUBSET Spaces, groups \in SUBSET Groups, friends \in BOOLEAN :
       \/ RequestPublish(r, spaces, groups, friends)
       \/ RequestRetract(r, spaces, groups, friends)
  \/ RequestRevise(r)
  \/ Deny(r)
  \/ Confirm(r)
  \/ \E c \in Collections : FetchCopy(r, c) \/ FetchFails(r, c)
  \/ WriteCopy(r)
  \/ WriteRejected(r)
  \/ WriteFails(r)
  \/ IndexCopy(r)
  \/ Track(r)
  \/ Crash(r)

Next ==
  \/ \E r \in Requests : RequestStep(r)
  \/ \E content \in Contents : StartEdit(content)
  \/ FinishEdit
  \/ \E c \in Collections, status \in ModeratorActions : Moderate(c, status)

Spec == Init /\ [][Next]_vars

-----------------------------------------------------------------------------
(* What readers see *)

\* A search of some spaces, of a group and of friends.  The first filters the
\* public collection by space_ids; the others only choose the collection.
Visible(c) == copies[c].exists /\ copies[c].moderation_status = "approved"
FoundInSpace(s) == Visible(Public) /\ s \in copies[Public].space_ids
FoundInGroup(g) == Visible(g)

\* The copy says it is published to d.
Listed(d) ==
  IF d \in Spaces THEN d \in copies[Public].space_ids
  ELSE IF d \in Groups THEN d \in copies[d].group_ids
  ELSE copies[Friends].exists

TrackedDestinations ==
  source.space_ids \cup source.group_ids
    \cup (IF source.published_to_friends THEN {Friends} ELSE {})

-----------------------------------------------------------------------------
(* Properties *)

\* The documents and the running requests keep their shape.
TypeOK ==
  /\ source \in Source
  /\ copies \in [Collections -> Copy]
  /\ index \in Collections \cup {NoCollection}
  /\ requests \in [Requests -> Request]
  /\ edit \in [busy : BOOLEAN, snap : Source, content : Contents]
  /\ retracted \in SUBSET Destinations
  /\ announced \in SUBSET Destinations
  /\ reviewed \in SUBSET Collections
  /\ started \in Nat
  /\ \A c \in Collections : Len(copies[c].revision_history) <= MaxRevisionHistory

\* Whatever overlaps, fails or dies: a space or group in the source's tracking
\* arrays has a copy in its collection (a retract or revise that fetches it
\* finds it), and so has the collection the index names, unless the friends
\* copy was deleted.
TrackedHasCopy ==
  /\ source.space_ids # {} => copies[Public].exists
  /\ \A g \in source.group_ids : copies[g].exists
  /\ index \notin {NoCollection, Friends} => copies[index].exists

\* Without overlap and failures the tracking arrays say exactly where the copies
\* are listed, whenever no request is running.
TrackingMatchesCopies ==
  Quiet => TrackedDestinations = {d \in Destinations : Listed(d)}

\* A destination whose retraction succeeded, and that nobody published to since,
\* does not list the memory.
RetractHonoured == \A d \in retracted : ~ Listed(d)

\* A destination whose publication succeeded, and that nobody retracted from
\* since, lists the memory.
PublishHonoured == \A d \in announced : Listed(d)

\* A group that requires moderation shows a copy only if a moderator approved
\* it since it was published.
GroupsModerated ==
  \A g \in Groups \cap Moderated : FoundInGroup(g) => g \in reviewed

\* The same for spaces. They share one copy and its one status, so publishing to
\* a space without moderation breaks it.
SpacesModerated ==
  \A s \in Spaces \cap Moderated : FoundInSpace(s) => Public \in reviewed

\* A revision never loses what it replaces: the copy's content goes to the head
\* of its history, whatever fails or dies, unless another request to the same
\* destination overlaps. (Spaces share a copy: there, unless any request does.)
RevisionKeepsContent ==
  [][\A r \in Requests, c \in Collections :
       /\ requests[r].kind = "revise" /\ requests[r].phase = "write" /\ requests[r].at = c
       /\ Overlap => c \in requests[r].clear
       /\ copies'[c].content # copies[c].content
       => /\ copies'[c].revision_history # <<>>
          /\ Head(copies'[c].revision_history) = copies[c].content]_vars

\* The requests being executed, as the registry over the destinations ds sees them.
RunningOver(ds) ==
  [r \in Requests |->
     IF Running(r) THEN [kind |-> requests[r].kind, dests |-> Names(requests[r]) \cap ds]
                   ELSE [kind |-> "none", dests |-> {}]]

OwnCollection == Groups \cup {Friends}

OwnCollectionRegistry ==
  INSTANCE PublicationRegistry WITH
    Destinations <- OwnCollection, Operators <- Requests,
    listed <- {d \in OwnCollection : Listed(d)},
    running <- RunningOver(OwnCollection)

Registry ==
  INSTANCE PublicationRegistry WITH
    Operators <- Requests,
    listed <- {d \in Destinations : Listed(d)},
    running <- RunningOver(Destinations)

\* Groups and friends, which have a collection each, are listed and delisted only
\* by requests that name them, whatever overlaps, fails or dies.
GroupsImplementRegistry == OwnCollectionRegistry!RegistrySpec

\* Without overlap and failures that also holds of the spaces, which share a copy.
ImplementsRegistry == Registry!RegistrySpec

=============================================================================

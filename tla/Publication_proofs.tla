-------------------------- MODULE Publication_proofs --------------------------
(***************************************************************************)
(* Theorems about publication, for any number of spaces, groups, contents  *)
(* and overlapping requests, and about the confirmation service its        *)
(* requests wait for, for any number of tokens and overlapping handlers.   *)
(***************************************************************************)
EXTENDS Publication, ConfirmationTokens, TLAPS

-----------------------------------------------------------------------------
(* Types of what the steps write *)

LEMMA AnyContentType == AnyContent \in Contents
  BY ValuesAssumption DEF AnyContent

LEMMA NoCopyType == NoCopy \in Copy
  BY AnyContentType DEF NoCopy, Copy, ModerationStatuses

LEMMA UnpublishedSourceType ==
  ASSUME NEW text \in Contents
  PROVE  UnpublishedSource(text) \in Source
  BY DEF UnpublishedSource, Source

LEMMA IdleRequestType == IdleRequest \in Request
  BY NoCopyType, AnyContentType, UnpublishedSourceType
  DEF IdleRequest, Request, Phases, Kinds

LEMMA VisitsType ==
  ASSUME NEW spaces \in SUBSET Spaces, NEW groups \in SUBSET Groups, NEW friends \in BOOLEAN
  PROVE  /\ Visits(spaces, groups, friends) \in SUBSET Collections
         /\ NoCollection \notin Visits(spaces, groups, friends)
  BY NamesAssumption DEF Visits, Collections

LEMMA NamesType ==
  ASSUME NEW q \in Request
  PROVE  Names(q) \in SUBSET Destinations
  BY DEF Names, Request, Destinations

LEMMA PendingType ==
  ASSUME NEW kind \in Kinds, NEW spaces \in SUBSET Spaces, NEW groups \in SUBSET Groups,
         NEW friends \in BOOLEAN
  PROVE  Pending(kind, spaces, groups, friends) \in Request
  BY IdleRequestType DEF Pending, Request, Phases

\* The history a revision writes holds contents, and at most as many as it may.
LEMMA BuildRevisionHistoryType ==
  ASSUME NEW text \in Contents, NEW old \in Seq(Contents)
  PROVE  /\ BuildRevisionHistory(text, old) \in Seq(Contents)
         /\ Len(BuildRevisionHistory(text, old)) <= MaxRevisionHistory
<1> DEFINE all == <<text>> \o old
           n == IF Len(old) < MaxRevisionHistory THEN Len(old) + 1 ELSE MaxRevisionHistory
<1>1. all \in Seq(Contents) /\ Len(all) = Len(old) + 1
  OBVIOUS
<1>2. n \in Nat /\ n <= Len(all) /\ n <= MaxRevisionHistory
  BY <1>1, ValuesAssumption
<1>3. SubSeq(all, 1, n) \in Seq(Contents) /\ Len(SubSeq(all, 1, n)) = n
  <2> HIDE DEF all, n
  <2>1. QED
    BY <1>1, <1>2
<1>4. QED
  BY <1>2, <1>3 DEF BuildRevisionHistory

HistoryBounded(doc) == Len(doc.revision_history) <= MaxRevisionHistory

LEMMA WrittenCopiesType ==
  ASSUME NEW q \in Request, NEW c \in Collections, NEW doc \in Copy,
         HistoryBounded(q.seen), HistoryBounded(doc),
         NEW new \in WrittenCopies(q, c, doc)
  PROVE  new \in Copy /\ HistoryBounded(new)
<1>1. CASE q.kind = "publish"
  <2>1. PICK status \in ModerationStatuses : new = PublishedCopy(q, c, doc, status)
    BY <1>1 DEF WrittenCopies, InitialStatuses, ModerationStatuses
  <2>2. QED
    BY <2>1 DEF PublishedCopy, Copy, Request, Source, HistoryBounded
<1>2. CASE q.kind = "retract"
  <2>1. new = RetractedCopy(q, c, doc)
    BY <1>2 DEF WrittenCopies
  <2>2. HistoryBounded(NoCopy)
    BY ValuesAssumption DEF NoCopy, HistoryBounded
  <2>3. QED
    BY <2>1, <2>2, NoCopyType DEF RetractedCopy, Copy, Request, Source, HistoryBounded
<1>3. CASE q.kind = "revise"
  <2>1. new = RevisedCopy(q, doc)
    BY <1>3 DEF WrittenCopies
  <2>2. q.seen.content \in Contents /\ q.seen.revision_history \in Seq(Contents)
          /\ q.snap.content \in Contents
    BY DEF Request, Copy, Source
  <2>3. QED
    BY <2>1, <2>2, BuildRevisionHistoryType DEF RevisedCopy, Copy, HistoryBounded
<1>4. QED
  BY <1>1, <1>2, <1>3 DEF Request, Kinds

LEMMA TrackedType ==
  ASSUME NEW q \in Request, NEW doc \in Source
  PROVE  Tracked(q, doc) \in Source
  BY DEF Tracked, TrackPublished, TrackRetracted, Request, Source

-----------------------------------------------------------------------------
(* The inductive invariant                                                 *)
(*                                                                         *)
(* A request only visits collections it names; and every image of the      *)
(* source that may be written back - the source itself, what the running   *)
(* requests and the running update read, and what a publication is about   *)
(* to add - names collections that have a copy.  Copies in groups and in   *)
(* the public collection are never deleted, so a stale image stays backed. *)

HasCopy(c) == copies[c].exists

Backed(doc) ==
  /\ doc.space_ids # {} => HasCopy(Public)
  /\ \A g \in doc.group_ids : HasCopy(g)

VisitsNamed ==
  \A r \in Requests :
    LET q == requests[r] IN
    /\ q.todo \subseteq Visits(q.spaces, q.groups, q.friends)
    /\ q.ok \subseteq Visits(q.spaces, q.groups, q.friends)
    /\ q.phase \in {"write", "index"} => q.at \in Visits(q.spaces, q.groups, q.friends)
    /\ q.phase = "index" => q.kind = "publish"
    /\ HistoryBounded(q.seen)

PublishedHasCopy ==
  \A r \in Requests :
    LET q == requests[r] IN
    /\ q.kind = "publish" => \A c \in q.ok \ {Friends} : HasCopy(c)
    /\ q.phase = "index" /\ q.at # Friends => HasCopy(q.at)

ImagesBacked ==
  /\ Backed(source)
  /\ Backed(edit.snap)
  /\ \A r \in Requests : Backed(requests[r].snap)

IndexBacked == index \notin {NoCollection, Friends} => HasCopy(index)

IInv == TypeOK /\ VisitsNamed /\ PublishedHasCopy /\ ImagesBacked /\ IndexBacked

LEMMA InitIInv == Init => IInv
<1> SUFFICES ASSUME Init PROVE IInv
  OBVIOUS
<1>1. TypeOK
  BY NoCopyType, IdleRequestType, AnyContentType, UnpublishedSourceType, ValuesAssumption
  DEF Init, TypeOK, IdleEdit, NoCopy
<1>2. VisitsNamed /\ PublishedHasCopy
  BY ValuesAssumption
  DEF Init, VisitsNamed, PublishedHasCopy, IdleRequest, NoCopy, HistoryBounded
<1>3. ImagesBacked /\ IndexBacked
  BY DEF Init, ImagesBacked, IndexBacked, Backed, IdleRequest, IdleEdit, UnpublishedSource
<1>4. QED
  BY <1>1, <1>2, <1>3 DEF IInv

CopiesStay == \A c \in Collections \ {Friends} : copies[c].exists => copies'[c].exists

\* The visit of a collection ends, with success only if the copy is there.
LEMMA LeaveIInv ==
  ASSUME IInv, CopiesStay, NEW r \in Requests, NEW c \in Collections, NEW success \in BOOLEAN,
         c \in Visits(requests[r].spaces, requests[r].groups, requests[r].friends),
         success /\ requests[r].kind = "publish" => c = Friends \/ copies'[c].exists,
         Leave(r, c, success)
  PROVE  /\ requests' \in [Requests -> Request]
         /\ VisitsNamed'
         /\ PublishedHasCopy'
         /\ \A o \in Requests : requests'[o].snap = requests[o].snap
<1> DEFINE new == [requests[r] EXCEPT !.phase = "fetch", !.at = NoCollection, !.seen = NoCopy,
                     !.todo = @ \ {c}, !.ok = IF success THEN @ \cup {c} ELSE @]
<1>1. requests \in [Requests -> Request] /\ requests[r] \in Request
  BY DEF IInv, TypeOK
<1>2. requests' = [requests EXCEPT ![r] = new]
  BY <1>1 DEF Leave
<1>3. new \in Request
  BY <1>1, NoCopyType DEF Request, Phases
<1>4. requests'[r] = new /\ \A o \in Requests \ {r} : requests'[o] = requests[o]
  BY <1>1, <1>2
<1>5. /\ new.snap = requests[r].snap /\ new.kind = requests[r].kind /\ new.phase = "fetch"
      /\ new.spaces = requests[r].spaces /\ new.groups = requests[r].groups
      /\ new.friends = requests[r].friends /\ new.seen = NoCopy
      /\ new.todo \subseteq requests[r].todo /\ new.ok \subseteq requests[r].ok \cup {c}
      /\ ~ success => new.ok = requests[r].ok
  BY <1>1 DEF Request
<1> HIDE DEF new
<1>6. requests' \in [Requests -> Request]
  BY <1>1, <1>2, <1>3
<1>7. HistoryBounded(NoCopy)
  BY ValuesAssumption DEF NoCopy, HistoryBounded
<1>8. VisitsNamed'
  BY <1>4, <1>5, <1>7 DEF IInv, VisitsNamed, HistoryBounded
<1>9. PublishedHasCopy'
  <2> SUFFICES ASSUME NEW o \in Requests
               PROVE  LET q == requests'[o] IN
                      /\ q.kind = "publish" => \A d \in q.ok \ {Friends} : copies'[d].exists
                      /\ q.phase = "index" /\ q.at # Friends => copies'[q.at].exists
    BY DEF PublishedHasCopy, HasCopy
  <2>1. requests[o] \in Request
    BY <1>1
  <2>2. requests[o].kind = "publish" => \A d \in requests[o].ok \ {Friends} : copies'[d].exists
    BY <2>1 DEF IInv, PublishedHasCopy, HasCopy, CopiesStay, Request
  <2>3. CASE o = r
    BY <2>2, <2>3, <1>4, <1>5
  <2>4. CASE o # r
    <3>1. requests[o].phase = "index" => requests[o].at \in Collections
      BY <2>1, VisitsType DEF IInv, VisitsNamed, Request
    <3>2. QED
      BY <2>2, <2>4, <3>1, <1>4 DEF IInv, PublishedHasCopy, HasCopy, CopiesStay
  <2>5. QED
    BY <2>3, <2>4
<1>10. QED
  BY <1>4, <1>5, <1>6, <1>8, <1>9

\* A backed image stays backed.
LEMMA BackedStays ==
  ASSUME CopiesStay, NEW doc \in Source, Backed(doc)
  PROVE  /\ doc.space_ids # {} => copies'[Public].exists
         /\ \A g \in doc.group_ids : copies'[g].exists
  BY NamesAssumption DEF CopiesStay, Backed, HasCopy, Source, Collections

\* The images after a step that leaves the source alone and reads nothing but it.
LEMMA ImagesStay ==
  ASSUME IInv, CopiesStay, UNCHANGED source,
         edit'.snap \in {edit.snap, source},
         \A r \in Requests :
           requests'[r].snap \in {requests[r].snap, source, UnpublishedSource(AnyContent)}
  PROVE  ImagesBacked'
<1>1. source \in Source /\ edit.snap \in Source /\ \A r \in Requests : requests[r].snap \in Source
  BY DEF IInv, TypeOK, Request
<1>2. \A doc \in Source : Backed(doc) => Backed(doc)'
  BY BackedStays DEF Backed, HasCopy
<1>3. Backed(source) /\ Backed(edit.snap) /\ \A r \in Requests : Backed(requests[r].snap)
  BY DEF IInv, ImagesBacked
<1>4. Backed(source)' /\ Backed(edit.snap)'
  BY <1>1, <1>3, BackedStays DEF Backed, HasCopy
<1>5. ASSUME NEW r \in Requests PROVE Backed(requests[r].snap)'
  <2>1. CASE requests'[r].snap = UnpublishedSource(AnyContent)
    BY <2>1 DEF Backed, UnpublishedSource
  <2>2. CASE requests'[r].snap \in {requests[r].snap, source}
    BY <2>2, <1>1, <1>3, BackedStays DEF Backed, HasCopy
  <2>3. QED
    BY <2>1, <2>2
<1>6. QED
  BY <1>4, <1>5 DEF ImagesBacked

LEMMA IndexStays ==
  ASSUME IInv, CopiesStay, UNCHANGED index
  PROVE  IndexBacked'
  BY DEF IInv, TypeOK, IndexBacked, HasCopy, CopiesStay

\* Phase 1 and the end of a request: one request becomes one that visits nothing.
LEMMA ResetIInv ==
  ASSUME IInv, NEW r \in Requests, NEW new \in Request,
         new.todo = {}, new.ok = {}, new.phase \in {"idle", "pending"}, new.seen = NoCopy,
         new.snap = UnpublishedSource(AnyContent),
         requests' = [requests EXCEPT ![r] = new],
         UNCHANGED copies
  PROVE  /\ requests' \in [Requests -> Request]
         /\ VisitsNamed' /\ PublishedHasCopy'
         /\ \A o \in Requests :
              requests'[o].snap \in {requests[o].snap, source, UnpublishedSource(AnyContent)}
<1>1. requests \in [Requests -> Request]
  BY DEF IInv, TypeOK
<1>2. requests'[r] = new /\ \A o \in Requests \ {r} : requests'[o] = requests[o]
  BY <1>1
<1>3. HistoryBounded(NoCopy)
  BY ValuesAssumption DEF NoCopy, HistoryBounded
<1>4. VisitsNamed'
  BY <1>2, <1>3 DEF IInv, VisitsNamed, HistoryBounded
<1>5. PublishedHasCopy'
  BY <1>2 DEF IInv, PublishedHasCopy, HasCopy
<1>6. QED
  BY <1>1, <1>2, <1>4, <1>5

\* A write leaves the other copies, and deletes none but the friends copy.
LEMMA WriteToIInv ==
  ASSUME IInv, NEW r \in Requests, NEW c \in Collections, WriteTo(r, c),
         WriteAccepted(requests[r], c)
  PROVE  /\ copies' \in [Collections -> Copy]
         /\ \A d \in Collections : HistoryBounded(copies'[d])
         /\ CopiesStay
         /\ requests[r].kind = "publish" => copies'[c].exists
         /\ reviewed' \in SUBSET Collections
<1>1. copies \in [Collections -> Copy] /\ requests[r] \in Request
      /\ \A d \in Collections : HistoryBounded(copies[d])
      /\ HistoryBounded(requests[r].seen)
  BY DEF IInv, TypeOK, VisitsNamed, HistoryBounded
<1>2. PICK doc \in WrittenCopies(requests[r], c, copies[c]) : copies' = [copies EXCEPT ![c] = doc]
  BY DEF WriteTo
<1>3. doc \in Copy /\ HistoryBounded(doc)
  BY <1>1, <1>2, WrittenCopiesType
<1>4. copies'[c] = doc /\ \A d \in Collections \ {c} : copies'[d] = copies[d]
  BY <1>1, <1>2
<1>5. requests[r].kind = "publish" => doc.exists
  BY <1>1, <1>2 DEF WrittenCopies, PublishedCopy, Copy
<1>6. requests[r].kind # "publish" /\ c # Friends => doc.exists
  <2>1. requests[r].kind # "publish" /\ c # Friends => copies[c].exists
    BY DEF WriteAccepted
  <2>2. QED
    BY <2>1, <1>1, <1>2
    DEF WrittenCopies, RetractedCopy, RevisedCopy, Copy, Request, Kinds
<1>7. QED
  BY <1>1, <1>2, <1>3, <1>4, <1>5, <1>6 DEF CopiesStay, WriteTo, IInv, TypeOK

\* Collecting the parts.
LEMMA Collect ==
  ASSUME IInv, CopiesStay,
         source' \in Source, requests' \in [Requests -> Request],
         copies' \in [Collections -> Copy], \A c \in Collections : HistoryBounded(copies'[c]),
         edit' \in [busy : BOOLEAN, snap : Source, content : Contents],
         retracted' \in SUBSET Destinations, announced' \in SUBSET Destinations,
         reviewed' \in SUBSET Collections, started' \in Nat,
         index' \in Collections \cup {NoCollection},
         VisitsNamed', PublishedHasCopy', ImagesBacked', IndexBacked'
  PROVE  IInv'
  BY DEF IInv, TypeOK, HistoryBounded

\* What most steps leave alone.
LEMMA Unchanged ==
  ASSUME IInv
  PROVE  /\ UNCHANGED source => source' \in Source
         /\ UNCHANGED copies => /\ copies' \in [Collections -> Copy] /\ CopiesStay
                               /\ \A c \in Collections : HistoryBounded(copies'[c])
         /\ UNCHANGED edit => edit' \in [busy : BOOLEAN, snap : Source, content : Contents]
         /\ UNCHANGED retracted => retracted' \in SUBSET Destinations
         /\ UNCHANGED announced => announced' \in SUBSET Destinations
         /\ UNCHANGED reviewed => reviewed' \in SUBSET Collections
         /\ UNCHANGED started => started' \in Nat
         /\ UNCHANGED index => index' \in Collections \cup {NoCollection}
  BY DEF IInv, TypeOK, CopiesStay, HistoryBounded

LEMMA Phase1IInv ==
  ASSUME IInv, NEW r \in Requests, NEW kind \in Kinds, NEW spaces \in SUBSET Spaces,
         NEW groups \in SUBSET Groups, NEW friends \in BOOLEAN,
         requests' = [requests EXCEPT ![r] = Pending(kind, spaces, groups, friends)],
         UNCHANGED <<source, copies, index, edit, history>>
  PROVE  IInv'
<1> DEFINE new == Pending(kind, spaces, groups, friends)
<1>1. new \in Request
  BY PendingType
<1>2. /\ new.todo = {} /\ new.ok = {} /\ new.phase = "pending" /\ new.seen = NoCopy
      /\ new.snap = UnpublishedSource(AnyContent)
  BY DEF Pending, IdleRequest
<1> HIDE DEF new
<1>3. CopiesStay
  BY Unchanged
<1>4. /\ requests' \in [Requests -> Request] /\ VisitsNamed' /\ PublishedHasCopy'
      /\ \A o \in Requests :
           requests'[o].snap \in {requests[o].snap, source, UnpublishedSource(AnyContent)}
  BY <1>1, <1>2, ResetIInv DEF new
<1>5. ImagesBacked' /\ IndexBacked'
  BY <1>3, <1>4, ImagesStay, IndexStays
<1>6. QED
  BY <1>3, <1>4, <1>5, Collect, Unchanged DEF history

LEMMA NextIInv == IInv /\ [Next]_vars => IInv'
<1> SUFFICES ASSUME IInv, [Next]_vars PROVE IInv'
  OBVIOUS
<1>T. /\ source \in Source /\ requests \in [Requests -> Request]
      /\ copies \in [Collections -> Copy]
      /\ edit \in [busy : BOOLEAN, snap : Source, content : Contents]
      /\ retracted \in SUBSET Destinations /\ announced \in SUBSET Destinations
      /\ started \in Nat /\ reviewed \in SUBSET Collections
  BY DEF IInv, TypeOK
<1>V. ASSUME NEW r \in Requests
      PROVE  /\ requests[r] \in Request
             /\ Visits(requests[r].spaces, requests[r].groups, requests[r].friends)
                  \in SUBSET Collections
             /\ requests[r].todo \subseteq
                  Visits(requests[r].spaces, requests[r].groups, requests[r].friends)
  BY <1>T, <1>V, VisitsType DEF IInv, VisitsNamed, Request
<1>1. ASSUME NEW r \in Requests, NEW spaces \in SUBSET Spaces, NEW groups \in SUBSET Groups,
             NEW friends \in BOOLEAN,
             RequestPublish(r, spaces, groups, friends) \/ RequestRetract(r, spaces, groups, friends)
      PROVE  IInv'
  BY <1>1, Phase1IInv DEF RequestPublish, RequestRetract, Kinds
<1>2. ASSUME NEW r \in Requests, RequestRevise(r) PROVE IInv'
  <2>1. PICK spaces \in SUBSET Spaces, groups \in SUBSET Groups, friends \in BOOLEAN :
          /\ spaces = source.space_ids /\ groups = source.group_ids
          /\ friends = source.published_to_friends
    BY <1>T DEF Source
  <2>2. requests' = [requests EXCEPT ![r] = Pending("revise", spaces, groups, friends)]
    BY <1>2, <2>1 DEF RequestRevise
  <2>3. "revise" \in Kinds /\ UNCHANGED <<source, copies, index, edit, history>>
    BY <1>2 DEF RequestRevise, Kinds
  <2>4. QED
    BY <2>2, <2>3, Phase1IInv
<1>3. ASSUME NEW r \in Requests, Deny(r) \/ Crash(r) PROVE IInv'
  <2>1. /\ requests' = [requests EXCEPT ![r] = IdleRequest]
        /\ UNCHANGED <<source, copies, index, edit, history>>
    BY <1>3 DEF Deny, Crash
  <2>2. CopiesStay
    BY <2>1, Unchanged
  <2>3. /\ requests' \in [Requests -> Request] /\ VisitsNamed' /\ PublishedHasCopy'
        /\ \A o \in Requests :
             requests'[o].snap \in {requests[o].snap, source, UnpublishedSource(AnyContent)}
    BY <2>1, ResetIInv, IdleRequestType DEF IdleRequest
  <2>4. ImagesBacked' /\ IndexBacked'
    BY <2>1, <2>2, <2>3, ImagesStay, IndexStays
  <2>5. QED
    BY <2>1, <2>2, <2>3, <2>4, Collect, Unchanged DEF history
<1>4. ASSUME NEW r \in Requests, Confirm(r) PROVE IInv'
  <2> DEFINE q == requests[r]
             others == UNION {Names(requests[p]) : p \in {p \in Requests : Running(p)}}
             new == [q EXCEPT !.phase = "fetch", !.snap = source,
                              !.todo = Visits(q.spaces, q.groups, q.friends),
                              !.clear = Names(q) \ others]
  <2>1. requests' = [o \in Requests |->
                       IF o = r THEN new ELSE [requests[o] EXCEPT !.clear = @ \ Names(q)]]
    BY <1>4 DEF Confirm
  <2>2. q \in Request /\ Names(q) \in SUBSET Destinations
    BY <1>V, NamesType
  <2>3. new \in Request
    <3>1. Names(q) \ others \in SUBSET Destinations
      BY <2>2
    <3> HIDE DEF others
    <3>2. QED
      BY <2>2, <3>1, <1>T, <1>V DEF Request, Phases
  <2>4. \A o \in Requests : [requests[o] EXCEPT !.clear = @ \ Names(q)] \in Request
    BY <1>T DEF Request
  <2>5. /\ new.todo = Visits(q.spaces, q.groups, q.friends) /\ new.snap = source
        /\ new.spaces = q.spaces /\ new.groups = q.groups /\ new.friends = q.friends
        /\ new.ok = q.ok /\ new.phase = "fetch" /\ new.kind = q.kind /\ new.seen = q.seen
    BY <2>2 DEF Request
  <2>6. requests'[r] = new
        /\ \A o \in Requests \ {r} :
             /\ requests'[o].todo = requests[o].todo /\ requests'[o].snap = requests[o].snap
             /\ requests'[o].spaces = requests[o].spaces /\ requests'[o].groups = requests[o].groups
             /\ requests'[o].friends = requests[o].friends /\ requests'[o].ok = requests[o].ok
             /\ requests'[o].phase = requests[o].phase /\ requests'[o].kind = requests[o].kind
             /\ requests'[o].seen = requests[o].seen /\ requests'[o].at = requests[o].at
    <3> HIDE DEF new
    <3>1. QED
      BY <2>1, <1>T DEF Request
  <2>7. requests' \in [Requests -> Request]
    <3> HIDE DEF new
    <3>1. QED
      BY <2>1, <2>3, <2>4
  <2> HIDE DEF new
  <2>8. UNCHANGED <<source, copies, index, edit, reviewed>> /\ started' \in Nat
    <3>1. UNCHANGED <<source, copies, index, edit, reviewed>> /\ Start
      BY <1>4 DEF Confirm
    <3>2. QED
      BY <3>1, <1>T DEF Start
  <2>9. retracted' \in SUBSET Destinations /\ announced' \in SUBSET Destinations
    BY <1>4, <1>T DEF Confirm
  <2>10. CopiesStay
    BY <2>8, Unchanged
  <2>11. VisitsNamed'
    BY <2>5, <2>6 DEF IInv, VisitsNamed, HistoryBounded
  <2>12. PublishedHasCopy'
    BY <2>5, <2>6, <2>8 DEF IInv, PublishedHasCopy, HasCopy
  <2>13. ImagesBacked' /\ IndexBacked'
    BY <2>5, <2>6, <2>8, <2>10, ImagesStay, IndexStays
  <2>14. QED
    BY <2>7, <2>8, <2>9, <2>10, <2>11, <2>12, <2>13, Collect, Unchanged
<1>L. ASSUME NEW r \in Requests, NEW c \in Collections, NEW success \in BOOLEAN,
             CopiesStay, Leave(r, c, success), UNCHANGED <<source, edit>>,
             c \in Visits(requests[r].spaces, requests[r].groups, requests[r].friends),
             success /\ requests[r].kind = "publish" => c = Friends \/ copies'[c].exists
      PROVE  requests' \in [Requests -> Request] /\ VisitsNamed' /\ PublishedHasCopy' /\ ImagesBacked'
  <2>1. /\ requests' \in [Requests -> Request] /\ VisitsNamed' /\ PublishedHasCopy'
        /\ \A o \in Requests : requests'[o].snap = requests[o].snap
    BY <1>L, LeaveIInv
  <2>2. QED
    BY <1>L, <2>1, ImagesStay
<1>N. \A r \in Requests : NextCollections(requests[r].todo) \subseteq requests[r].todo
  BY DEF NextCollections
<1>5. ASSUME NEW r \in Requests, NEW c \in Collections, FetchCopy(r, c), Leave(r, c, FALSE)
      PROVE  IInv'
  <2>1. UNCHANGED <<source, copies, index, edit, history>>
          /\ c \in Visits(requests[r].spaces, requests[r].groups, requests[r].friends)
    BY <1>5, <1>N, <1>V DEF FetchCopy
  <2>2. CopiesStay
    BY <2>1, Unchanged
  <2>3. QED
    BY <2>1, <2>2, <1>5, <1>L, IndexStays, Collect, Unchanged DEF history
<1>6. ASSUME NEW r \in Requests, NEW c \in Collections, FetchCopy(r, c),
             NEW doc \in Fetched(requests[r].kind, c),
             requests' = [requests EXCEPT ![r].phase = "write", ![r].at = c, ![r].seen = doc]
      PROVE  IInv'
  <2> DEFINE q == requests[r]
             new == [q EXCEPT !.phase = "write", !.at = c, !.seen = doc]
  <2>1. UNCHANGED <<source, copies, index, edit, history>>
          /\ c \in Visits(q.spaces, q.groups, q.friends)
    BY <1>6, <1>N, <1>V DEF FetchCopy
  <2>2. CopiesStay
    BY <2>1, Unchanged
  <2>3. doc \in Copy /\ HistoryBounded(doc)
    <3>1. doc = copies[c] \/ doc = NoCopy
      BY DEF Fetched
    <3>2. HistoryBounded(copies[c]) /\ HistoryBounded(NoCopy)
      BY ValuesAssumption DEF IInv, TypeOK, HistoryBounded, NoCopy
    <3>3. QED
      BY <3>1, <3>2, <1>T, NoCopyType
  <2>4. requests' = [requests EXCEPT ![r] = new]
    BY <1>6, <1>T
  <2>5. new \in Request
    BY <1>V, <2>3 DEF Request, Phases
  <2>6. /\ new.todo = q.todo /\ new.snap = q.snap /\ new.spaces = q.spaces
        /\ new.groups = q.groups /\ new.friends = q.friends /\ new.ok = q.ok
        /\ new.phase = "write" /\ new.kind = q.kind /\ new.seen = doc /\ new.at = c
    BY <1>V DEF Request
  <2> HIDE DEF new
  <2>7. requests'[r] = new /\ \A o \in Requests \ {r} : requests'[o] = requests[o]
    BY <2>4, <1>T
  <2>8. requests' \in [Requests -> Request]
    BY <2>4, <2>5, <1>T
  <2>9. VisitsNamed'
    BY <2>1, <2>3, <2>6, <2>7 DEF IInv, VisitsNamed, HistoryBounded
  <2>10. PublishedHasCopy'
    BY <2>1, <2>6, <2>7 DEF IInv, PublishedHasCopy, HasCopy
  <2>11. ImagesBacked' /\ IndexBacked'
    BY <2>1, <2>2, <2>6, <2>7, ImagesStay, IndexStays
  <2>12. QED
    BY <2>1, <2>2, <2>8, <2>9, <2>10, <2>11, Collect, Unchanged DEF history
<1>7. ASSUME NEW r \in Requests, NEW c \in Collections, FetchFails(r, c) PROVE IInv'
  <2>1. UNCHANGED <<source, copies, index, edit, history>> /\ Leave(r, c, FALSE)
          /\ c \in Visits(requests[r].spaces, requests[r].groups, requests[r].friends)
    BY <1>7, <1>N, <1>V DEF FetchFails
  <2>2. CopiesStay
    BY <2>1, Unchanged
  <2>3. QED
    BY <2>1, <2>2, <1>L, IndexStays, Collect, Unchanged DEF history
<1>A. ASSUME NEW r \in Requests, requests[r].phase \in {"write", "index"}
      PROVE  \E c \in Collections :
               /\ c = requests[r].at
               /\ c \in Visits(requests[r].spaces, requests[r].groups, requests[r].friends)
  BY <1>A, <1>V DEF IInv, VisitsNamed
<1>8. ASSUME NEW r \in Requests, WriteCopy(r) PROVE IInv'
  <2>1. PICK c \in Collections :
          /\ c = requests[r].at
          /\ c \in Visits(requests[r].spaces, requests[r].groups, requests[r].friends)
    BY <1>8, <1>A DEF WriteCopy
  <2>2. WriteTo(r, c) /\ WriteAccepted(requests[r], c)
          /\ UNCHANGED <<source, index, edit, retracted, announced, started>>
    BY <1>8, <2>1 DEF WriteCopy
  <2>3. /\ copies' \in [Collections -> Copy] /\ \A d \in Collections : HistoryBounded(copies'[d])
        /\ CopiesStay
        /\ requests[r].kind = "publish" => copies'[c].exists
        /\ reviewed' \in SUBSET Collections
    BY <2>2, WriteToIInv
  <2>4. IndexBacked'
    BY <2>2, <2>3, IndexStays
  <2>5. CASE requests[r].kind # "publish"
    <3>1. Leave(r, c, TRUE)
      BY <1>8, <2>1, <2>5 DEF WriteCopy
    <3>2. QED
      BY <3>1, <2>1, <2>2, <2>3, <2>4, <2>5, <1>L, Collect, Unchanged
  <2>6. CASE requests[r].kind = "publish"
    <3> DEFINE q == requests[r]
               new == [q EXCEPT !.phase = "index"]
    <3>1. requests' = [requests EXCEPT ![r] = new]
      BY <1>8, <2>6, <1>T DEF WriteCopy
    <3>2. new \in Request
      BY <1>V DEF Request, Phases
    <3>3. /\ new.todo = q.todo /\ new.snap = q.snap /\ new.spaces = q.spaces
          /\ new.groups = q.groups /\ new.friends = q.friends /\ new.ok = q.ok
          /\ new.phase = "index" /\ new.kind = "publish" /\ new.seen = q.seen /\ new.at = c
      BY <1>V, <2>1, <2>6 DEF Request
    <3> HIDE DEF new
    <3>4. requests'[r] = new /\ \A o \in Requests \ {r} : requests'[o] = requests[o]
      BY <3>1, <1>T
    <3>5. requests' \in [Requests -> Request]
      BY <3>1, <3>2, <1>T
    <3>6. VisitsNamed'
      BY <2>1, <3>3, <3>4 DEF IInv, VisitsNamed, HistoryBounded
    <3>7. PublishedHasCopy'
      <4> SUFFICES ASSUME NEW o \in Requests
                   PROVE  LET p == requests'[o] IN
                          /\ p.kind = "publish" => \A d \in p.ok \ {Friends} : copies'[d].exists
                          /\ p.phase = "index" /\ p.at # Friends => copies'[p.at].exists
        BY DEF PublishedHasCopy, HasCopy
      <4>1. requests[o].kind = "publish" =>
              \A d \in requests[o].ok \ {Friends} : copies'[d].exists
        BY <1>V, <2>3 DEF IInv, PublishedHasCopy, HasCopy, CopiesStay, Request
      <4>2. CASE o = r
        BY <4>1, <4>2, <2>3, <2>6, <3>3, <3>4
      <4>3. CASE o # r
        <5>1. requests[o].phase = "index" => requests[o].at \in Collections
          BY <1>V DEF IInv, VisitsNamed
        <5>2. QED
          BY <4>1, <4>3, <5>1, <2>3, <3>4 DEF IInv, PublishedHasCopy, HasCopy, CopiesStay
      <4>4. QED
        BY <4>2, <4>3
    <3>8. ImagesBacked'
      BY <2>2, <2>3, <3>3, <3>4, ImagesStay
    <3>9. QED
      BY <2>2, <2>3, <2>4, <3>5, <3>6, <3>7, <3>8, Collect, Unchanged
  <2>7. QED
    BY <2>5, <2>6
<1>9. ASSUME NEW r \in Requests, WriteRejected(r) PROVE IInv'
  <2>1. PICK c \in Collections :
          /\ c = requests[r].at
          /\ c \in Visits(requests[r].spaces, requests[r].groups, requests[r].friends)
    BY <1>9, <1>A DEF WriteRejected
  <2>2. Leave(r, c, FALSE) /\ UNCHANGED <<source, copies, index, edit, history>>
    BY <1>9, <2>1 DEF WriteRejected
  <2>3. CopiesStay
    BY <2>2, Unchanged
  <2>4. QED
    BY <2>1, <2>2, <2>3, <1>L, IndexStays, Collect, Unchanged DEF history
<1>10. ASSUME NEW r \in Requests, WriteFails(r) PROVE IInv'
  <2>1. PICK c \in Collections :
          /\ c = requests[r].at
          /\ c \in Visits(requests[r].spaces, requests[r].groups, requests[r].friends)
    BY <1>10, <1>A DEF WriteFails
  <2>2. /\ Leave(r, c, FALSE) /\ UNCHANGED <<source, index, edit, retracted, announced, started>>
        /\ \/ WriteAccepted(requests[r], c) /\ UNCHANGED <<copies, reviewed>>
           \/ WriteTo(r, c)
    BY <1>10, <2>1 DEF WriteFails
  <2>3. /\ copies' \in [Collections -> Copy] /\ \A d \in Collections : HistoryBounded(copies'[d])
        /\ CopiesStay /\ reviewed' \in SUBSET Collections
    BY <2>1, <1>10, <2>2, WriteToIInv, Unchanged DEF WriteFails
  <2>4. QED
    BY <2>1, <2>2, <2>3, <1>L, IndexStays, Collect, Unchanged
<1>11. ASSUME NEW r \in Requests, IndexCopy(r) PROVE IInv'
  <2>1. PICK c \in Collections :
          /\ c = requests[r].at
          /\ c \in Visits(requests[r].spaces, requests[r].groups, requests[r].friends)
    BY <1>11, <1>A DEF IndexCopy
  <2>2. /\ Leave(r, c, TRUE) /\ UNCHANGED <<source, copies, edit, history>>
        /\ index' = c \/ UNCHANGED index
    BY <1>11, <2>1 DEF IndexCopy
  <2>3. CopiesStay
    BY <2>2, Unchanged
  <2>4. c = Friends \/ copies[c].exists
    BY <1>11, <2>1 DEF IInv, PublishedHasCopy, HasCopy, IndexCopy
  <2>5. index' \in Collections \cup {NoCollection} /\ IndexBacked'
    BY <2>2, <2>3, <2>4, IndexStays, Unchanged DEF IndexBacked, HasCopy
  <2>6. QED
    BY <2>1, <2>2, <2>3, <2>4, <2>5, <1>L, Collect, Unchanged DEF history
<1>12. ASSUME NEW r \in Requests, Track(r) PROVE IInv'
  <2> DEFINE q == requests[r]
  <2>1. /\ requests' = [requests EXCEPT ![r] = IdleRequest]
        /\ UNCHANGED <<copies, index, edit, reviewed, started>>
        /\ source' = Tracked(q, source) \/ UNCHANGED source
    BY <1>12 DEF Track
  <2>2. CopiesStay
    BY <2>1, Unchanged
  <2>3. /\ requests' \in [Requests -> Request] /\ VisitsNamed' /\ PublishedHasCopy'
        /\ \A o \in Requests :
             requests'[o].snap \in {requests[o].snap, source, UnpublishedSource(AnyContent)}
    BY <2>1, ResetIInv, IdleRequestType DEF IdleRequest
  <2>4. source' \in Source
    BY <2>1, <1>T, <1>V, TrackedType
  <2>5. Backed(Tracked(q, source))
    <3>1. Backed(source) /\ Backed(q.snap)
      BY DEF IInv, ImagesBacked
    <3>2. q.kind = "publish" => \A c \in q.ok \ {Friends} : HasCopy(c)
      BY DEF IInv, PublishedHasCopy
    <3>3. Friends \notin q.groups /\ Public # Friends
      BY <1>V, NamesAssumption DEF Request
    <3>4. CASE q.kind = "publish"
      BY <3>1, <3>2, <3>3, <3>4, <1>T, <1>V
      DEF Backed, Tracked, TrackPublished, Source, Request
    <3>5. CASE q.kind # "publish"
      BY <3>1, <3>5, <1>T, <1>V DEF Backed, Tracked, TrackRetracted, Source, Request
    <3>6. QED
      BY <3>4, <3>5
  <2>6. ImagesBacked'
    <3>1. source \in Source /\ edit.snap \in Source
            /\ \A o \in Requests : requests[o].snap \in Source
      BY <1>T DEF Request
    <3>2. Backed(source)' /\ Backed(edit.snap)'
      BY <2>1, <2>5 DEF IInv, ImagesBacked, Backed, HasCopy
    <3>3. \A o \in Requests : Backed(requests[o].snap)'
      BY <2>1, <2>3 DEF IInv, ImagesBacked, Backed, HasCopy, UnpublishedSource
    <3>4. QED
      BY <3>2, <3>3 DEF ImagesBacked
  <2>7. retracted' \in SUBSET Destinations /\ announced' \in SUBSET Destinations
    BY <1>12, <1>T, <1>V DEF Track, Reached, Request, Destinations
  <2>8. QED
    BY <2>1, <2>2, <2>3, <2>4, <2>6, <2>7, IndexStays, Collect, Unchanged
<1>13. ASSUME NEW content \in Contents, StartEdit(content) PROVE IInv'
  <2>1. /\ edit' = [busy |-> TRUE, snap |-> source, content |-> content]
        /\ UNCHANGED <<source, copies, index, requests, retracted, announced, reviewed>>
        /\ started' \in Nat
    BY <1>13, <1>T DEF StartEdit, Start
  <2>2. CopiesStay /\ edit' \in [busy : BOOLEAN, snap : Source, content : Contents]
    BY <2>1, <1>T, Unchanged
  <2>3. VisitsNamed' /\ PublishedHasCopy'
    BY <2>1 DEF IInv, VisitsNamed, PublishedHasCopy, HasCopy, HistoryBounded
  <2>4. ImagesBacked' /\ IndexBacked'
    BY <2>1, <2>2, ImagesStay, IndexStays
  <2>5. QED
    BY <1>T, <2>1, <2>2, <2>3, <2>4, Collect, Unchanged
<1>14. ASSUME FinishEdit PROVE IInv'
  <2>1. /\ source' = [edit.snap EXCEPT !.content = edit.content] \/ UNCHANGED source
        /\ edit' = IdleEdit
        /\ UNCHANGED <<copies, index, requests, history>>
    BY <1>14 DEF FinishEdit
  <2>2. CopiesStay /\ edit' \in [busy : BOOLEAN, snap : Source, content : Contents]
    BY <2>1, AnyContentType, UnpublishedSourceType, Unchanged DEF IdleEdit
  <2>3. source' \in Source /\ Backed(source)'
    BY <2>1, <1>T DEF Source, IInv, ImagesBacked, Backed, HasCopy
  <2>4. VisitsNamed' /\ PublishedHasCopy'
    BY <2>1 DEF IInv, VisitsNamed, PublishedHasCopy, HasCopy, HistoryBounded
  <2>5. ImagesBacked'
    BY <2>1, <2>3 DEF IInv, ImagesBacked, Backed, HasCopy, IdleEdit, UnpublishedSource
  <2>6. QED
    BY <1>T, <2>1, <2>2, <2>3, <2>4, <2>5, IndexStays, Collect, Unchanged DEF history
<1>15. ASSUME NEW c \in Collections, NEW status \in ModeratorActions, Moderate(c, status)
       PROVE  IInv'
  <2>1. /\ copies' = [copies EXCEPT ![c].moderation_status = status]
        /\ UNCHANGED <<source, index, requests, edit, retracted, announced, started>>
        /\ reviewed' \in SUBSET Collections
    BY <1>15, <1>T DEF Moderate
  <2>2. status \in ModerationStatuses
    BY ValuesAssumption DEF ModerationStatuses
  <2>3. \A d \in Collections :
          /\ copies'[d].exists = copies[d].exists
          /\ copies'[d].revision_history = copies[d].revision_history
    BY <2>1, <1>T DEF Copy
  <2>4. copies' \in [Collections -> Copy]
    <3>1. [copies[c] EXCEPT !.moderation_status = status] \in Copy
      BY <2>2, <1>T DEF Copy
    <3>2. QED
      BY <2>1, <3>1, <1>T
  <2>5. CopiesStay /\ \A d \in Collections : HistoryBounded(copies'[d])
    BY <2>3 DEF CopiesStay, HistoryBounded, IInv, TypeOK
  <2>6. VisitsNamed'
    BY <2>1 DEF IInv, VisitsNamed, HistoryBounded
  <2>7. PublishedHasCopy'
    <3> SUFFICES ASSUME NEW o \in Requests
                 PROVE  LET p == requests[o] IN
                        /\ p.kind = "publish" => \A d \in p.ok \ {Friends} : copies'[d].exists
                        /\ p.phase = "index" /\ p.at # Friends => copies'[p.at].exists
      BY <2>1 DEF PublishedHasCopy, HasCopy
    <3>1. requests[o].phase = "index" => requests[o].at \in Collections
      BY <1>V DEF IInv, VisitsNamed
    <3>2. QED
      BY <3>1, <2>3, <1>V DEF IInv, PublishedHasCopy, HasCopy, Request
  <2>8. ImagesBacked' /\ IndexBacked'
    BY <2>1, <2>5, ImagesStay, IndexStays
  <2>9. QED
    BY <1>T, <2>1, <2>4, <2>5, <2>6, <2>7, <2>8, Collect, Unchanged
<1>16. CASE UNCHANGED vars
  BY <1>16 DEF vars, IInv, TypeOK, VisitsNamed, PublishedHasCopy, ImagesBacked, IndexBacked,
               Backed, HasCopy, HistoryBounded
<1>17. QED
  BY <1>1, <1>2, <1>3, <1>4, <1>5, <1>6, <1>7, <1>8, <1>9, <1>10, <1>11, <1>12, <1>13, <1>14,
     <1>15, <1>16 DEF Next, RequestStep, FetchCopy

LEMMA SpecIInv == Spec => []IInv
<1>1. QED
  BY InitIInv, NextIInv, PTL DEF Spec

\* The documents and the running requests keep their shape.
THEOREM TypeCorrect == Spec => []TypeOK
<1>1. IInv => TypeOK
  BY DEF IInv
<1>2. QED
  BY <1>1, SpecIInv, PTL

\* Whatever overlaps, fails or dies, what the source tracks and what the index
\* names has a copy.
THEOREM TrackedCopiesExist == Spec => []TrackedHasCopy
<1>1. IInv => TrackedHasCopy
  BY DEF IInv, ImagesBacked, IndexBacked, Backed, HasCopy, TrackedHasCopy
<1>2. QED
  BY <1>1, SpecIInv, PTL

-----------------------------------------------------------------------------
(* Moderation of groups.                                                   *)

LEMMA InitModerated == Init => GroupsModerated
BY NamesAssumption
   DEF Init, GroupsModerated, FoundInGroup, Visible, NoCopy, Collections

\* A write shows a moderated group's copy only if it was shown before, and then
\* leaves its review alone.
LEMMA WriteToModerated ==
  ASSUME ~ConfigFaults, IInv, NEW r \in Requests, NEW c \in Collections, WriteTo(r, c),
         WriteAccepted(requests[r], c), GroupsModerated
  PROVE  GroupsModerated'
<1>1. copies \in [Collections -> Copy] /\ requests[r] \in Request
  BY DEF IInv, TypeOK
<1>2. PICK doc \in WrittenCopies(requests[r], c, copies[c]) : copies' = [copies EXCEPT ![c] = doc]
  BY DEF WriteTo
<1>3. copies'[c] = doc /\ \A d \in Collections \ {c} : copies'[d] = copies[d]
  <2>1. copies' \in [Collections -> Copy]
    BY WriteToIInv
  <2>2. QED
    BY <1>1, <1>2, <2>1
<1> SUFFICES ASSUME NEW g \in Groups \cap Moderated, FoundInGroup(g)'
             PROVE  g \in reviewed'
  BY DEF GroupsModerated
<1>4. g \in Collections /\ g # Public /\ g # Friends
  BY NamesAssumption DEF Collections
<1>5. copies'[g].exists /\ copies'[g].moderation_status = "approved"
  BY DEF FoundInGroup, Visible
<1>6. CASE g # c
  <2>1. FoundInGroup(g)
    BY <1>3, <1>4, <1>5, <1>6 DEF FoundInGroup, Visible
  <2>2. QED
    BY <1>6, <2>1 DEF GroupsModerated, WriteTo
<1>7. CASE g = c
  <2>1. CASE requests[r].kind = "publish"
    <3>1. PICK status \in InitialStatuses(requests[r], c) :
            doc = PublishedCopy(requests[r], c, copies[c], status)
      BY <1>2, <2>1 DEF WrittenCopies
    <3>2. status = "pending"
      BY <1>4, <1>7, <3>1 DEF InitialStatuses, RequiresModeration
    <3>3. doc.moderation_status = "pending"
      BY <1>1, <3>1, <3>2 DEF PublishedCopy, Copy
    <3>4. QED
      BY <1>3, <1>5, <1>7, <3>3
  <2>2. CASE requests[r].kind # "publish"
    <3>1. copies[c].exists
      BY <1>4, <1>7, <2>2 DEF WriteAccepted
    <3>2. doc.moderation_status = copies[c].moderation_status
      BY <1>1, <1>2, <1>4, <1>7, <2>2
         DEF WrittenCopies, RetractedCopy, RevisedCopy, Copy, Request, Kinds
    <3>3. FoundInGroup(g)
      BY <1>3, <1>5, <1>7, <3>1, <3>2 DEF FoundInGroup, Visible
    <3>4. QED
      BY <2>2, <3>3 DEF GroupsModerated, WriteTo
  <2>3. QED
    BY <2>1, <2>2
<1>8. QED
  BY <1>6, <1>7

LEMMA StepModerated ==
  ASSUME ~ConfigFaults, IInv, GroupsModerated, [Next]_vars
  PROVE  GroupsModerated'
<1>same. ASSUME UNCHANGED <<copies, reviewed>>
         PROVE  GroupsModerated'
  BY <1>same DEF GroupsModerated, FoundInGroup, Visible
<1>at. \A r \in Requests : requests[r].phase = "write" => requests[r].at \in Collections
  BY VisitsType DEF IInv, TypeOK, VisitsNamed, Request
<1>1. ASSUME NEW r \in Requests, WriteCopy(r) \/ WriteFails(r)
      PROVE  GroupsModerated'
  <2>1. /\ requests[r].phase = "write" /\ WriteAccepted(requests[r], requests[r].at)
        /\ WriteTo(r, requests[r].at) \/ UNCHANGED <<copies, reviewed>>
    BY <1>1 DEF WriteCopy, WriteFails
  <2>2. QED
    BY <1>same, <1>at, <2>1, WriteToModerated
<1>2. ASSUME NEW r \in Requests, NEW c \in Collections, FetchCopy(r, c) \/ FetchFails(r, c)
      PROVE  GroupsModerated'
  BY <1>2, <1>same DEF FetchCopy, FetchFails, history
<1>3. ASSUME NEW r \in Requests, NEW spaces \in SUBSET Spaces, NEW groups \in SUBSET Groups,
             NEW friends \in BOOLEAN,
             \/ RequestPublish(r, spaces, groups, friends)
             \/ RequestRetract(r, spaces, groups, friends)
      PROVE  GroupsModerated'
  BY <1>3, <1>same DEF RequestPublish, RequestRetract, history
<1>4. ASSUME NEW r \in Requests,
             \/ RequestRevise(r) \/ Deny(r) \/ Confirm(r) \/ WriteRejected(r)
             \/ IndexCopy(r) \/ Track(r) \/ Crash(r)
      PROVE  GroupsModerated'
  BY <1>4, <1>same
     DEF RequestRevise, Deny, Confirm, WriteRejected, IndexCopy, Track, Crash, history
<1>5. ASSUME NEW content \in Contents, StartEdit(content)
      PROVE  GroupsModerated'
  BY <1>5, <1>same DEF StartEdit
<1>6. CASE FinishEdit
  BY <1>6, <1>same DEF FinishEdit, history
<1>7. ASSUME NEW c \in Collections, NEW status \in ModeratorActions, Moderate(c, status)
      PROVE  GroupsModerated'
  <2>1. /\ copies' = [copies EXCEPT ![c].moderation_status = status]
        /\ reviewed' = IF status = "approved" THEN reviewed \cup {c} ELSE reviewed
    BY <1>7 DEF Moderate
  <2>2. /\ copies'[c].moderation_status = status
        /\ \A d \in Collections \ {c} : copies'[d] = copies[d]
    BY <2>1 DEF IInv, TypeOK, Copy
  <2>3. Groups \subseteq Collections
    BY DEF Collections
  <2>4. QED
    BY <2>1, <2>2, <2>3 DEF GroupsModerated, FoundInGroup, Visible
<1>8. CASE UNCHANGED vars
  BY <1>8, <1>same DEF vars, history
<1>9. QED
  BY <1>1, <1>2, <1>3, <1>4, <1>5, <1>6, <1>7, <1>8 DEF Next, RequestStep

\* As long as the configuration can be read, a group that requires moderation
\* shows only what a moderator approved since it was published, whatever else
\* overlaps, fails or dies.
THEOREM ModeratedGroupsReviewed ==
  ASSUME ~ConfigFaults
  PROVE  Spec => []GroupsModerated
<1>1. IInv /\ GroupsModerated /\ [Next]_vars => GroupsModerated'
  BY StepModerated
<1>2. QED
  BY <1>1, InitModerated, SpecIInv, PTL DEF Spec

-----------------------------------------------------------------------------
(* Revisions keep what they replace.                                       *)

\* Nobody else has named the collection since the request was confirmed.
Undisturbed(r) == Overlap => requests[r].at \in requests[r].clear

Revising(r) == requests[r].kind = "revise" /\ requests[r].phase = "write" /\ Undisturbed(r)

\* Requests that run at the same time are on record with each other.
OnRecord ==
  \A r, o \in Requests : r # o /\ Running(r) /\ Running(o) =>
    Overlap /\ Names(requests[o]) \cap requests[r].clear = {}

\* What an undisturbed revision has read is what is there.
AsRead ==
  \A r \in Requests : Revising(r) => requests[r].seen.content = copies[requests[r].at].content

\* A request that runs after a step ran before it under the same names, and if
\* it is about to write then, it read the copy before this step or in it.
GoesOn(r) ==
  Running(r)' =>
    /\ Running(r)
    /\ requests'[r].kind = requests[r].kind /\ Names(requests'[r]) = Names(requests[r])
    /\ requests'[r].clear = requests[r].clear
    /\ requests'[r].phase = "write" /\ requests'[r].kind = "revise" =>
         \/ /\ requests[r].phase = "write" /\ requests'[r].at = requests[r].at
            /\ requests'[r].seen = requests[r].seen
         \/ requests'[r].seen = copies[requests'[r].at] /\ UNCHANGED copies

LEMMA LeaveGoesOn ==
  ASSUME IInv, NEW r \in Requests, NEW c, NEW success \in BOOLEAN, Leave(r, c, success),
         Running(r)
  PROVE  \A o \in Requests : GoesOn(o)
<1>1. requests \in [Requests -> Request] /\ requests[r] \in Request
  BY DEF IInv, TypeOK
<1>2. /\ requests'[r].phase = "fetch" /\ requests'[r].kind = requests[r].kind
      /\ requests'[r].clear = requests[r].clear /\ requests'[r].spaces = requests[r].spaces
      /\ requests'[r].groups = requests[r].groups /\ requests'[r].friends = requests[r].friends
      /\ \A o \in Requests \ {r} : requests'[o] = requests[o]
  BY <1>1 DEF Leave, Request
<1>3. QED
  BY <1>2 DEF GoesOn, Running, Names

LEMMA ResetGoesOn ==
  ASSUME IInv, NEW r \in Requests, NEW new, new.phase \in {"idle", "pending"},
         requests' = [requests EXCEPT ![r] = new]
  PROVE  \A o \in Requests : GoesOn(o)
<1>1. requests'[r] = new /\ \A o \in Requests \ {r} : requests'[o] = requests[o]
  BY DEF IInv, TypeOK
<1>2. QED
  BY <1>1 DEF GoesOn, Running

LEMMA RequestsGoOn ==
  ASSUME IInv, [Next]_vars, \A r \in Requests : ~Confirm(r)
  PROVE  \A o \in Requests : GoesOn(o)
<1>T. requests \in [Requests -> Request]
  BY DEF IInv, TypeOK
<1>same. ASSUME UNCHANGED requests
         PROVE  \A o \in Requests : GoesOn(o)
  BY <1>same DEF GoesOn, Running
<1>idle. /\ IdleRequest.phase = "idle"
         /\ \A kind, spaces, groups, friends :
              Pending(kind, spaces, groups, friends).phase = "pending"
  BY DEF IdleRequest, Pending
<1>1. ASSUME NEW r \in Requests, NEW spaces \in SUBSET Spaces, NEW groups \in SUBSET Groups,
             NEW friends \in BOOLEAN,
             RequestPublish(r, spaces, groups, friends) \/ RequestRetract(r, spaces, groups, friends)
      PROVE  \A o \in Requests : GoesOn(o)
  BY <1>1, <1>idle, ResetGoesOn DEF RequestPublish, RequestRetract
<1>2. ASSUME NEW r \in Requests, RequestRevise(r) \/ Deny(r) \/ Track(r) \/ Crash(r)
      PROVE  \A o \in Requests : GoesOn(o)
  BY <1>2, <1>idle, ResetGoesOn DEF RequestRevise, Deny, Track, Crash
<1>3. ASSUME NEW r \in Requests, NEW c \in Collections, FetchCopy(r, c)
      PROVE  \A o \in Requests : GoesOn(o)
  <2>1. requests[r].phase = "fetch" /\ Running(r) /\ UNCHANGED copies
    BY <1>3 DEF FetchCopy, Running
  <2>2. CASE Leave(r, c, FALSE)
    BY <2>1, <2>2, LeaveGoesOn
  <2>3. ASSUME NEW doc \in Fetched(requests[r].kind, c),
               requests' = [requests EXCEPT ![r].phase = "write", ![r].at = c, ![r].seen = doc]
        PROVE  \A o \in Requests : GoesOn(o)
    <3>1. requests[r] \in Request
      BY <1>T
    <3>2. /\ requests'[r].phase = "write" /\ requests'[r].kind = requests[r].kind
          /\ requests'[r].clear = requests[r].clear /\ requests'[r].spaces = requests[r].spaces
          /\ requests'[r].groups = requests[r].groups /\ requests'[r].friends = requests[r].friends
          /\ requests'[r].at = c /\ requests'[r].seen = doc
          /\ \A o \in Requests \ {r} : requests'[o] = requests[o]
      BY <1>T, <2>3, <3>1 DEF Request
    <3>3. requests[r].kind = "revise" => doc = copies[c]
      BY <2>3 DEF Fetched
    <3>4. QED
      BY <2>1, <3>2, <3>3 DEF GoesOn, Running, Names
  <2>4. QED
    BY <1>3, <2>2, <2>3 DEF FetchCopy
<1>4. ASSUME NEW r \in Requests, NEW c \in Collections, FetchFails(r, c)
      PROVE  \A o \in Requests : GoesOn(o)
  BY <1>4, LeaveGoesOn DEF FetchFails, Running
<1>5. ASSUME NEW r \in Requests, WriteRejected(r) \/ WriteFails(r) \/ IndexCopy(r)
      PROVE  \A o \in Requests : GoesOn(o)
  BY <1>5, LeaveGoesOn DEF WriteRejected, WriteFails, IndexCopy, Running
<1>6. ASSUME NEW r \in Requests, WriteCopy(r)
      PROVE  \A o \in Requests : GoesOn(o)
  <2>1. requests[r].phase = "write" /\ Running(r)
    BY <1>6 DEF WriteCopy, Running
  <2>2. CASE requests' = [requests EXCEPT ![r].phase = "index"]
    <3>1. requests[r] \in Request
      BY <1>T
    <3>2. /\ requests'[r].phase = "index" /\ requests'[r].kind = requests[r].kind
          /\ requests'[r].clear = requests[r].clear /\ requests'[r].spaces = requests[r].spaces
          /\ requests'[r].groups = requests[r].groups /\ requests'[r].friends = requests[r].friends
          /\ \A o \in Requests \ {r} : requests'[o] = requests[o]
      BY <1>T, <2>2, <3>1 DEF Request
    <3>3. QED
      BY <2>1, <3>2 DEF GoesOn, Running, Names
  <2>3. CASE Leave(r, requests[r].at, TRUE)
    BY <2>1, <2>3, LeaveGoesOn
  <2>4. QED
    BY <1>6, <2>2, <2>3 DEF WriteCopy
<1>7. ASSUME NEW c \in Collections, NEW status \in ModeratorActions, Moderate(c, status)
      PROVE  \A o \in Requests : GoesOn(o)
  BY <1>7, <1>same DEF Moderate
<1>8. ASSUME NEW content \in Contents, StartEdit(content)
      PROVE  \A o \in Requests : GoesOn(o)
  BY <1>8, <1>same DEF StartEdit
<1>9. CASE FinishEdit \/ UNCHANGED vars
  BY <1>9, <1>same DEF FinishEdit, vars
<1>10. QED
  BY <1>1, <1>2, <1>3, <1>4, <1>5, <1>6, <1>7, <1>8, <1>9 DEF Next, RequestStep

\* Only the write of a request changes what a copy says, and only at its collection.
LEMMA ContentsWritten ==
  ASSUME IInv, [Next]_vars
  PROVE  \/ \A c \in Collections : copies'[c].content = copies[c].content
         \/ \E r \in Requests :
              /\ requests[r].phase = "write" /\ WriteTo(r, requests[r].at)
              /\ requests[r].at \in Collections /\ requests'[r].phase # "write"
              /\ \A c \in Collections \ {requests[r].at} : copies'[c] = copies[c]
<1>T. copies \in [Collections -> Copy] /\ requests \in [Requests -> Request]
  BY DEF IInv, TypeOK
<1>at. \A r \in Requests : requests[r].phase = "write" => requests[r].at \in Collections
  BY VisitsType DEF IInv, TypeOK, VisitsNamed, Request
<1>1. ASSUME NEW r \in Requests, WriteCopy(r) \/ WriteFails(r), ~UNCHANGED copies
      PROVE  \E o \in Requests :
               /\ requests[o].phase = "write" /\ WriteTo(o, requests[o].at)
               /\ requests[o].at \in Collections /\ requests'[o].phase # "write"
               /\ \A c \in Collections \ {requests[o].at} : copies'[c] = copies[c]
  <2>1. requests[r].phase = "write" /\ WriteTo(r, requests[r].at)
    BY <1>1 DEF WriteCopy, WriteFails
  <2>2. \A c \in Collections \ {requests[r].at} : copies'[c] = copies[c]
    BY <1>T, <2>1 DEF WriteTo
  <2>3. requests'[r].phase # "write"
    <3>1. CASE requests' = [requests EXCEPT ![r].phase = "index"]
      BY <1>T, <3>1 DEF Request
    <3>2. ASSUME NEW success \in BOOLEAN, Leave(r, requests[r].at, success)
          PROVE  requests'[r].phase # "write"
      BY <1>T, <3>2 DEF Leave, Request
    <3>3. QED
      BY <1>1, <3>1, <3>2 DEF WriteCopy, WriteFails
  <2>4. QED
    BY <1>at, <2>1, <2>2, <2>3
<1>2. ASSUME NEW d \in Collections, NEW status \in ModeratorActions, Moderate(d, status)
      PROVE  \A c \in Collections : copies'[c].content = copies[c].content
  <2>1. copies' = [copies EXCEPT ![d].moderation_status = status]
    BY <1>2 DEF Moderate
  <2>2. QED
    BY <1>T, <2>1 DEF Copy
<1>3. ASSUME NEW r \in Requests, NEW spaces \in SUBSET Spaces, NEW groups \in SUBSET Groups,
             NEW friends \in BOOLEAN,
             RequestPublish(r, spaces, groups, friends) \/ RequestRetract(r, spaces, groups, friends)
      PROVE  UNCHANGED copies
  BY <1>3 DEF RequestPublish, RequestRetract
<1>4. ASSUME NEW r \in Requests,
             \/ RequestRevise(r) \/ Deny(r) \/ Confirm(r) \/ WriteRejected(r)
             \/ IndexCopy(r) \/ Track(r) \/ Crash(r)
      PROVE  UNCHANGED copies
  BY <1>4 DEF RequestRevise, Deny, Confirm, WriteRejected, IndexCopy, Track, Crash
<1>5. ASSUME NEW r \in Requests, NEW c \in Collections, FetchCopy(r, c) \/ FetchFails(r, c)
      PROVE  UNCHANGED copies
  BY <1>5 DEF FetchCopy, FetchFails
<1>6. ASSUME (\E content \in Contents : StartEdit(content)) \/ FinishEdit \/ UNCHANGED vars
      PROVE  UNCHANGED copies
  BY <1>6 DEF StartEdit, FinishEdit, vars
<1>7. \/ UNCHANGED copies
      \/ \E r \in Requests : WriteCopy(r) \/ WriteFails(r)
      \/ \E c \in Collections, status \in ModeratorActions : Moderate(c, status)
  BY <1>3, <1>4, <1>5, <1>6 DEF Next, RequestStep
<1>8. QED
  BY <1>1, <1>2, <1>7

\* A request that writes is on record with every revision of the same copy.
LEMMA WritersKnown ==
  ASSUME IInv, OnRecord, NEW r \in Requests, NEW o \in Requests, r # o,
         requests[o].phase = "write", Revising(r), requests[o].at = requests[r].at
  PROVE  FALSE
<1>1. Running(r) /\ Running(o) /\ requests[r] \in Request /\ requests[o] \in Request
  BY DEF Revising, Running, IInv, TypeOK
<1>2. Overlap /\ Names(requests[o]) \cap requests[r].clear = {}
  BY <1>1 DEF OnRecord
<1>3. requests[o].at \in requests[r].clear
  BY <1>2 DEF Revising, Undisturbed
<1>4. requests[o].at # Public
  BY <1>1, <1>3, NamesAssumption DEF Request, Destinations
<1>5. requests[o].at \in Names(requests[o])
  BY <1>4 DEF IInv, VisitsNamed, Visits, Names
<1>6. QED
  BY <1>2, <1>3, <1>5

LEMMA StepOnRecord ==
  ASSUME IInv, OnRecord, [Next]_vars
  PROVE  OnRecord'
<1>T. requests \in [Requests -> Request]
  BY DEF IInv, TypeOK
<1>1. CASE \A r \in Requests : ~Confirm(r)
  BY <1>1, RequestsGoOn DEF OnRecord, GoesOn
<1>2. ASSUME NEW r \in Requests, Confirm(r)
      PROVE  OnRecord'
  <2> DEFINE q == requests[r]
             others == UNION {Names(requests[p]) : p \in {p \in Requests : Running(p)}}
             new == [q EXCEPT !.phase = "fetch", !.snap = source,
                              !.todo = Visits(q.spaces, q.groups, q.friends),
                              !.clear = Names(q) \ others]
  <2>1. /\ requests' = [o \in Requests |->
             IF o = r THEN new ELSE [requests[o] EXCEPT !.clear = @ \ Names(q)]]
        /\ Overlap \/ Quiet
    BY <1>2 DEF Confirm, Start
  <2>2. requests[r] \in Request /\ \A o \in Requests : requests[o] \in Request
    BY <1>T
  <2>3. /\ requests'[r].clear = Names(q) \ others /\ Names(requests'[r]) = Names(q)
    BY <2>1, <2>2 DEF Request, Names
  <2>4. ASSUME NEW o \in Requests \ {r}
        PROVE  /\ requests'[o].clear = requests[o].clear \ Names(q)
               /\ Names(requests'[o]) = Names(requests[o]) /\ Running(o)' = Running(o)
    <3>1. requests'[o] = [requests[o] EXCEPT !.clear = @ \ Names(q)] /\ requests[o] \in Request
      BY <2>1, <2>2
    <3>2. /\ requests'[o].clear = requests[o].clear \ Names(q)
          /\ requests'[o].phase = requests[o].phase /\ requests'[o].spaces = requests[o].spaces
          /\ requests'[o].groups = requests[o].groups
          /\ requests'[o].friends = requests[o].friends
      BY <3>1 DEF Request
    <3>3. QED
      BY <3>2 DEF Names, Running
  <2>5. \A o \in Requests : Running(o) => Names(requests[o]) \subseteq others
    OBVIOUS
  <2> HIDE DEF others, new, q
  <2>6. ASSUME NEW a \in Requests, NEW b \in Requests, a # b, Running(a)', Running(b)'
        PROVE  Overlap /\ Names(requests'[b]) \cap requests'[a].clear = {}
    <3>1. CASE a = r
      <4>1. Running(b) /\ Names(requests'[b]) = Names(requests[b])
        BY <2>4, <2>6, <3>1
      <4>2. QED
        BY <2>1, <2>3, <2>5, <3>1, <4>1 DEF Quiet
    <3>2. CASE b = r
      <4>1. Running(a) /\ requests'[a].clear = requests[a].clear \ Names(q)
        BY <2>4, <2>6, <3>2
      <4>2. QED
        BY <2>1, <2>3, <3>2, <4>1 DEF Quiet
    <3>3. CASE a # r /\ b # r
      BY <2>4, <2>6, <3>3 DEF OnRecord
    <3>4. QED
      BY <3>1, <3>2, <3>3
  <2>7. QED
    BY <2>6 DEF OnRecord
<1>3. QED
  BY <1>1, <1>2

LEMMA StepAsRead ==
  ASSUME IInv, OnRecord, AsRead, [Next]_vars
  PROVE  AsRead'
<1>T. requests \in [Requests -> Request]
  BY DEF IInv, TypeOK
\* The copy an undisturbed revision is at stays what it is until it writes.
<1>stays. ASSUME NEW r \in Requests, Revising(r), requests'[r].phase = "write",
                 requests'[r].at = requests[r].at
          PROVE  copies'[requests[r].at].content = copies[requests[r].at].content
  <2>1. requests[r].at \in Collections
    BY <1>stays, VisitsType DEF IInv, TypeOK, VisitsNamed, Request, Revising
  <2>2. CASE \A c \in Collections : copies'[c].content = copies[c].content
    BY <2>1, <2>2
  <2>3. ASSUME NEW o \in Requests, requests[o].phase = "write",
               \A c \in Collections \ {requests[o].at} : copies'[c] = copies[c],
               requests[o].at = requests[r].at, requests'[o].phase # "write"
        PROVE  FALSE
    <3>1. o = r
      BY <1>stays, <2>3, WritersKnown
    <3>2. QED
      BY <1>stays, <2>3, <3>1
  <2>4. QED
    BY <2>1, <2>2, <2>3, ContentsWritten
<1>1. CASE \A r \in Requests : ~Confirm(r)
  <2>1. ASSUME NEW r \in Requests, Revising(r)'
        PROVE  requests'[r].seen.content = copies'[requests'[r].at].content
    <3>1. /\ requests'[r].kind = "revise" /\ requests'[r].phase = "write"
          /\ Overlap => requests'[r].at \in requests'[r].clear
      BY <2>1 DEF Revising, Undisturbed
    <3>2. Running(r)'
      BY <3>1 DEF Running
    <3>3. GoesOn(r)
      BY <1>1, RequestsGoOn
    <3>4. /\ requests[r].kind = "revise" /\ requests[r].clear = requests'[r].clear
          /\ \/ /\ requests[r].phase = "write" /\ requests'[r].at = requests[r].at
                /\ requests'[r].seen = requests[r].seen
             \/ requests'[r].seen = copies[requests'[r].at] /\ UNCHANGED copies
      BY <3>1, <3>2, <3>3 DEF GoesOn
    <3>5. CASE requests'[r].seen = copies[requests'[r].at] /\ UNCHANGED copies
      BY <3>5
    <3>6. CASE /\ requests[r].phase = "write" /\ requests'[r].at = requests[r].at
               /\ requests'[r].seen = requests[r].seen
      <4>1. Revising(r)
        BY <3>1, <3>4, <3>6 DEF Revising, Undisturbed
      <4>2. requests[r].seen.content = copies[requests[r].at].content
        BY <4>1 DEF AsRead
      <4>3. copies'[requests[r].at].content = copies[requests[r].at].content
        BY <1>stays, <3>1, <3>6, <4>1
      <4>4. QED
        BY <3>6, <4>2, <4>3
    <3>7. QED
      BY <3>4, <3>5, <3>6
  <2>2. QED
    BY <2>1 DEF AsRead
<1>2. ASSUME NEW r \in Requests, Confirm(r)
      PROVE  AsRead'
  <2>1. requests'[r].phase = "fetch" /\ UNCHANGED copies
    BY <1>T, <1>2 DEF Confirm, Request
  <2>2. ASSUME NEW o \in Requests \ {r}
        PROVE  /\ requests'[o].kind = requests[o].kind /\ requests'[o].phase = requests[o].phase
               /\ requests'[o].at = requests[o].at /\ requests'[o].seen = requests[o].seen
               /\ requests'[o].clear \subseteq requests[o].clear
    <3>1. /\ requests'[o] = [requests[o] EXCEPT !.clear = @ \ Names(requests[r])]
          /\ requests[o] \in Request
      BY <1>T, <1>2 DEF Confirm
    <3>2. QED
      BY <3>1 DEF Request
  <2>3. ASSUME NEW o \in Requests, Revising(o)'
        PROVE  requests'[o].seen.content = copies'[requests'[o].at].content
    <3>1. o # r
      BY <2>1, <2>3 DEF Revising
    <3>2. Revising(o)
      BY <2>2, <2>3, <3>1 DEF Revising, Undisturbed
    <3>3. QED
      BY <2>1, <2>2, <3>1, <3>2 DEF AsRead
  <2>4. QED
    BY <2>3 DEF AsRead
<1>3. QED
  BY <1>1, <1>2

LEMMA InitRevisions ==
  ASSUME Init
  PROVE  OnRecord /\ AsRead
<1>1. \A r \in Requests : requests[r].phase = "idle"
  BY DEF Init, IdleRequest
<1>2. QED
  BY <1>1 DEF OnRecord, AsRead, Revising, Running

\* The newest entry of a revision history is the content it was built for.
LEMMA NewestFirst ==
  ASSUME NEW text \in Contents, NEW old \in Seq(Contents), MaxRevisionHistory > 0
  PROVE  /\ BuildRevisionHistory(text, old) # <<>>
         /\ Head(BuildRevisionHistory(text, old)) = text
<1> DEFINE n == IF Len(old) < MaxRevisionHistory THEN Len(old) + 1 ELSE MaxRevisionHistory
           all == <<text>> \o old
<1>1. n \in Nat /\ n > 0 /\ n <= Len(old) + 1
  BY ValuesAssumption
<1>2. all \in Seq(Contents) /\ Len(all) = Len(old) + 1 /\ all[1] = text
  OBVIOUS
<1> HIDE DEF n, all
<1>3. /\ SubSeq(all, 1, n) \in Seq(Contents) /\ Len(SubSeq(all, 1, n)) = n
      /\ SubSeq(all, 1, n)[1] = all[1]
  BY <1>1, <1>2
<1>4. SubSeq(all, 1, n) # <<>> /\ Head(SubSeq(all, 1, n)) = text
  BY <1>1, <1>2, <1>3
<1>5. QED
  BY <1>4 DEF BuildRevisionHistory, n, all

LEMMA StepKeepsContent ==
  ASSUME IInv, OnRecord, AsRead, [Next]_vars, MaxRevisionHistory > 0,
         NEW r \in Requests, NEW c \in Collections,
         requests[r].kind = "revise", requests[r].phase = "write", requests[r].at = c,
         Overlap => c \in requests[r].clear,
         copies'[c].content # copies[c].content
  PROVE  /\ copies'[c].revision_history # <<>>
         /\ Head(copies'[c].revision_history) = copies[c].content
<1>T. copies \in [Collections -> Copy] /\ requests[r] \in Request
  BY DEF IInv, TypeOK
<1>1. Revising(r)
  BY DEF Revising, Undisturbed
<1>2. WriteTo(r, c)
  <2>1. PICK o \in Requests :
          /\ requests[o].phase = "write" /\ WriteTo(o, requests[o].at)
          /\ \A d \in Collections \ {requests[o].at} : copies'[d] = copies[d]
    BY ContentsWritten
  <2>2. requests[o].at = c
    BY <2>1
  <2>3. o = r
    BY <1>1, <2>1, <2>2, WritersKnown
  <2>4. QED
    BY <2>1, <2>2, <2>3
<1> DEFINE q == requests[r]
<1>3. copies'[c] = RevisedCopy(q, copies[c])
  BY <1>T, <1>2 DEF WriteTo, WrittenCopies
<1>4. /\ q.seen \in Copy /\ q.seen.content = copies[c].content /\ copies[c] \in Copy
  BY <1>T, <1>1 DEF AsRead, Request
<1>5. /\ copies'[c].content = q.snap.content
      /\ copies'[c].revision_history = IF q.seen.content # q.snap.content
                            THEN BuildRevisionHistory(q.seen.content, q.seen.revision_history)
                            ELSE q.seen.revision_history
  BY <1>3, <1>4 DEF RevisedCopy, Copy
<1>6. /\ copies'[c].revision_history
           = BuildRevisionHistory(q.seen.content, q.seen.revision_history)
      /\ q.seen.content \in Contents /\ q.seen.revision_history \in Seq(Contents)
  BY <1>4, <1>5 DEF Copy
<1>7. QED
  BY <1>4, <1>6, NewestFirst

\* A revision never loses what it replaces unless another request to the same
\* destination overlaps it: executeRevise puts the replaced content at the head
\* of the copy's history, whatever fails or dies.
THEOREM RevisionsKeepContent ==
  ASSUME MaxRevisionHistory > 0
  PROVE  Spec => RevisionKeepsContent
<1>1. IInv /\ OnRecord /\ AsRead /\ [Next]_vars => (OnRecord /\ AsRead)'
  BY StepOnRecord, StepAsRead
<1> DEFINE Kept ==
      \A r \in Requests, c \in Collections :
       /\ requests[r].kind = "revise" /\ requests[r].phase = "write" /\ requests[r].at = c
       /\ Overlap => c \in requests[r].clear
       /\ copies'[c].content # copies[c].content
       => /\ copies'[c].revision_history # <<>>
          /\ Head(copies'[c].revision_history) = copies[c].content
<1>2. IInv /\ OnRecord /\ AsRead /\ [Next]_vars => Kept
  BY StepKeepsContent
<1>3. IInv /\ OnRecord /\ AsRead /\ [Next]_vars => [Kept]_vars
  BY <1>2
<1>4. Spec => [][Kept]_vars
  BY <1>1, <1>3, InitRevisions, SpecIInv, PTL DEF Spec
<1>5. QED
  BY <1>4 DEF RevisionKeepsContent

-----------------------------------------------------------------------------
(* Publication implements the registry: for the groups and the friends     *)
(* whatever overlaps, fails or dies; for the spaces, which share a copy,   *)
(* when one request is executed at a time and nothing fails.               *)
(*                                                                         *)
(* What the registry sees of the running requests changes only when one is *)
(* confirmed or ends; what it sees of the copies only when one is written, *)
(* and then only in the collection that is written.                        *)

View(q, ds) ==
  IF q.phase \in {"fetch", "write", "index"}
    THEN [kind |-> q.kind, dests |-> Names(q) \cap ds]
    ELSE [kind |-> "none", dests |-> {}]

LEMMA RunningOverView ==
  ASSUME NEW ds
  PROVE  RunningOver(ds) = [r \in Requests |-> View(requests[r], ds)]
  BY DEF RunningOver, Running, View

LEMMA RunningOverViewNext ==
  ASSUME NEW ds
  PROVE  RunningOver(ds)' = [r \in Requests |-> View(requests'[r], ds)]
  BY DEF RunningOver, Running, View

\* A step on which every request keeps its view.
LEMMA SameViews ==
  ASSUME NEW ds, \A r \in Requests : View(requests'[r], ds) = View(requests[r], ds)
  PROVE  RunningOver(ds)' = RunningOver(ds)
  BY RunningOverView, RunningOverViewNext

\* A step on which the view of r becomes v.
LEMMA OneView ==
  ASSUME NEW ds, NEW r \in Requests, NEW v, View(requests'[r], ds) = v,
         \A o \in Requests \ {r} : View(requests'[o], ds) = View(requests[o], ds)
  PROVE  RunningOver(ds)' = [RunningOver(ds) EXCEPT ![r] = v]
  BY RunningOverView, RunningOverViewNext

LEMMA LeaveKeepsViews ==
  ASSUME requests \in [Requests -> Request], NEW ds, NEW r \in Requests,
         NEW c \in Collections, NEW success \in BOOLEAN,
         Leave(r, c, success), requests[r].phase \in {"fetch", "write", "index"}
  PROVE  RunningOver(ds)' = RunningOver(ds)
<1> DEFINE q == requests[r]
           new == [q EXCEPT !.phase = "fetch", !.at = NoCollection, !.seen = NoCopy,
                            !.todo = @ \ {c}, !.ok = IF success THEN @ \cup {c} ELSE @]
<1>1. requests' = [requests EXCEPT ![r] = new]
  BY DEF Leave
<1>2. /\ new.phase = "fetch" /\ new.kind = q.kind /\ new.spaces = q.spaces
      /\ new.groups = q.groups /\ new.friends = q.friends
  BY DEF Request
<1> HIDE DEF new
<1>3. requests'[r] = new /\ \A o \in Requests \ {r} : requests'[o] = requests[o]
  BY <1>1
<1>4. View(new, ds) = View(q, ds)
  BY <1>2 DEF View, Names
<1>5. \A o \in Requests : View(requests'[o], ds) = View(requests[o], ds)
  BY <1>3, <1>4
<1>6. QED
  BY <1>5, SameViews

LEMMA ConfirmView ==
  ASSUME requests \in [Requests -> Request], NEW ds, NEW r \in Requests, Confirm(r)
  PROVE  /\ RunningOver(ds)[r] = [kind |-> "none", dests |-> {}]
         /\ RunningOver(ds)' = [RunningOver(ds) EXCEPT
                ![r] = [kind |-> requests[r].kind, dests |-> Names(requests[r]) \cap ds]]
<1> DEFINE q == requests[r]
           new == [q EXCEPT !.phase = "fetch", !.snap = source,
                            !.todo = Visits(q.spaces, q.groups, q.friends),
                            !.clear = Names(q) \ UNION {Names(requests[p]) :
                                        p \in {p \in Requests : Running(p)}}]
<1>1. /\ requests' = [o \in Requests |->
            IF o = r THEN new ELSE [requests[o] EXCEPT !.clear = @ \ Names(q)]]
      /\ q.phase = "pending"
  BY DEF Confirm
<1>2. /\ new.phase = "fetch" /\ new.kind = q.kind /\ new.spaces = q.spaces
      /\ new.groups = q.groups /\ new.friends = q.friends
  BY DEF Request
<1> HIDE DEF new
<1>3. View(requests'[r], ds) = [kind |-> q.kind, dests |-> Names(q) \cap ds]
  BY <1>1, <1>2 DEF View, Names
<1>4. ASSUME NEW o \in Requests \ {r}
      PROVE  View(requests'[o], ds) = View(requests[o], ds)
  <2>1. requests'[o] = [requests[o] EXCEPT !.clear = @ \ Names(q)] /\ requests[o] \in Request
    BY <1>1
  <2>2. QED
    BY <2>1 DEF View, Names, Request
<1>5. RunningOver(ds)[r] = [kind |-> "none", dests |-> {}]
  BY <1>1, RunningOverView DEF View
<1>6. RunningOver(ds)' = [RunningOver(ds) EXCEPT ![r] = [kind |-> q.kind, dests |-> Names(q) \cap ds]]
  BY <1>3, <1>4, OneView
<1>7. QED
  BY <1>5, <1>6

\* A request that is not running becomes or is replaced by one that is not.
LEMMA ResetView ==
  ASSUME requests \in [Requests -> Request], NEW ds, NEW r \in Requests, NEW new \in Request,
         new.phase \in {"idle", "pending"},
         requests' = [requests EXCEPT ![r] = new]
  PROVE  RunningOver(ds)' = [RunningOver(ds) EXCEPT ![r] = [kind |-> "none", dests |-> {}]]
<1>1. View(requests'[r], ds) = [kind |-> "none", dests |-> {}]
  BY DEF View
<1>2. \A o \in Requests \ {r} : View(requests'[o], ds) = View(requests[o], ds)
  OBVIOUS
<1>3. QED
  BY <1>1, <1>2, OneView

\* Steps that neither write a copy nor confirm or end a request.
LEMMA SameListed ==
  ASSUME UNCHANGED copies, NEW ds
  PROVE  {d \in ds : Listed(d)}' = {d \in ds : Listed(d)}
  BY DEF Listed

LEMMA EditKeepsRegistry ==
  ASSUME UNCHANGED <<copies, requests>>, NEW ds
  PROVE  RunningOver(ds)' = RunningOver(ds) /\ {d \in ds : Listed(d)}' = {d \in ds : Listed(d)}
  BY SameListed DEF RunningOver, Running

\* What a step is to a registry over ds: nothing, the beginning or the end of a
\* request, or a write to one collection.
Stutters(ds) == /\ {d \in ds : Listed(d)}' = {d \in ds : Listed(d)}
                /\ RunningOver(ds)' = RunningOver(ds)

Begins(ds, r) ==
  /\ {d \in ds : Listed(d)}' = {d \in ds : Listed(d)}
  /\ RunningOver(ds)[r] = [kind |-> "none", dests |-> {}]
  /\ RunningOver(ds)' = [RunningOver(ds) EXCEPT
       ![r] = [kind |-> requests[r].kind, dests |-> Names(requests[r]) \cap ds]]

Ends(ds, r) ==
  /\ {d \in ds : Listed(d)}' = {d \in ds : Listed(d)}
  /\ RunningOver(ds)' = [RunningOver(ds) EXCEPT ![r] = [kind |-> "none", dests |-> {}]]

Writes(ds, r, c) ==
  /\ WriteTo(r, c)
  /\ requests[r].phase = "write" /\ c = requests[r].at
  /\ RunningOver(ds)' = RunningOver(ds)

LEMMA RegistrySteps ==
  ASSUME IInv, [Next]_vars, NEW ds \in SUBSET Destinations
  PROVE  \/ Stutters(ds)
         \/ \E r \in Requests : Begins(ds, r) \/ Ends(ds, r)
         \/ \E r \in Requests, c \in Collections : Writes(ds, r, c)
<1> DEFINE lists == {d \in ds : Listed(d)}
<1>T. /\ requests \in [Requests -> Request] /\ copies \in [Collections -> Copy]
      /\ source \in Source
  BY DEF IInv, TypeOK
<1>N. \A r \in Requests :
        /\ requests[r] \in Request
        /\ NextCollections(requests[r].todo) \subseteq Collections
  BY <1>T DEF NextCollections, Request
<1>1. ASSUME NEW r \in Requests, NEW spaces \in SUBSET Spaces, NEW groups \in SUBSET Groups,
             NEW friends \in BOOLEAN, NEW kind \in Kinds,
             requests[r].phase = "idle",
             requests' = [requests EXCEPT ![r] = Pending(kind, spaces, groups, friends)],
             UNCHANGED copies
      PROVE  Stutters(ds)
  <2>1. Pending(kind, spaces, groups, friends) \in Request
        /\ Pending(kind, spaces, groups, friends).phase = "pending"
    BY PendingType DEF Pending, IdleRequest
  <2>2. View(requests'[r], ds) = View(requests[r], ds)
    BY <1>1, <1>T, <2>1 DEF View
  <2>3. \A o \in Requests : View(requests'[o], ds) = View(requests[o], ds)
    BY <1>1, <1>T, <2>2
  <2>4. QED
    BY <1>1, <2>3, SameViews, SameListed DEF Stutters
<1>2. ASSUME NEW r \in Requests, Deny(r) PROVE Stutters(ds)
  <2>1. \A o \in Requests : View(requests'[o], ds) = View(requests[o], ds)
    BY <1>2, <1>T DEF Deny, View, IdleRequest
  <2>2. QED
    BY <1>2, <2>1, SameViews, SameListed DEF Deny, Stutters
<1>3. ASSUME NEW r \in Requests, Confirm(r) PROVE Begins(ds, r)
  <2>1. lists' = lists
    BY <1>3, SameListed DEF Confirm
  <2>2. QED
    BY <1>3, <2>1, <1>T, ConfirmView DEF Begins
<1>4. ASSUME NEW r \in Requests, NEW c \in Collections, FetchCopy(r, c) \/ FetchFails(r, c)
      PROVE  Stutters(ds)
  <2>1. lists' = lists
    BY <1>4, SameListed DEF FetchCopy, FetchFails
  <2>2. CASE Leave(r, c, FALSE)
    BY <1>4, <2>1, <2>2, <1>T, LeaveKeepsViews DEF FetchCopy, FetchFails, Stutters
  <2>3. CASE ~ Leave(r, c, FALSE)
    <3>1. PICK doc \in Fetched(requests[r].kind, c) :
            requests' = [requests EXCEPT ![r].phase = "write", ![r].at = c, ![r].seen = doc]
      BY <1>4, <2>3 DEF FetchCopy, FetchFails
    <3>2. requests[r].phase = "fetch"
      BY <1>4 DEF FetchCopy, FetchFails
    <3>3. /\ requests'[r].phase = "write" /\ requests'[r].kind = requests[r].kind
          /\ requests'[r].spaces = requests[r].spaces
          /\ requests'[r].groups = requests[r].groups
          /\ requests'[r].friends = requests[r].friends
          /\ \A o \in Requests \ {r} : requests'[o] = requests[o]
      BY <3>1, <1>T DEF Request
    <3>4. View(requests'[r], ds) = View(requests[r], ds)
      BY <3>2, <3>3 DEF View, Names
    <3>5. \A o \in Requests : View(requests'[o], ds) = View(requests[o], ds)
      BY <3>3, <3>4
    <3>6. QED
      BY <2>1, <3>5, SameViews DEF Stutters
  <2>4. QED
    BY <2>2, <2>3
<1>6. ASSUME NEW r \in Requests, WriteCopy(r) \/ WriteFails(r)
      PROVE  Stutters(ds) \/ \E c \in Collections : Writes(ds, r, c)
  <2>1. PICK c \in Collections : c = requests[r].at
    BY <1>6, <1>T, VisitsType DEF IInv, VisitsNamed, WriteCopy, WriteFails, Request
  <2>2. requests[r].phase = "write"
    BY <1>6 DEF WriteCopy, WriteFails
  <2>3. RunningOver(ds)' = RunningOver(ds)
    <3>1. CASE \E success \in BOOLEAN : Leave(r, c, success)
      BY <3>1, <2>2, <1>T, LeaveKeepsViews
    <3>2. CASE requests' = [requests EXCEPT ![r].phase = "index"]
      <4>1. \A o \in Requests : View(requests'[o], ds) = View(requests[o], ds)
        BY <3>2, <2>2, <1>T DEF View, Names, Request
      <4>2. QED
        BY <4>1, SameViews
    <3>3. QED
      BY <1>6, <2>1, <3>1, <3>2 DEF WriteCopy, WriteFails
  <2>4. CASE WriteTo(r, c)
    BY <2>1, <2>2, <2>3, <2>4 DEF Writes
  <2>5. CASE UNCHANGED copies
    BY <2>3, <2>5, SameListed DEF Stutters
  <2>6. QED
    BY <1>6, <2>1, <2>4, <2>5 DEF WriteCopy, WriteFails
<1>7. ASSUME NEW r \in Requests, WriteRejected(r) \/ IndexCopy(r)
      PROVE  Stutters(ds)
  <2>1. PICK c \in Collections : c = requests[r].at
    BY <1>7, <1>T, VisitsType DEF IInv, VisitsNamed, WriteRejected, IndexCopy, Request
  <2>2. /\ requests[r].phase \in {"write", "index"} /\ UNCHANGED copies
        /\ \E success \in BOOLEAN : Leave(r, c, success)
    BY <1>7, <2>1 DEF WriteRejected, IndexCopy
  <2>3. QED
    BY <2>2, <1>T, LeaveKeepsViews, SameListed DEF Stutters
<1>8. ASSUME NEW r \in Requests, Track(r) \/ Crash(r) PROVE Ends(ds, r)
  <2>1. requests' = [requests EXCEPT ![r] = IdleRequest] /\ UNCHANGED copies
    BY <1>8 DEF Track, Crash
  <2>2. RunningOver(ds)' = [RunningOver(ds) EXCEPT ![r] = [kind |-> "none", dests |-> {}]]
    BY <2>1, <1>T, IdleRequestType, ResetView DEF IdleRequest
  <2>3. QED
    BY <2>1, <2>2, SameListed DEF Ends
<1>9. ASSUME NEW c \in Collections, NEW status \in ModeratorActions, Moderate(c, status)
      PROVE  Stutters(ds)
  <2>1. RunningOver(ds)' = RunningOver(ds)
    BY <1>9 DEF Moderate, RunningOver, Running
  <2>2. \A d \in Collections :
          /\ copies'[d].exists = copies[d].exists
          /\ copies'[d].group_ids = copies[d].group_ids
          /\ copies'[d].space_ids = copies[d].space_ids
    BY <1>9, <1>T DEF Moderate, Copy
  <2>3. \A d \in ds : Listed(d)' <=> Listed(d)
    BY <2>2 DEF Listed, Collections
  <2>4. QED
    BY <2>1, <2>3 DEF Stutters
<1>10. UNCHANGED <<copies, requests>> => Stutters(ds)
  BY EditKeepsRegistry DEF Stutters
<1>11. ASSUME NEW r \in Requests, RequestRevise(r)
       PROVE  Stutters(ds)
  <2>1. PICK spaces \in SUBSET Spaces, groups \in SUBSET Groups, friends \in BOOLEAN :
          /\ spaces = source.space_ids /\ groups = source.group_ids
          /\ friends = source.published_to_friends
    BY <1>T DEF Source
  <2>2. requests' = [requests EXCEPT ![r] = Pending("revise", spaces, groups, friends)]
        /\ UNCHANGED copies /\ requests[r].phase = "idle" /\ "revise" \in Kinds
    BY <1>11, <2>1 DEF RequestRevise, Kinds
  <2>3. QED
    BY <2>2, <1>1
<1>12. ASSUME NEW r \in Requests, NEW spaces \in SUBSET Spaces, NEW groups \in SUBSET Groups,
              NEW friends \in BOOLEAN,
              RequestPublish(r, spaces, groups, friends) \/ RequestRetract(r, spaces, groups, friends)
       PROVE  Stutters(ds)
  <2>1. PICK kind \in Kinds :
          requests' = [requests EXCEPT ![r] = Pending(kind, spaces, groups, friends)]
    BY <1>12 DEF RequestPublish, RequestRetract, Kinds
  <2>2. UNCHANGED copies /\ requests[r].phase = "idle"
    BY <1>12 DEF RequestPublish, RequestRetract
  <2>3. QED
    BY <2>1, <2>2, <1>1
<1>13. CASE FinishEdit \/ \E content \in Contents : StartEdit(content)
  BY <1>13, <1>10 DEF StartEdit, FinishEdit
<1>14. CASE UNCHANGED vars
  BY <1>14, <1>10 DEF vars
<1> HIDE DEF lists
<1>15. ASSUME NEW r \in Requests, RequestStep(r)
       PROVE  \/ Stutters(ds)
              \/ Begins(ds, r) \/ Ends(ds, r)
              \/ \E c \in Collections : Writes(ds, r, c)
  BY <1>15, <1>2, <1>3, <1>4, <1>6, <1>7, <1>8, <1>11, <1>12 DEF RequestStep
<1>16. CASE \E r \in Requests : RequestStep(r)
  BY <1>15, <1>16
<1>17. CASE \E c \in Collections, status \in ModeratorActions : Moderate(c, status)
  BY <1>9, <1>17
<1>18. QED
  BY <1>13, <1>14, <1>16, <1>17 DEF Next

\* What a write to c lists and delists outside the public collection.
LEMMA WriteLists ==
  ASSUME IInv, NEW r \in Requests, NEW c \in Collections, WriteTo(r, c)
  PROVE  \A d \in OwnCollection :
           /\ d # c => (Listed(d)' <=> Listed(d))
           /\ requests[r].kind = "publish" /\ d = c => Listed(d)'
           /\ requests[r].kind = "retract" /\ d = c => ~ Listed(d)'
           /\ requests[r].kind = "revise" => (Listed(d)' <=> Listed(d))
<1>1. copies \in [Collections -> Copy] /\ requests[r] \in Request
  BY DEF IInv, TypeOK
<1>2. PICK doc \in WrittenCopies(requests[r], c, copies[c]) : copies' = [copies EXCEPT ![c] = doc]
  BY DEF WriteTo
<1>3. copies'[c] = doc /\ \A d \in Collections \ {c} : copies'[d] = copies[d]
  BY <1>1, <1>2
<1>P. requests[r].kind = "publish" => doc.exists /\ (c \in Groups => c \in doc.group_ids)
  <2> SUFFICES ASSUME requests[r].kind = "publish"
               PROVE  doc.exists /\ (c \in Groups => c \in doc.group_ids)
    OBVIOUS
  <2>1. PICK status : doc = PublishedCopy(requests[r], c, copies[c], status)
    BY <1>2 DEF WrittenCopies
  <2>2. copies[c] \in Copy
    BY <1>1
  <2>3. QED
    BY <2>1, <2>2 DEF PublishedCopy, Copy
<1>R. requests[r].kind = "retract" =>
        /\ c = Friends => ~ doc.exists
        /\ c \in Groups => c \notin doc.group_ids
  <2> SUFFICES ASSUME requests[r].kind = "retract"
               PROVE  /\ c = Friends => ~ doc.exists
                      /\ c \in Groups => c \notin doc.group_ids
    OBVIOUS
  <2>1. doc = RetractedCopy(requests[r], c, copies[c])
    BY <1>2 DEF WrittenCopies
  <2>2. CASE c = Friends
    BY <2>1, <2>2, NamesAssumption DEF RetractedCopy, NoCopy
  <2>3. CASE c \in Groups
    BY <2>1, <2>3, <1>1, NamesAssumption DEF RetractedCopy, Copy
  <2>4. QED
    BY <2>2, <2>3
<1>V. requests[r].kind = "revise" =>
        doc.exists = copies[c].exists /\ doc.group_ids = copies[c].group_ids
  <2>1. requests[r].kind = "revise" => doc = RevisedCopy(requests[r], copies[c])
    BY <1>2 DEF WrittenCopies
  <2>2. QED
    BY <2>1, <1>1 DEF RevisedCopy, Copy
<1>4. /\ requests[r].kind = "publish" => doc.exists /\ (c \in Groups => c \in doc.group_ids)
      /\ requests[r].kind = "retract" =>
           /\ c = Friends => ~ doc.exists
           /\ c \in Groups => c \notin doc.group_ids
      /\ requests[r].kind = "revise" =>
           doc.exists = copies[c].exists /\ doc.group_ids = copies[c].group_ids
  BY <1>P, <1>R, <1>V
<1>5. ASSUME NEW d \in OwnCollection
      PROVE  /\ d \in Collections /\ d \notin Spaces
             /\ d \in Groups \/ d = Friends
             /\ d \in Groups => d # Friends
  BY NamesAssumption DEF OwnCollection, Collections
<1>6. QED
  BY <1>3, <1>4, <1>5 DEF Listed

\* Groups and friends are listed and delisted only by requests that name them,
\* whatever overlaps, fails or dies.
THEOREM GroupsAndFriendsAreRegistry == Spec => GroupsImplementRegistry
<1> DEFINE ds == OwnCollection
           lists == {d \in ds : Listed(d)}
<1>1. Init => OwnCollectionRegistry!RegistryInit
  <2> SUFFICES ASSUME Init PROVE OwnCollectionRegistry!RegistryInit
    OBVIOUS
  <2>1. lists = {}
    BY NamesAssumption
    DEF Init, Listed, OwnCollection, NoCopy, Collections
  <2>2. RunningOver(ds) = [r \in Requests |-> [kind |-> "none", dests |-> {}]]
    BY DEF Init, RunningOver, Running, IdleRequest
  <2>3. QED
    BY <2>1, <2>2 DEF OwnCollectionRegistry!RegistryInit, OwnCollectionRegistry!Nothing
<1>2. ASSUME IInv, [Next]_vars
      PROVE  [OwnCollectionRegistry!RegistryNext]_<<lists, RunningOver(ds)>>
  <2>T. requests \in [Requests -> Request] /\ ds \in SUBSET Destinations
    BY <1>2 DEF IInv, TypeOK, OwnCollection, Destinations
  <2>1. CASE Stutters(ds)
    BY <2>1 DEF Stutters
  <2>2. ASSUME NEW r \in Requests, Begins(ds, r) PROVE OwnCollectionRegistry!RegistryNext
    <3>1. PICK operation \in OwnCollectionRegistry!Operation :
            operation = [kind |-> requests[r].kind, dests |-> Names(requests[r]) \cap ds]
      BY <2>T DEF OwnCollectionRegistry!Operation, Request
    <3>2. OwnCollectionRegistry!Begin(r, operation)
      BY <2>2, <3>1 DEF Begins, OwnCollectionRegistry!Begin, OwnCollectionRegistry!Nothing
    <3>3. QED
      BY <3>2 DEF OwnCollectionRegistry!RegistryNext
  <2>3. ASSUME NEW r \in Requests, Ends(ds, r) PROVE OwnCollectionRegistry!RegistryNext
    <3>1. OwnCollectionRegistry!Finish(r)
      BY <2>3 DEF Ends, OwnCollectionRegistry!Finish, OwnCollectionRegistry!Nothing
    <3>2. QED
      BY <3>1 DEF OwnCollectionRegistry!RegistryNext
  <2>4. ASSUME NEW r \in Requests, NEW c \in Collections, Writes(ds, r, c)
        PROVE  [OwnCollectionRegistry!RegistryNext]_<<lists, RunningOver(ds)>>
    <3>1. RunningOver(ds)[r] = [kind |-> requests[r].kind, dests |-> Names(requests[r]) \cap ds]
      BY <2>4, RunningOverView DEF View, Writes
    <3>2. PICK dests \in SUBSET ds : dests = {c} \cap ds
      OBVIOUS
    <3>3. dests \subseteq RunningOver(ds)[r].dests
      <4>1. c \in Visits(requests[r].spaces, requests[r].groups, requests[r].friends)
        BY <1>2, <2>4 DEF IInv, VisitsNamed, Writes
      <4>2. c \in ds => c \in Names(requests[r])
        BY <4>1, NamesAssumption DEF Visits, Names, OwnCollection
      <4>3. QED
        BY <3>1, <3>2, <4>2
    <3>4. \A d \in ds :
            /\ d # c => (Listed(d)' <=> Listed(d))
            /\ requests[r].kind = "publish" /\ d = c => Listed(d)'
            /\ requests[r].kind = "retract" /\ d = c => ~ Listed(d)'
            /\ requests[r].kind = "revise" => (Listed(d)' <=> Listed(d))
      BY <1>2, <2>4, WriteLists DEF Writes
    <3>5. lists' = {d \in ds : Listed(d)'}
      OBVIOUS
    <3>6. CASE requests[r].kind = "publish"
      <4>1. lists' = lists \cup dests
        BY <3>2, <3>4, <3>5, <3>6
      <4>2. OwnCollectionRegistry!Enlist(r, dests)
        BY <4>1, <3>1, <3>3, <3>6, <2>4 DEF OwnCollectionRegistry!Enlist, Writes
      <4>3. QED
        BY <4>2 DEF OwnCollectionRegistry!RegistryNext
    <3>7. CASE requests[r].kind = "retract"
      <4>1. lists' = lists \ dests
        BY <3>2, <3>4, <3>5, <3>7
      <4>2. OwnCollectionRegistry!Delist(r, dests)
        BY <4>1, <3>1, <3>3, <3>7, <2>4 DEF OwnCollectionRegistry!Delist, Writes
      <4>3. QED
        BY <4>2 DEF OwnCollectionRegistry!RegistryNext
    <3>8. CASE requests[r].kind = "revise"
      BY <3>4, <3>5, <3>8, <2>4 DEF Writes
    <3>9. QED
      BY <3>6, <3>7, <3>8, <2>T DEF Request, Kinds
  <2> HIDE DEF ds, lists
  <2>5. QED
    BY <1>2, <2>T, <2>1, <2>2, <2>3, <2>4, RegistrySteps
<1>3. QED
  BY <1>1, <1>2, SpecIInv, PTL DEF Spec, GroupsImplementRegistry, OwnCollectionRegistry!RegistrySpec

-----------------------------------------------------------------------------
(* Without overlap and failures: the copies are listed exactly where the   *)
(* source says they are, reports are honoured, and the spaces are a        *)
(* registry too although they share one copy.                              *)
(*                                                                         *)
(* The invariant speaks of the one request that runs: it read the source   *)
(* as it still is, and the copies are listed where the source says,        *)
(* changed by what that request has reached so far.                        *)

ListedSet == {d \in Destinations : Listed(d)}

\* The collections a request has written so far.
Done(q) == q.ok \cup (IF q.phase = "index" THEN {q.at} ELSE {})

\* Where the copies are listed when the source tracks the destinations t and q runs.
Expected(t, q) ==
  IF q.kind = "publish" THEN t \cup Reached(q, Done(q))
  ELSE IF q.kind = "retract" THEN t \ Reached(q, Done(q))
  ELSE t

Alone ==
  /\ \A r, p \in Requests : Running(r) /\ Running(p) => r = p
  /\ edit.busy => \A r \in Requests : ~ Running(r)

Fresh ==
  /\ edit.busy => edit.snap = source
  /\ \A r \in Requests : Running(r) => requests[r].snap = source

Agreement ==
  /\ (\A r \in Requests : ~ Running(r)) => ListedSet = TrackedDestinations
  /\ \A r \in Requests : Running(r) => ListedSet = Expected(TrackedDestinations, requests[r])

Honoured ==
  /\ retracted \cap ListedSet = {}
  /\ announced \subseteq ListedSet
  /\ \A r \in Requests : Running(r) =>
       /\ requests[r].kind = "publish" => retracted \cap Names(requests[r]) = {}
       /\ requests[r].kind = "retract" => announced \cap Names(requests[r]) = {}

Clean == \A r \in Requests : ~ Running(r) => requests[r].ok = {}

SerialInv == Alone /\ Fresh /\ Agreement /\ Honoured /\ Clean

LEMMA InitSerialInv == Init => SerialInv
<1> SUFFICES ASSUME Init PROVE SerialInv
  OBVIOUS
<1>1. ListedSet = {} /\ TrackedDestinations = {}
  BY NamesAssumption
  DEF Init, ListedSet, Listed, NoCopy, Collections, Destinations, TrackedDestinations,
      UnpublishedSource
<1>2. \A r \in Requests : ~ Running(r)
  BY DEF Init, Running, IdleRequest
<1>3. ~ edit.busy /\ retracted = {} /\ announced = {}
  BY DEF Init, IdleEdit
<1>4. Clean
  BY DEF Init, Clean, IdleRequest
<1>5. QED
  BY <1>1, <1>2, <1>3, <1>4 DEF SerialInv, Alone, Fresh, Agreement, Honoured

\* A request that goes on with the same destinations and has reached the same.
SameCourse(p, q) ==
  /\ p.kind = q.kind /\ p.spaces = q.spaces /\ p.groups = q.groups
  /\ p.friends = q.friends /\ p.snap = q.snap
  /\ Done(p) = Done(q)

LEMMA SameCourseExpects ==
  ASSUME NEW p, NEW q, SameCourse(p, q)
  PROVE  Names(p) = Names(q) /\ \A t : Expected(t, p) = Expected(t, q)
  BY DEF SameCourse, Names, Expected, Reached

\* A step that neither starts nor ends anything and changes no list.
LEMMA CourseKept ==
  ASSUME SerialInv, UNCHANGED <<source, edit, retracted, announced>>,
         ListedSet' = ListedSet,
         \A r \in Requests : Running(r)' <=> Running(r),
         \A r \in Requests : ~ Running(r) => requests'[r].ok = {},
         \A r \in Requests : Running(r) => SameCourse(requests'[r], requests[r])
  PROVE  SerialInv'
<1>1. TrackedDestinations' = TrackedDestinations
  BY DEF TrackedDestinations
<1>2. \A r \in Requests : Running(r) =>
        /\ Names(requests'[r]) = Names(requests[r])
        /\ \A t : Expected(t, requests'[r]) = Expected(t, requests[r])
        /\ requests'[r].kind = requests[r].kind /\ requests'[r].snap = requests[r].snap
  BY SameCourseExpects DEF SameCourse
<1>3. Alone'
  BY DEF SerialInv, Alone
<1>4. Fresh'
  BY <1>2 DEF SerialInv, Fresh
<1>5. Agreement'
  BY <1>1, <1>2 DEF SerialInv, Agreement
<1>6. Honoured'
  BY <1>2 DEF SerialInv, Honoured
<1>7. Clean'
  BY DEF Clean
<1>8. QED
  BY <1>3, <1>4, <1>5, <1>6, <1>7 DEF SerialInv

\* What a write to c does to the lists, when the source is as the request read it
\* and the copies are listed as expected.
LEMMA WriteReaches ==
  ASSUME IInv, NEW r \in Requests, NEW c \in Collections, WriteTo(r, c),
         requests[r].snap = source,
         NEW reached \in SUBSET Collections,
         c \in Visits(requests[r].spaces, requests[r].groups, requests[r].friends),
         requests[r].kind = "publish" =>
           ListedSet = TrackedDestinations \cup Reached(requests[r], reached),
         requests[r].kind = "retract" =>
           ListedSet = TrackedDestinations \ Reached(requests[r], reached)
  PROVE  /\ requests[r].kind = "publish" =>
              ListedSet' = TrackedDestinations \cup Reached(requests[r], reached \cup {c})
         /\ requests[r].kind = "retract" =>
              ListedSet' = TrackedDestinations \ Reached(requests[r], reached \cup {c})
         /\ requests[r].kind = "revise" => ListedSet' = ListedSet
<1> DEFINE q == requests[r]
<1>T. /\ copies \in [Collections -> Copy] /\ q \in Request /\ source \in Source
      /\ copies[c] \in Copy
  BY DEF IInv, TypeOK
<1>1. PICK doc \in WrittenCopies(q, c, copies[c]) : copies' = [copies EXCEPT ![c] = doc]
  BY DEF WriteTo
<1>2. copies'[c] = doc /\ \A d \in Collections \ {c} : copies'[d] = copies[d]
  BY <1>T, <1>1
<1>3. \A d \in OwnCollection :
        /\ d # c => (Listed(d)' <=> Listed(d))
        /\ q.kind = "publish" /\ d = c => Listed(d)'
        /\ q.kind = "retract" /\ d = c => ~ Listed(d)'
        /\ q.kind = "revise" => (Listed(d)' <=> Listed(d))
  BY WriteLists
<1>4. \A s \in Spaces : (Listed(s)' <=> s \in copies'[Public].space_ids)
                     /\ (Listed(s) <=> s \in copies[Public].space_ids)
  BY DEF Listed
<1>5. \A s \in Spaces : c # Public => (Listed(s)' <=> Listed(s))
  BY <1>2, <1>4 DEF Collections
<1>6. c = Public => c \notin Groups /\ c # Friends
  BY NamesAssumption
<1>7. q.kind = "publish" /\ c = Public => \A s \in Spaces :
        Listed(s)' <=> s \in q.snap.space_ids \cup q.spaces
  <2> SUFFICES ASSUME q.kind = "publish", c = Public
               PROVE  copies'[Public].space_ids = q.snap.space_ids \cup q.spaces
    BY <1>4
  <2>1. PICK status : doc = PublishedCopy(q, c, copies[c], status)
    BY <1>1 DEF WrittenCopies
  <2>2. QED
    BY <2>1, <1>2, <1>T DEF PublishedCopy, Copy
<1>8. q.kind = "retract" /\ c = Public => \A s \in Spaces :
        Listed(s)' <=> s \in q.snap.space_ids \ q.spaces
  <2> SUFFICES ASSUME q.kind = "retract", c = Public
               PROVE  copies'[Public].space_ids = q.snap.space_ids \ q.spaces
    BY <1>4
  <2>1. doc = RetractedCopy(q, c, copies[c])
    BY <1>1 DEF WrittenCopies
  <2>2. QED
    BY <2>1, <1>2, <1>6, <1>T DEF RetractedCopy, Copy
<1>9. q.kind = "revise" /\ c = Public => \A s \in Spaces : Listed(s)' <=> Listed(s)
  <2> SUFFICES ASSUME q.kind = "revise", c = Public
               PROVE  copies'[Public].space_ids = copies[Public].space_ids
    BY <1>4
  <2>1. doc = RevisedCopy(q, copies[c])
    BY <1>1 DEF WrittenCopies
  <2>2. QED
    BY <2>1, <1>2, <1>T DEF RevisedCopy, Copy
<1>10. \A d \in Destinations : (d \in Spaces /\ d \notin Groups /\ d # Friends /\ d # Public)
                            \/ (d \in OwnCollection /\ d \notin Spaces /\ d # Public
                                  /\ (d \in Groups <=> d # Friends))
  BY NamesAssumption DEF Destinations, OwnCollection
<1>11. ListedSet' = {d \in Destinations : Listed(d)'}
  BY DEF ListedSet
<1> DEFINE t == TrackedDestinations
<1>12. /\ \A s \in Spaces : s \in t <=> s \in source.space_ids
       /\ t \subseteq Destinations
  BY <1>T, NamesAssumption DEF TrackedDestinations, Source, Destinations
<1>13. \A cs \in SUBSET Collections :
         /\ \A s \in Spaces : s \in Reached(q, cs) <=> Public \in cs /\ s \in q.spaces
         /\ \A d \in OwnCollection : d \in Reached(q, cs) <=>
              d \in cs /\ (d = Friends \/ d \in q.groups)
         /\ Reached(q, cs) \subseteq Destinations
  BY <1>T, NamesAssumption DEF Reached, OwnCollection, Destinations, Request
<1>14. c = Public \/ c = Friends \/ c \in q.groups
  BY DEF Visits
<1>15. c # Public => c \in OwnCollection
  BY DEF Collections, OwnCollection
<1> DEFINE more == reached \cup {c}
<1>16. more \in SUBSET Collections
  OBVIOUS
<1> HIDE DEF t, more
<1>17. CASE q.kind = "publish"
  <2>1. ListedSet = t \cup Reached(q, reached)
    BY <1>17 DEF t
  <2>2. ASSUME NEW d \in Destinations
        PROVE  Listed(d)' <=> d \in t \cup Reached(q, more)
    <3>1. Listed(d) <=> d \in t \cup Reached(q, reached)
      BY <2>1 DEF ListedSet
    <3>2. CASE d \in Spaces
      BY <3>1, <3>2, <1>5, <1>7, <1>12, <1>13, <1>16, <1>17 DEF more
    <3>3. CASE d \in OwnCollection
      BY <3>1, <3>3, <1>3, <1>13, <1>14, <1>16, <1>17, <1>10 DEF more
    <3>4. QED
      BY <3>2, <3>3, <1>10
  <2>3. ListedSet' = t \cup Reached(q, more)
    BY <2>2, <1>11, <1>12, <1>13, <1>16 DEF t
  <2>4. QED
    BY <2>3, <1>17 DEF t, more
<1>18. CASE q.kind = "retract"
  <2>1. ListedSet = t \ Reached(q, reached)
    BY <1>18 DEF t
  <2>2. ASSUME NEW d \in Destinations
        PROVE  Listed(d)' <=> d \in t \ Reached(q, more)
    <3>1. Listed(d) <=> d \in t \ Reached(q, reached)
      BY <2>1 DEF ListedSet
    <3>2. CASE d \in Spaces
      BY <3>1, <3>2, <1>5, <1>8, <1>12, <1>13, <1>16, <1>18 DEF more
    <3>3. CASE d \in OwnCollection
      BY <3>1, <3>3, <1>3, <1>13, <1>14, <1>16, <1>18, <1>10 DEF more
    <3>4. QED
      BY <3>2, <3>3, <1>10
  <2>3. ListedSet' = t \ Reached(q, more)
    BY <2>2, <1>11, <1>12 DEF t
  <2>4. QED
    BY <2>3, <1>18 DEF t, more
<1>19. CASE q.kind = "revise"
  BY <1>3, <1>5, <1>9, <1>10, <1>19 DEF ListedSet
<1>20. QED
  BY <1>17, <1>18, <1>19, <1>T DEF Request, Kinds

LEMMA LeaveCourse ==
  ASSUME requests \in [Requests -> Request], NEW r \in Requests, NEW c \in Collections,
         NEW success \in BOOLEAN, Leave(r, c, success)
  PROVE  /\ \A o \in Requests \ {r} : requests'[o] = requests[o]
         /\ requests'[r].phase = "fetch"
         /\ requests'[r].kind = requests[r].kind /\ requests'[r].snap = requests[r].snap
         /\ requests'[r].spaces = requests[r].spaces
         /\ requests'[r].groups = requests[r].groups
         /\ requests'[r].friends = requests[r].friends
         /\ requests'[r].ok = IF success THEN requests[r].ok \cup {c} ELSE requests[r].ok
  BY DEF Leave, Request

\* A write by the one running request.
LEMMA WriteKeepsSerial ==
  ASSUME IInv, SerialInv, NEW r \in Requests, WriteCopy(r)
  PROVE  SerialInv'
<1> DEFINE q == requests[r]
<1>T. requests \in [Requests -> Request] /\ q \in Request
  BY DEF IInv, TypeOK
<1>1. q.phase = "write" /\ UNCHANGED <<source, edit, retracted, announced>>
  BY DEF WriteCopy
<1>2. PICK c \in Collections : c = q.at
  BY <1>1, <1>T, VisitsType DEF IInv, VisitsNamed, Request
<1>3. WriteTo(r, c) /\ c \in Visits(q.spaces, q.groups, q.friends)
  BY <1>1, <1>2 DEF WriteCopy, IInv, VisitsNamed
<1>4. /\ \A o \in Requests \ {r} : requests'[o] = requests[o]
      /\ requests'[r].phase \in {"fetch", "index"}
      /\ requests'[r].kind = q.kind /\ requests'[r].snap = q.snap
      /\ requests'[r].spaces = q.spaces /\ requests'[r].groups = q.groups
      /\ requests'[r].friends = q.friends
      /\ Done(requests'[r]) = q.ok \cup {c}
  <2>1. CASE q.kind = "publish"
    <3>1. requests' = [requests EXCEPT ![r].phase = "index"]
      BY <2>1 DEF WriteCopy
    <3>2. QED
      BY <3>1, <1>2, <1>T DEF Done, Request
  <2>2. CASE q.kind # "publish"
    BY <2>2, <1>2, <1>T, LeaveCourse DEF WriteCopy, Done
  <2>3. QED
    BY <2>1, <2>2
<1>5. Done(q) = q.ok /\ q.ok \in SUBSET Collections
  BY <1>1, <1>T DEF Done, Request
<1>6. Running(r) /\ \A o \in Requests : Running(o) <=> o = r
  BY <1>1 DEF SerialInv, Alone, Running
<1>7. \A o \in Requests : Running(o)' <=> o = r
  BY <1>4, <1>6 DEF Running
<1>8. q.snap = source /\ ListedSet = Expected(TrackedDestinations, q)
  BY <1>6 DEF SerialInv, Fresh, Agreement
<1>9. /\ q.kind = "publish" => ListedSet = TrackedDestinations \cup Reached(q, q.ok)
      /\ q.kind = "retract" => ListedSet = TrackedDestinations \ Reached(q, q.ok)
      /\ q.kind = "revise" => ListedSet = TrackedDestinations
  BY <1>5, <1>8 DEF Expected
<1>10. /\ q.kind = "publish" =>
            ListedSet' = TrackedDestinations \cup Reached(q, q.ok \cup {c})
       /\ q.kind = "retract" =>
            ListedSet' = TrackedDestinations \ Reached(q, q.ok \cup {c})
       /\ q.kind = "revise" => ListedSet' = ListedSet
  <2> HIDE DEF q
  <2>1. q = requests[r]
    BY DEF q
  <2>2. QED
    BY <1>3, <1>5, <1>8, <1>9, <2>1, WriteReaches
<1>11. TrackedDestinations' = TrackedDestinations
  BY <1>1 DEF TrackedDestinations
<1>12. Reached(requests'[r], q.ok \cup {c}) = Reached(q, q.ok \cup {c})
       /\ Names(requests'[r]) = Names(q)
  BY <1>4 DEF Reached, Names
<1>13. ListedSet' = Expected(TrackedDestinations', requests'[r])
  BY <1>4, <1>9, <1>10, <1>11, <1>12, <1>T DEF Expected, Request, Kinds
<1>14. Alone'
  BY <1>1, <1>6, <1>7 DEF SerialInv, Alone
<1>15. Fresh'
  BY <1>1, <1>4, <1>6, <1>7, <1>8 DEF SerialInv, Alone, Fresh
<1>16. Agreement'
  BY <1>7, <1>13 DEF Agreement
<1>17. Reached(q, q.ok \cup {c}) \subseteq Names(q)
  <2>1. q.ok \cup {c} \subseteq Visits(q.spaces, q.groups, q.friends)
    BY <1>3 DEF IInv, VisitsNamed
  <2>2. Friends \in q.ok \cup {c} => q.friends
    BY <2>1, <1>T, NamesAssumption DEF Visits, Request
  <2>3. QED
    BY <2>2 DEF Reached, Names
<1>18. Honoured'
  <2>1. CASE q.kind = "publish"
    <3>1. retracted \cap Names(q) = {} /\ retracted \cap ListedSet = {}
          /\ announced \subseteq ListedSet
      BY <2>1, <1>6 DEF SerialInv, Honoured
    <3>2. retracted \cap ListedSet' = {}
      BY <2>1, <3>1, <1>9, <1>10, <1>17
    <3>3. announced \subseteq ListedSet'
      BY <2>1, <3>1, <1>9, <1>10 DEF Reached
    <3>4. QED
      BY <2>1, <3>1, <3>2, <3>3, <1>1, <1>4, <1>7, <1>12 DEF Honoured
  <2>2. CASE q.kind = "retract"
    <3>1. announced \cap Names(q) = {} /\ retracted \cap ListedSet = {}
          /\ announced \subseteq ListedSet
      BY <2>2, <1>6 DEF SerialInv, Honoured
    <3>2. retracted \cap ListedSet' = {}
      BY <2>2, <3>1, <1>9, <1>10 DEF Reached
    <3>3. announced \subseteq ListedSet'
      BY <2>2, <3>1, <1>9, <1>10, <1>17
    <3>4. QED
      BY <2>2, <3>1, <3>2, <3>3, <1>1, <1>4, <1>7, <1>12 DEF Honoured
  <2>3. CASE q.kind = "revise"
    BY <2>3, <1>1, <1>4, <1>7, <1>10 DEF SerialInv, Honoured
  <2>4. QED
    BY <2>1, <2>2, <2>3, <1>T DEF Request, Kinds
<1>19. Clean'
  BY <1>4, <1>6, <1>7 DEF SerialInv, Clean
<1>20. QED
  BY <1>14, <1>15, <1>16, <1>18, <1>19 DEF SerialInv

LEMMA ReachedNamed ==
  ASSUME IInv, NEW r \in Requests
  PROVE  Reached(requests[r], requests[r].ok) \subseteq Names(requests[r])
<1>1. requests[r] \in Request
  BY DEF IInv, TypeOK
<1>2. Friends \in requests[r].ok => requests[r].friends
  BY <1>1, NamesAssumption DEF IInv, VisitsNamed, Visits, Request
<1>3. QED
  BY <1>2 DEF Reached, Names

LEMMA ConfirmKeepsSerial ==
  ASSUME ~ Overlap, IInv, SerialInv, NEW r \in Requests, Confirm(r)
  PROVE  SerialInv'
<1> DEFINE q == requests[r]
<1>T. requests \in [Requests -> Request] /\ q \in Request
  BY DEF IInv, TypeOK
<1>1. /\ Quiet /\ UNCHANGED <<source, copies, edit>>
      /\ retracted' = IF q.kind = "publish" THEN retracted \ Names(q) ELSE retracted
      /\ announced' = IF q.kind = "retract" THEN announced \ Names(q) ELSE announced
  BY DEF Confirm, Start
<1>2. ListedSet' = ListedSet /\ TrackedDestinations' = TrackedDestinations
  BY <1>1 DEF ListedSet, Listed, TrackedDestinations
<1>3. /\ requests'[r].phase = "fetch" /\ requests'[r].kind = q.kind
      /\ requests'[r].snap = source /\ Names(requests'[r]) = Names(q)
      /\ requests'[r].ok = q.ok
      /\ \A o \in Requests \ {r} : requests'[o].phase = requests[o].phase
  BY <1>T DEF Confirm, Request, Names
<1>4. \A o \in Requests : Running(o)' <=> o = r
  BY <1>1, <1>3 DEF Quiet, Running
<1>5. q.phase = "pending" /\ ~ Running(r) /\ q.ok = {}
  BY DEF Confirm, SerialInv, Clean, Running
<1>6. Done(requests'[r]) = {} /\ Reached(requests'[r], {}) = {}
  BY <1>3, <1>5 DEF Done, Reached
<1>7. \A o \in Requests \ {r} : requests'[o].ok = requests[o].ok
  BY <1>T DEF Confirm, Request
<1>8. ListedSet = TrackedDestinations /\ ~ edit.busy
  BY <1>1 DEF SerialInv, Agreement, Quiet
<1>9. Alone'
  BY <1>1, <1>4, <1>8 DEF Alone
<1>10. Fresh'
  BY <1>1, <1>3, <1>4, <1>8 DEF Fresh
<1>11. Agreement'
  <2>1. ListedSet' = Expected(TrackedDestinations', requests'[r])
    BY <1>2, <1>6, <1>8 DEF Expected
  <2>2. QED
    BY <2>1, <1>4 DEF Agreement
<1>12. Honoured'
  BY <1>1, <1>2, <1>3, <1>4 DEF SerialInv, Honoured
<1>13. Clean'
  BY <1>1, <1>4, <1>7 DEF SerialInv, Clean, Quiet
<1>14. QED
  BY <1>9, <1>10, <1>11, <1>12, <1>13 DEF SerialInv

LEMMA TrackKeepsSerial ==
  ASSUME ~ Faults, IInv, SerialInv, NEW r \in Requests, Track(r)
  PROVE  SerialInv'
<1> DEFINE q == requests[r]
           done == Reached(q, q.ok) \cap q.clear
<1>T. requests \in [Requests -> Request] /\ q \in Request /\ source \in Source
  BY DEF IInv, TypeOK
<1>1. /\ q.phase = "fetch" /\ source' = Tracked(q, source) /\ UNCHANGED <<copies, edit>>
      /\ requests' = [requests EXCEPT ![r] = IdleRequest]
      /\ retracted' = IF q.kind = "retract" THEN retracted \cup done ELSE retracted
      /\ announced' = IF q.kind = "publish" THEN announced \cup done ELSE announced
  BY DEF Track
<1>2. ListedSet' = ListedSet
  BY <1>1 DEF ListedSet, Listed
<1>3. Running(r) /\ \A o \in Requests : Running(o) <=> o = r
  BY <1>1 DEF SerialInv, Alone, Running
<1>4. requests'[r].phase = "idle" /\ requests'[r].ok = {}
      /\ \A o \in Requests \ {r} : requests'[o] = requests[o]
  BY <1>1, <1>T DEF IdleRequest
<1>5. \A o \in Requests : ~ Running(o)' /\ requests'[o].ok = {}
  BY <1>3, <1>4 DEF SerialInv, Clean, Running
<1>6. ~ edit.busy /\ q.snap = source
  BY <1>3 DEF SerialInv, Alone, Fresh
<1>7. /\ q.kind = "publish" => ListedSet = TrackedDestinations \cup Reached(q, q.ok)
      /\ q.kind = "retract" => ListedSet = TrackedDestinations \ Reached(q, q.ok)
      /\ q.kind = "revise" => ListedSet = TrackedDestinations
  BY <1>1, <1>3 DEF SerialInv, Agreement, Expected, Done
<1>8. ListedSet = TrackedDestinations'
  <2>1. CASE q.kind = "publish"
    <3>1. source' = TrackPublished(q, source)
      BY <1>1, <1>6, <2>1, <1>T DEF Tracked, TracksSomethingNew
    <3>2. /\ source'.space_ids = IF Public \in q.ok THEN source.space_ids \cup q.spaces
                                                    ELSE source.space_ids
          /\ source'.group_ids = source.group_ids \cup (q.groups \cap q.ok)
          /\ source'.published_to_friends = (source.published_to_friends \/ Friends \in q.ok)
      BY <3>1, <1>6, <1>T DEF TrackPublished, Source
    <3>3. TrackedDestinations' = TrackedDestinations \cup Reached(q, q.ok)
      BY <3>2 DEF TrackedDestinations, Reached
    <3>4. QED
      BY <3>3, <1>7, <2>1
  <2>2. CASE q.kind = "retract"
    <3>1. source' = TrackRetracted(q, source)
      BY <1>1, <2>2 DEF Tracked
    <3>2. /\ source'.space_ids = IF Public \in q.ok THEN source.space_ids \ q.spaces
                                                    ELSE source.space_ids
          /\ source'.group_ids = source.group_ids \ (q.groups \cap q.ok)
          /\ source'.published_to_friends = (source.published_to_friends /\ Friends \notin q.ok)
      BY <3>1, <1>6, <1>T DEF TrackRetracted, Source
    <3>3. TrackedDestinations' = TrackedDestinations \ Reached(q, q.ok)
      <4>1. /\ source.space_ids \subseteq Spaces /\ source.group_ids \subseteq Groups
            /\ q.spaces \subseteq Spaces /\ q.groups \subseteq Groups
        BY <1>T DEF Source, Request
      <4>2. ASSUME NEW d
            PROVE  d \in TrackedDestinations' <=> d \in TrackedDestinations \ Reached(q, q.ok)
        <5>1. CASE d \in Spaces
          BY <5>1, <4>1, <3>2, NamesAssumption DEF TrackedDestinations, Reached
        <5>2. CASE d \in Groups
          BY <5>2, <4>1, <3>2, NamesAssumption DEF TrackedDestinations, Reached
        <5>3. CASE d \notin Spaces \cup Groups
          BY <5>3, <4>1, <3>2 DEF TrackedDestinations, Reached
        <5>4. QED
          BY <5>1, <5>2, <5>3
      <4>3. QED
        BY <4>2
    <3>4. QED
      BY <3>3, <1>7, <2>2
  <2>3. CASE q.kind = "revise"
    <3>1. source' = source
      BY <1>1, <2>3 DEF Tracked
    <3>2. QED
      BY <3>1, <1>7, <2>3 DEF TrackedDestinations
  <2>4. QED
    BY <2>1, <2>2, <2>3, <1>T DEF Request, Kinds
<1>9. Alone' /\ Clean' /\ Fresh'
  BY <1>1, <1>5, <1>6 DEF Alone, Clean, Fresh
<1>10. Agreement'
  BY <1>2, <1>5, <1>8 DEF Agreement
<1>11. Honoured'
  <2>1. retracted' \cap ListedSet = {}
    BY <1>1, <1>7 DEF SerialInv, Honoured
  <2>2. announced' \subseteq ListedSet
    BY <1>1, <1>7 DEF SerialInv, Honoured
  <2>3. QED
    BY <2>1, <2>2, <1>2, <1>5 DEF Honoured
<1>12. QED
  BY <1>9, <1>10, <1>11 DEF SerialInv

LEMMA EditKeepsSerial ==
  ASSUME ~ Overlap, ~ Faults, IInv, SerialInv,
         FinishEdit \/ \E content \in Contents : StartEdit(content)
  PROVE  SerialInv'
<1>T. source \in Source
  BY DEF IInv, TypeOK
<1>1. UNCHANGED <<copies, requests, retracted, announced>>
  BY DEF StartEdit, FinishEdit, history
<1>2. ListedSet' = ListedSet
  BY <1>1 DEF ListedSet, Listed
<1>3. \A r \in Requests : Running(r)' <=> Running(r)
  BY <1>1 DEF Running
<1>4. \A r \in Requests : ~ Running(r)
  BY DEF StartEdit, FinishEdit, Start, Quiet, SerialInv, Alone
<1>5. TrackedDestinations' = TrackedDestinations
  <2>1. CASE FinishEdit
    <3>1. source' = [source EXCEPT !.content = edit.content]
      BY <2>1 DEF FinishEdit, SerialInv, Fresh
    <3>2. QED
      BY <3>1, <1>T DEF TrackedDestinations, Source
  <2>2. CASE \E content \in Contents : StartEdit(content)
    BY <2>2 DEF StartEdit, TrackedDestinations
  <2>3. QED
    BY <2>1, <2>2
<1>6. edit'.busy => edit'.snap = source'
  BY DEF StartEdit, FinishEdit, IdleEdit
<1>7. Alone' /\ Fresh' /\ Clean'
  BY <1>1, <1>3, <1>4, <1>6 DEF Alone, Fresh, Clean, SerialInv
<1>8. Agreement' /\ Honoured'
  BY <1>1, <1>2, <1>3, <1>4, <1>5 DEF Agreement, Honoured, SerialInv
<1>9. QED
  BY <1>7, <1>8 DEF SerialInv

\* A step of a request that neither starts nor ends anything and writes no copy.
LEMMA StepKeepsSerial ==
  ASSUME ~ Faults, IInv, SerialInv, NEW r \in Requests,
         \/ \E spaces \in SUBSET Spaces, groups \in SUBSET Groups, friends \in BOOLEAN :
              \/ RequestPublish(r, spaces, groups, friends)
              \/ RequestRetract(r, spaces, groups, friends)
         \/ RequestRevise(r)
         \/ Deny(r)
         \/ \E c \in Collections : FetchCopy(r, c) \/ FetchFails(r, c)
         \/ WriteRejected(r)
         \/ IndexCopy(r)
  PROVE  SerialInv'
<1> DEFINE q == requests[r]
<1>T. requests \in [Requests -> Request] /\ q \in Request
  BY DEF IInv, TypeOK
<1>1. UNCHANGED <<source, copies, edit, retracted, announced>>
  BY DEF RequestPublish, RequestRetract, RequestRevise, Deny, FetchCopy, FetchFails,
         WriteRejected, IndexCopy, history
<1>2. ListedSet' = ListedSet
  BY <1>1 DEF ListedSet, Listed
<1>3. \A o \in Requests \ {r} : requests'[o] = requests[o]
  BY <1>T DEF RequestPublish, RequestRetract, RequestRevise, Deny, FetchCopy, FetchFails,
              WriteRejected, IndexCopy, Leave
<1>4. CASE \/ \E spaces \in SUBSET Spaces, groups \in SUBSET Groups, friends \in BOOLEAN :
                \/ RequestPublish(r, spaces, groups, friends)
                \/ RequestRetract(r, spaces, groups, friends)
           \/ RequestRevise(r)
           \/ Deny(r)
  <2>1. ~ Running(r)
    BY <1>4 DEF RequestPublish, RequestRetract, RequestRevise, Deny, Running
  <2>2. requests'[r].phase \in {"idle", "pending"} /\ requests'[r].ok = {}
    <3>1. \A kind, spaces, groups, friends :
            LET new == Pending(kind, spaces, groups, friends) IN
            new.phase = "pending" /\ new.ok = {}
      BY DEF Pending, IdleRequest
    <3>2. PICK new : /\ requests' = [requests EXCEPT ![r] = new]
                     /\ new.phase \in {"idle", "pending"} /\ new.ok = {}
      <4>1. IdleRequest.phase = "idle" /\ IdleRequest.ok = {}
        BY DEF IdleRequest
      <4>2. CASE Deny(r)
        BY <4>1, <4>2 DEF Deny
      <4>3. CASE ~ Deny(r)
        BY <4>3, <3>1, <1>4 DEF RequestPublish, RequestRetract, RequestRevise
      <4>4. QED
        BY <4>2, <4>3
    <3>3. QED
      BY <3>2, <1>T
  <2>3. ~ Running(r)'
    BY <2>2 DEF Running
  <2>4. \A o \in Requests : Running(o)' <=> Running(o)
    BY <2>1, <2>3, <1>3 DEF Running
  <2>5. \A o \in Requests : ~ Running(o) => requests'[o].ok = {}
    BY <2>2, <1>3 DEF SerialInv, Clean
  <2>6. \A o \in Requests : Running(o) => SameCourse(requests'[o], requests[o])
    BY <2>1, <1>3 DEF SameCourse
  <2>7. QED
    BY <2>4, <2>5, <2>6, <1>1, <1>2, CourseKept
<1>5. CASE \/ \E c \in Collections : FetchCopy(r, c) \/ FetchFails(r, c)
           \/ WriteRejected(r)
           \/ IndexCopy(r)
  <2>1. /\ Running(r) /\ requests'[r].phase \in {"fetch", "write"}
        /\ SameCourse(requests'[r], q)
    <3>1. ASSUME NEW c \in Collections, Leave(r, c, FALSE), q.phase \in {"fetch", "write"}
          PROVE  Running(r) /\ requests'[r].phase = "fetch" /\ SameCourse(requests'[r], q)
      BY <3>1, <1>T, LeaveCourse DEF SameCourse, Done, Running
    <3>2. CASE \E c \in Collections : FetchCopy(r, c) \/ FetchFails(r, c)
      <4>1. PICK c \in Collections : FetchCopy(r, c)
        BY <3>2 DEF FetchFails
      <4>2. CASE Leave(r, c, FALSE)
        BY <4>1, <4>2, <3>1 DEF FetchCopy
      <4>3. CASE ~ Leave(r, c, FALSE)
        <5>1. PICK doc \in Fetched(q.kind, c) :
                requests' = [requests EXCEPT ![r].phase = "write", ![r].at = c, ![r].seen = doc]
          BY <4>1, <4>3 DEF FetchCopy
        <5>2. q.phase = "fetch"
          BY <4>1 DEF FetchCopy
        <5>3. QED
          BY <5>1, <5>2, <1>T DEF SameCourse, Done, Running, Request
      <4>4. QED
        BY <4>2, <4>3
    <3>3. CASE WriteRejected(r)
      <4>1. PICK c \in Collections : c = q.at
        BY <3>3, <1>T, VisitsType DEF IInv, VisitsNamed, WriteRejected, Request
      <4>2. QED
        BY <4>1, <3>1, <3>3 DEF WriteRejected
    <3>4. CASE IndexCopy(r)
      <4>1. PICK c \in Collections : c = q.at
        BY <3>4, <1>T, VisitsType DEF IInv, VisitsNamed, IndexCopy, Request
      <4>2. q.phase = "index" /\ Leave(r, c, TRUE)
        BY <4>1, <3>4 DEF IndexCopy
      <4>3. QED
        BY <4>1, <4>2, <1>T, LeaveCourse DEF SameCourse, Done, Running
    <3>5. QED
      BY <1>5, <3>2, <3>3, <3>4
  <2>2. \A o \in Requests : Running(o)' <=> Running(o)
    BY <2>1, <1>3 DEF Running
  <2>3. \A o \in Requests : ~ Running(o) => requests'[o].ok = {}
    BY <2>1, <1>3 DEF SerialInv, Clean
  <2>4. \A o \in Requests : Running(o) => SameCourse(requests'[o], requests[o])
    BY <2>1, <1>3 DEF SameCourse
  <2>5. QED
    BY <2>2, <2>3, <2>4, <1>1, <1>2, CourseKept
<1>6. QED
  BY <1>4, <1>5

LEMMA ModerateKeepsSerial ==
  ASSUME IInv, SerialInv, NEW c \in Collections, NEW status \in ModeratorActions,
         Moderate(c, status)
  PROVE  SerialInv'
<1>1. UNCHANGED <<source, requests, edit, retracted, announced>>
  BY DEF Moderate
<1>2. \A d \in Collections :
        /\ copies'[d].exists = copies[d].exists
        /\ copies'[d].group_ids = copies[d].group_ids
        /\ copies'[d].space_ids = copies[d].space_ids
  BY DEF Moderate, IInv, TypeOK, Copy
<1>3. \A d \in Destinations : Listed(d)' <=> Listed(d)
  BY <1>2 DEF Listed, Collections, Destinations
<1>4. ListedSet' = ListedSet
  BY <1>3 DEF ListedSet
<1>5. QED
  BY <1>1, <1>4, CourseKept DEF Running, SameCourse, SerialInv, Clean

LEMMA NextSerialInv ==
  ASSUME ~ Overlap, ~ Faults, IInv, SerialInv, [Next]_vars
  PROVE  SerialInv'
<1>1. ASSUME NEW r \in Requests, RequestStep(r) PROVE SerialInv'
  <2>1. ~ WriteFails(r) /\ ~ Crash(r)
    BY DEF WriteFails, Crash
  <2>2. QED
    BY <1>1, <2>1, StepKeepsSerial, ConfirmKeepsSerial, WriteKeepsSerial, TrackKeepsSerial
    DEF RequestStep
<1>2. CASE \E r \in Requests : RequestStep(r)
  BY <1>1, <1>2
<1>3. CASE FinishEdit \/ \E content \in Contents : StartEdit(content)
  BY <1>3, EditKeepsSerial
<1>4. CASE \E c \in Collections, status \in ModeratorActions : Moderate(c, status)
  BY <1>4, ModerateKeepsSerial
<1>5. CASE UNCHANGED vars
  <2>1. UNCHANGED <<source, copies, requests, edit, retracted, announced>>
    BY <1>5 DEF vars
  <2>2. ListedSet' = ListedSet
    BY <2>1 DEF ListedSet, Listed
  <2>3. QED
    BY <2>1, <2>2, CourseKept DEF Running, SameCourse, SerialInv, Clean
<1>6. QED
  BY <1>2, <1>3, <1>4, <1>5 DEF Next

LEMMA SpecSerialInv ==
  ASSUME ~ Overlap, ~ Faults
  PROVE  Spec => [](IInv /\ SerialInv)
<1>1. SerialInv /\ IInv /\ [Next]_vars => SerialInv'
  BY NextSerialInv
<1>2. QED
  BY <1>1, InitSerialInv, SpecIInv, PTL DEF Spec

\* Without overlap and failures the source tracks exactly the destinations its
\* copies are listed in, whenever nothing is running.
THEOREM SerialTrackingMatches ==
  ASSUME ~ Overlap, ~ Faults
  PROVE  Spec => []TrackingMatchesCopies
<1>1. SerialInv => TrackingMatchesCopies
  BY DEF SerialInv, Agreement, TrackingMatchesCopies, Quiet, ListedSet
<1>2. QED
  BY <1>1, SpecSerialInv, PTL

\* Without overlap and failures what was reported retracted is not listed, until
\* it is published to again.
THEOREM SerialRetractHonoured ==
  ASSUME ~ Overlap, ~ Faults
  PROVE  Spec => []RetractHonoured
<1>1. IInv /\ SerialInv => RetractHonoured
  BY DEF IInv, TypeOK, SerialInv, Honoured, RetractHonoured, ListedSet
<1>2. QED
  BY <1>1, SpecSerialInv, PTL

\* And what was reported published is listed, until it is retracted.
THEOREM SerialPublishHonoured ==
  ASSUME ~ Overlap, ~ Faults
  PROVE  Spec => []PublishHonoured
<1>1. SerialInv => PublishHonoured
  BY DEF SerialInv, Honoured, PublishHonoured, ListedSet
<1>2. QED
  BY <1>1, SpecSerialInv, PTL

\* Without overlap and failures every destination, the spaces that share a copy
\* included, is listed and delisted only by requests that name it.
THEOREM SerialServiceIsRegistry ==
  ASSUME ~ Overlap, ~ Faults
  PROVE  Spec => ImplementsRegistry
<1> DEFINE lists == {d \in Destinations : Listed(d)}
           running == RunningOver(Destinations)
<1>1. Init => Registry!RegistryInit
  <2> SUFFICES ASSUME Init PROVE Registry!RegistryInit
    OBVIOUS
  <2>1. lists = {}
    BY NamesAssumption DEF Init, Listed, Destinations, NoCopy, Collections
  <2>2. running = [r \in Requests |-> [kind |-> "none", dests |-> {}]]
    BY DEF Init, RunningOver, Running, IdleRequest
  <2>3. QED
    BY <2>1, <2>2 DEF Registry!RegistryInit, Registry!Nothing
<1>2. ASSUME IInv, SerialInv, [Next]_vars
      PROVE  [Registry!RegistryNext]_<<lists, running>>
  <2>T. requests \in [Requests -> Request]
    BY <1>2 DEF IInv, TypeOK
  <2>1. CASE Stutters(Destinations)
    BY <2>1 DEF Stutters
  <2>2. ASSUME NEW r \in Requests, Begins(Destinations, r) PROVE Registry!RegistryNext
    <3>1. PICK operation \in Registry!Operation :
            operation = [kind |-> requests[r].kind, dests |-> Names(requests[r]) \cap Destinations]
      BY <2>T DEF Registry!Operation, Request
    <3>2. Registry!Begin(r, operation)
      BY <2>2, <3>1 DEF Begins, Registry!Begin, Registry!Nothing
    <3>3. QED
      BY <3>2 DEF Registry!RegistryNext
  <2>3. ASSUME NEW r \in Requests, Ends(Destinations, r) PROVE Registry!RegistryNext
    <3>1. Registry!Finish(r)
      BY <2>3 DEF Ends, Registry!Finish, Registry!Nothing
    <3>2. QED
      BY <3>1 DEF Registry!RegistryNext
  <2>4. ASSUME NEW r \in Requests, NEW c \in Collections, Writes(Destinations, r, c)
        PROVE  [Registry!RegistryNext]_<<lists, running>>
    <3> DEFINE q == requests[r]
    <3>1. running[r] = [kind |-> q.kind, dests |-> Names(q) \cap Destinations]
      BY <2>4, RunningOverView DEF View, Writes
    <3>2. /\ WriteTo(r, c) /\ q.phase = "write" /\ c = q.at /\ q \in Request
          /\ c \in Visits(q.spaces, q.groups, q.friends) /\ Running(r)
      BY <1>2, <2>4, <2>T DEF IInv, VisitsNamed, Writes, Running
    <3>3. q.snap = source /\ lists = Expected(TrackedDestinations, q) /\ Done(q) = q.ok
      BY <1>2, <3>2 DEF SerialInv, Fresh, Agreement, ListedSet, Done
    <3>4. /\ q.kind = "publish" => lists = TrackedDestinations \cup Reached(q, q.ok)
          /\ q.kind = "retract" => lists = TrackedDestinations \ Reached(q, q.ok)
      BY <3>3 DEF Expected
    <3>5. /\ q.kind = "publish" =>
               lists' = TrackedDestinations \cup Reached(q, q.ok \cup {c})
          /\ q.kind = "retract" =>
               lists' = TrackedDestinations \ Reached(q, q.ok \cup {c})
          /\ q.kind = "revise" => lists' = lists
      <4>1. q.ok \in SUBSET Collections
        BY <3>2 DEF Request
      <4>2. QED
        BY <1>2, <3>2, <3>3, <3>4, <4>1, WriteReaches DEF ListedSet
    <3>6. PICK dests \in SUBSET Destinations : dests = Reached(q, {c})
      BY <3>2 DEF Reached, Request, Destinations
    <3>7. Reached(q, q.ok \cup {c}) = Reached(q, q.ok) \cup dests
      BY <3>6 DEF Reached
    <3>8. dests \subseteq running[r].dests
      <4>1. c = Friends => q.friends
        BY <3>2, NamesAssumption DEF Visits, Request
      <4>2. QED
        BY <3>1, <3>6, <4>1 DEF Reached, Names
    <3>9. CASE q.kind = "publish"
      <4>1. lists' = lists \cup dests
        BY <3>4, <3>5, <3>7, <3>9
      <4>2. Registry!Enlist(r, dests)
        BY <4>1, <3>1, <3>8, <3>9, <2>4 DEF Registry!Enlist, Writes
      <4>3. QED
        BY <4>2 DEF Registry!RegistryNext
    <3>10. CASE q.kind = "retract"
      <4>1. lists' = lists \ dests
        BY <3>4, <3>5, <3>7, <3>10
      <4>2. Registry!Delist(r, dests)
        BY <4>1, <3>1, <3>8, <3>10, <2>4 DEF Registry!Delist, Writes
      <4>3. QED
        BY <4>2 DEF Registry!RegistryNext
    <3>11. CASE q.kind = "revise"
      BY <3>5, <3>11, <2>4 DEF Writes
    <3>12. QED
      BY <3>2, <3>9, <3>10, <3>11 DEF Request, Kinds
  <2>5. Destinations \in SUBSET Destinations
    OBVIOUS
  <2> HIDE DEF lists, running
  <2>6. QED
    BY <1>2, <2>1, <2>2, <2>3, <2>4, <2>5, RegistrySteps
<1>3. QED
  BY <1>1, <1>2, SpecSerialInv, PTL DEF Spec, ImplementsRegistry, Registry!RegistrySpec

-----------------------------------------------------------------------------
(* The confirmation that requests to publish wait for: the token services. *)

\* What a failed attempt writes is again a request document.
LEMMA BackoffFieldsType ==
  ASSUME NEW seen \in Document, NEW now \in Nat, NEW doc \in Document,
         seen.failed_attempts < MaxFailedAttempts
  PROVE  BackoffFields(seen, now, doc) \in Document
<1> DEFINE attempts == seen.failed_attempts + 1
<1>1. attempts \in Nat
  BY DEF Document
<1>2. CASE attempts >= MaxFailedAttempts
  BY <1>1, <1>2 DEF BackoffFields, Document, Statuses
<1>3. CASE ~ (attempts >= MaxFailedAttempts)
  <2>1. attempts \in 1..MaxFailedAttempts
    BY <1>1, <1>3, ConstantsAssumption DEF Document
  <2>2. now + Backoff(attempts) \in Nat
    BY <2>1, BackoffAssumption
  <2>3. BackoffFields(seen, now, doc) =
          [doc EXCEPT !.failed_attempts = attempts, !.cooldown_until = now + Backoff(attempts)]
    BY <1>3 DEF BackoffFields
  <2>4. QED
    BY <1>1, <2>2, <2>3 DEF Document
<1>4. QED
  BY <1>2, <1>3

\* The inductive invariant: with the types, what a handler remembers about the
\* request it read is still true of it or can no longer matter.
\*   - a handler that is about to charge a failed attempt read a request that
\*     had attempts left;
\*   - a handler that was late finds the request settled for ever, so it never
\*     gets past its first query.
BackoffFromLiveRequest ==
  \A c \in Callers :
    call[c].step = "backoff" => call[c].seen.failed_attempts < MaxFailedAttempts

LateFindsSettled ==
  \A c \in Callers :
    call[c].late =>
      /\ call[c].step \in {"guard", "validate"}
      /\ documents[call[c].token].status # "pending"

BusyHasToken == \A c \in Callers : call[c].step # "idle" => call[c].token \in issued

TokensIInv ==
  /\ TokensTypeOK
  /\ BusyHasToken
  /\ PendingHasAttemptsLeft
  /\ BackoffFromLiveRequest
  /\ LateFindsSettled

LEMMA IdleCallType == IdleCall \in Call
  BY DEF IdleCall, Call, Steps, Ops, Services, BlankRequest, Document, Statuses

LEMMA SettledStatusType ==
  ASSUME NEW op \in Ops
  PROVE  SettledStatus(op) \in Statuses \ {"pending"}
  BY DEF SettledStatus, Ops, Statuses

LEMMA TokensInitIInv == TokensInit => TokensIInv
<1> SUFFICES ASSUME TokensInit PROVE TokensIInv
  OBVIOUS
<1> USE ConstantsAssumption
<1>1. TokensTypeOK
  BY IdleCallType DEF TokensInit, TokensTypeOK, BlankRequest, Document, Statuses, Services
<1>2. BusyHasToken /\ PendingHasAttemptsLeft /\ BackoffFromLiveRequest /\ LateFindsSettled
  BY DEF TokensInit, IdleCall, BusyHasToken, PendingHasAttemptsLeft, BackoffFromLiveRequest,
         LateFindsSettled
<1>3. QED
  BY <1>1, <1>2 DEF TokensIInv

LEMMA TokensNextIInv == TokensIInv /\ [TokensNext]_tokenVars => TokensIInv'
<1> SUFFICES ASSUME TokensIInv, [TokensNext]_tokenVars PROVE TokensIInv'
  OBVIOUS
<1> USE ConstantsAssumption, IdleCallType
<1> USE DEF TokensIInv
<1>1. CASE Tick
  BY <1>1 DEF Tick, tokenHistory, TokensTypeOK, BusyHasToken, PendingHasAttemptsLeft,
              BackoffFromLiveRequest, LateFindsSettled
<1>2. ASSUME NEW t \in Tokens, NEW action \in Services, NEW cooldown \in {0, InitialCooldown},
             CreateRequest(t, action, cooldown)
      PROVE  TokensIInv'
  <2>1. TokensTypeOK'
    BY <1>2 DEF CreateRequest, TokensTypeOK, Document, Statuses
  <2>2. BusyHasToken' /\ BackoffFromLiveRequest'
    BY <1>2 DEF CreateRequest, BusyHasToken, BackoffFromLiveRequest
  <2>3. PendingHasAttemptsLeft'
    BY <1>2 DEF CreateRequest, PendingHasAttemptsLeft, TokensTypeOK
  <2>4. LateFindsSettled'
    BY <1>2 DEF CreateRequest, LateFindsSettled, BusyHasToken, TokensTypeOK
  <2>5. QED
    BY <2>1, <2>2, <2>3, <2>4
<1>3. ASSUME NEW c \in Callers, NEW t \in Tokens, NEW op \in Ops, NEW via \in Services,
             NEW secretOK \in BOOLEAN, StartCall(c, t, op, via, secretOK)
      PROVE  TokensIInv'
  <2> DEFINE new == [step |-> FirstStep(op, via), op |-> op, via |-> via, token |-> t,
                     secretOK |-> secretOK, seen |-> BlankRequest,
                     late |-> documents[t].status # "pending", at |-> 0]
  <2>1. /\ call' = [call EXCEPT ![c] = new]
        /\ t \in issued
        /\ UNCHANGED <<time, issued, documents, notBefore, runs, failures>>
    BY <1>3 DEF StartCall, tokenHistory
  <2>2. FirstStep(op, via) \in {"guard", "validate"}
    BY DEF FirstStep
  <2>3. new \in Call
    BY <2>2 DEF Call, Steps, BlankRequest, Document, Statuses, Services
  <2>4. TokensTypeOK'
    BY <2>1, <2>3 DEF TokensTypeOK
  <2>5. QED
    BY <2>1, <2>2, <2>4 DEF TokensTypeOK, BusyHasToken, PendingHasAttemptsLeft,
       BackoffFromLiveRequest, LateFindsSettled
\* Every step that ends the call without touching the request.
<1>4. ASSUME NEW c \in Callers,
             Return(c) /\ UNCHANGED <<time, issued, documents, tokenHistory>>
      PROVE  TokensIInv'
  BY <1>4 DEF Return, tokenHistory, IdleCall, TokensTypeOK, BusyHasToken, PendingHasAttemptsLeft,
              BackoffFromLiveRequest, LateFindsSettled
\* Every step that found the request valid and goes on to a step s.
<1>5. ASSUME NEW c \in Callers, NEW s \in {"expire", "backoff", "settle"},
             call[c].step \in {"guard", "validate"}, Found(c), Proceed(c, s),
             UNCHANGED <<time, issued, documents, tokenHistory>>
      PROVE  TokensIInv'
  <2>1. call[c].token \in issued /\ call[c].token \in Tokens
    BY <1>5 DEF BusyHasToken, TokensTypeOK
  <2>2. documents[call[c].token] \in Document /\ call[c] \in Call
    BY <2>1 DEF TokensTypeOK
  <2>3. call' = [call EXCEPT ![c] = [call[c] EXCEPT !.step = s,
                   !.seen = documents[call[c].token], !.at = time]]
    BY <1>5 DEF Proceed, TokensTypeOK
  <2>4. [call[c] EXCEPT !.step = s, !.seen = documents[call[c].token], !.at = time] \in Call
    BY <2>2 DEF Call, Steps, TokensTypeOK
  <2>5. TokensTypeOK'
    BY <1>5, <2>3, <2>4 DEF TokensTypeOK, tokenHistory
  <2>6. ~ call[c].late
    BY <1>5 DEF Found, LateFindsSettled
  <2>7. BackoffFromLiveRequest'
    BY <1>5, <2>1, <2>2, <2>3 DEF Found, BackoffFromLiveRequest, PendingHasAttemptsLeft, TokensTypeOK, Call
  <2>8. LateFindsSettled'
    BY <1>5, <2>2, <2>3, <2>6 DEF LateFindsSettled, TokensTypeOK, Call
  <2>9. BusyHasToken' /\ PendingHasAttemptsLeft'
    BY <1>5, <2>1, <2>2, <2>3 DEF BusyHasToken, PendingHasAttemptsLeft, TokensTypeOK, Call
  <2>10. QED
    BY <2>5, <2>7, <2>8, <2>9
<1>6. ASSUME NEW c \in Callers, GuardPass(c)
      PROVE  TokensIInv'
  BY <1>6 DEF GuardPass, tokenHistory, TokensTypeOK, Call, Steps, BusyHasToken, PendingHasAttemptsLeft,
              BackoffFromLiveRequest, LateFindsSettled
\* A write of one status other than 'pending'.
<1>7. ASSUME NEW c \in Callers, NEW status \in Statuses \ {"pending"},
             call[c].step # "idle", UpdateStatus(c, status),
             UNCHANGED <<time, issued, tokenHistory>>,
             \/ Return(c)
             \/ call[c].step = "settle" /\ call' = [call EXCEPT ![c].step = "execute"]
      PROVE  TokensIInv'
  <2> DEFINE t == call[c].token
  <2>1. t \in issued /\ t \in Tokens
    BY <1>7 DEF BusyHasToken, TokensTypeOK
  <2>2. /\ documents' \in [Tokens -> Document]
        /\ documents'[t].status = status
        /\ documents'[t].failed_attempts = documents[t].failed_attempts
        /\ \A u \in Tokens \ {t} : documents'[u] = documents[u]
    BY <1>7, <2>1 DEF UpdateStatus, TokensTypeOK, Document
  <2>3. call' \in [Callers -> Call]
    BY <1>7 DEF Return, TokensTypeOK, Call, Steps
  <2>4. TokensTypeOK'
    BY <1>7, <2>2, <2>3 DEF TokensTypeOK, tokenHistory
  <2>5. PendingHasAttemptsLeft'
    BY <1>7, <2>2 DEF PendingHasAttemptsLeft, TokensTypeOK
  <2>6. BusyHasToken' /\ BackoffFromLiveRequest'
    BY <1>7, <2>1 DEF Return, IdleCall, BusyHasToken, BackoffFromLiveRequest, TokensTypeOK, Call
  <2>7. LateFindsSettled'
    BY <1>7, <2>1, <2>2 DEF Return, IdleCall, LateFindsSettled, BusyHasToken, TokensTypeOK, Call
  <2>8. QED
    BY <2>4, <2>5, <2>6, <2>7
<1>8. ASSUME NEW c \in Callers, ApplyBackoff(c)
      PROVE  TokensIInv'
  <2> DEFINE t == call[c].token
  <2>1. t \in issued /\ t \in Tokens /\ call[c].seen \in Document
    BY <1>8 DEF ApplyBackoff, BusyHasToken, TokensTypeOK, Call
  <2>2. call[c].seen.failed_attempts < MaxFailedAttempts
    BY <1>8 DEF ApplyBackoff, BackoffFromLiveRequest
  <2>3. documents' = [documents EXCEPT ![t] = BackoffFields(call[c].seen, time, documents[t])]
    BY <1>8 DEF ApplyBackoff
  <2>4. BackoffFields(call[c].seen, time, documents[t]) \in Document
    BY <2>1, <2>2, BackoffFieldsType DEF TokensTypeOK
  <2>5. /\ documents' \in [Tokens -> Document]
        /\ documents'[t] = BackoffFields(call[c].seen, time, documents[t])
        /\ \A u \in Tokens \ {t} : documents'[u] = documents[u]
    BY <2>1, <2>3, <2>4 DEF TokensTypeOK
  <2>6. TokensTypeOK'
    BY <1>8, <2>1, <2>5 DEF ApplyBackoff, Return, TokensTypeOK
  <2>7. /\ documents'[t].status = "pending" =>
             /\ documents[t].status = "pending"
             /\ documents'[t].failed_attempts < MaxFailedAttempts
    <3>1. documents[t] \in Document
      BY <2>1 DEF TokensTypeOK
    <3>2. QED
      BY <2>1, <2>2, <2>5, <3>1 DEF BackoffFields, Document
  <2>8. PendingHasAttemptsLeft'
    BY <1>8, <2>5, <2>7 DEF ApplyBackoff, PendingHasAttemptsLeft, TokensTypeOK
  <2>9. BusyHasToken' /\ BackoffFromLiveRequest'
    BY <1>8 DEF ApplyBackoff, Return, IdleCall, BusyHasToken, BackoffFromLiveRequest, TokensTypeOK
  <2>10. LateFindsSettled'
    BY <1>8, <2>5, <2>7 DEF ApplyBackoff, Return, IdleCall, LateFindsSettled, BusyHasToken, TokensTypeOK
  <2>11. QED
    BY <2>6, <2>8, <2>9, <2>10
<1>9. ASSUME NEW c \in Callers, Execute(c)
      PROVE  TokensIInv'
  <2>1. runs' \in [Tokens -> Nat]
    BY <1>9 DEF Execute, BusyHasToken, TokensTypeOK
  <2>2. QED
    BY <1>9, <2>1 DEF Execute, Return, IdleCall, TokensTypeOK, BusyHasToken, PendingHasAttemptsLeft,
                      BackoffFromLiveRequest, LateFindsSettled
<1>10. ASSUME NEW c \in Callers, Settle(c)
       PROVE  TokensIInv'
  <2>1. call[c].op \in Ops
    BY DEF TokensTypeOK, Call
  <2>2. QED
    BY <1>7, <1>10, <2>1, SettledStatusType DEF Settle
<1>11. ASSUME NEW c \in Callers, WriteExpired(c)
       PROVE  TokensIInv'
  BY <1>7, <1>11 DEF WriteExpired, Statuses
<1>12. ASSUME NEW c \in Callers, ValidateMiss(c) \/ GuardCooldown(c) \/ Die(c)
       PROVE  TokensIInv'
  BY <1>4, <1>12 DEF ValidateMiss, GuardCooldown, Die
<1>13. ASSUME NEW c \in Callers, ValidateExpired(c) \/ GuardMismatch(c) \/ ValidateHit(c)
       PROVE  TokensIInv'
  BY <1>5, <1>13 DEF ValidateExpired, GuardMismatch, ValidateHit, Valid
<1>14. CASE UNCHANGED tokenVars
  BY <1>14 DEF tokenVars, TokensTypeOK, BusyHasToken, PendingHasAttemptsLeft,
               BackoffFromLiveRequest, LateFindsSettled
<1>15. QED
  BY <1>1, <1>2, <1>3, <1>6, <1>8, <1>9, <1>10, <1>11, <1>12, <1>13, <1>14 DEF TokensNext, CallStep

LEMMA TokensSpecIInv == TokensSpec => []TokensIInv
<1>1. TokensInit => TokensIInv
  BY TokensInitIInv
<1>2. TokensIInv /\ [TokensNext]_tokenVars => TokensIInv'
  BY TokensNextIInv
<1>3. QED
  BY <1>1, <1>2, PTL DEF TokensSpec

\* Documents and handler snapshots keep their shape in every reachable state.
THEOREM TokensTypeCorrect == TokensSpec => []TokensTypeOK
<1>1. TokensIInv => TokensTypeOK
  BY DEF TokensIInv
<1>2. QED
  BY <1>1, TokensSpecIInv, PTL

\* A pending request always has failed attempts left, however the handlers that
\* charge them overlap.
THEOREM PendingRequestsHaveAttemptsLeft == TokensSpec => []PendingHasAttemptsLeft
<1>1. TokensIInv => PendingHasAttemptsLeft
  BY DEF TokensIInv
<1>2. QED
  BY <1>1, TokensSpecIInv, PTL

\* No handler called after a request was settled settles or executes it.
THEOREM LateCallsNeverSettle == TokensSpec => []NoLateSettlement
<1>1. TokensIInv => NoLateSettlement
  BY DEF TokensIInv, LateFindsSettled, NoLateSettlement
<1>2. QED
  BY <1>1, TokensSpecIInv, PTL

\* One step never turns a settled request back into a pending one.
LEMMA StepKeepsSettled ==
  ASSUME TokensIInv, [TokensNext]_tokenVars, NEW t \in issued, documents[t].status # "pending"
  PROVE  documents'[t].status # "pending"
<1> USE DEF TokensIInv
<1>1. t \in Tokens /\ documents[t] \in Document
  BY DEF TokensTypeOK
<1>2. CASE UNCHANGED documents
  BY <1>2
<1>3. ASSUME NEW u \in Tokens, NEW action \in Services, NEW cooldown \in {0, InitialCooldown},
             CreateRequest(u, action, cooldown)
      PROVE  documents'[t].status # "pending"
  BY <1>1, <1>3 DEF CreateRequest, TokensTypeOK
<1>4. ASSUME NEW c \in Callers, NEW status \in Statuses \ {"pending"}, UpdateStatus(c, status)
      PROVE  documents'[t].status # "pending"
  BY <1>1, <1>4 DEF UpdateStatus, TokensTypeOK, Document
<1>5. ASSUME NEW c \in Callers, ApplyBackoff(c)
      PROVE  documents'[t].status # "pending"
  <2>1. call[c].token \in Tokens
    BY <1>5 DEF ApplyBackoff, BusyHasToken, TokensTypeOK
  <2>2. documents' = [documents EXCEPT ![call[c].token] =
                       BackoffFields(call[c].seen, time, documents[call[c].token])]
    BY <1>5 DEF ApplyBackoff
  <2>3. BackoffFields(call[c].seen, time, documents[t]).status # "pending"
    BY <1>1 DEF BackoffFields, Document
  <2>4. QED
    BY <1>1, <2>1, <2>2, <2>3 DEF TokensTypeOK
<1>6. ASSUME NEW c \in Callers, Settle(c)
      PROVE  documents'[t].status # "pending"
  <2>1. call[c].op \in Ops
    BY DEF TokensTypeOK, Call
  <2>2. QED
    BY <1>4, <1>6, <2>1, SettledStatusType DEF Settle
<1>7. ASSUME NEW c \in Callers, WriteExpired(c)
      PROVE  documents'[t].status # "pending"
  BY <1>4, <1>7 DEF WriteExpired, Statuses
<1>8. QED
  BY <1>2, <1>3, <1>5, <1>6, <1>7
     DEF TokensNext, CallStep, tokenVars, Tick, StartCall, ValidateMiss, ValidateExpired, GuardCooldown,
         GuardPass, GuardMismatch, ValidateHit, Execute, Die

\* Every write merges single fields, so no handler revives a settled request
\* by writing back the pending snapshot it read.
THEOREM SettledStaysSettled == TokensSpec => NoResurrection
<1>1. TokensIInv /\ [TokensNext]_tokenVars =>
        [\A t \in issued : documents[t].status # "pending" => documents'[t].status # "pending"]_tokenVars
  BY StepKeepsSettled
<1>2. QED
  BY <1>1, TokensSpecIInv, PTL DEF TokensSpec, NoResurrection

-----------------------------------------------------------------------------
(* The window in which a guarded request may be settled.  The cooldown field *)
(* is overwritten by later failed attempts, and a stale attempt may even     *)
(* lower it; it never lets a handler through before the first cooldown,      *)
(* because an attempt is only charged once that has passed.                  *)

Guarded(c) == FirstStep(call[c].op, call[c].via) = "guard"

WindowInv ==
  /\ \A t \in issued : notBefore[t] <= documents[t].cooldown_until \/ notBefore[t] <= time
  /\ \A c \in Callers :
       /\ call[c].step = "backoff" => notBefore[call[c].token] <= time
       /\ Guarded(c) /\ call[c].step \in {"validate", "settle", "execute"} =>
            notBefore[call[c].token] <= time
  /\ SettledInWindow

LEMMA InitWindowInv == TokensInit => WindowInv
  BY DEF TokensInit, IdleCall, WindowInv, SettledInWindow, Guarded

LEMMA NextWindowInv == TokensIInv /\ WindowInv /\ [TokensNext]_tokenVars => WindowInv'
<1> SUFFICES ASSUME TokensIInv, WindowInv, [TokensNext]_tokenVars PROVE WindowInv'
  OBVIOUS
<1> USE ConstantsAssumption
<1> USE DEF WindowInv, SettledInWindow, Guarded
<1>0. TokensTypeOK /\ BusyHasToken
  BY DEF TokensIInv
\* A handler goes on with the document it has just read.
<1>proceed. ASSUME NEW c \in Callers, NEW s, Proceed(c, s)
            PROVE  /\ call'[c].step = s /\ call'[c].at = time
                   /\ call'[c].seen = documents[call[c].token]
                   /\ call'[c].op = call[c].op /\ call'[c].via = call[c].via
                   /\ call'[c].token = call[c].token
                   /\ \A d \in Callers \ {c} : call'[d] = call[d]
  BY <1>0, <1>proceed DEF Proceed, TokensTypeOK, Call
<1>1. CASE Tick
  BY <1>0, <1>1 DEF Tick, tokenHistory, TokensTypeOK, BusyHasToken
<1>2. ASSUME NEW t \in Tokens, NEW action \in Services, NEW cooldown \in {0, InitialCooldown},
             CreateRequest(t, action, cooldown)
      PROVE  WindowInv'
  <2>1. \A u \in issued : /\ u # t /\ documents'[u] = documents[u]
                           /\ notBefore'[u] = notBefore[u]
    BY <1>0, <1>2 DEF CreateRequest, TokensTypeOK
  <2>2. notBefore'[t] <= documents'[t].cooldown_until \/ notBefore'[t] <= time'
    BY <1>0, <1>2 DEF CreateRequest, TokensTypeOK
  <2>3. QED
    BY <1>0, <1>2, <2>1, <2>2 DEF CreateRequest, BusyHasToken, TokensTypeOK, Call
<1>3. ASSUME NEW c \in Callers, NEW t \in Tokens, NEW op \in Ops, NEW via \in Services,
             NEW secretOK \in BOOLEAN, StartCall(c, t, op, via, secretOK)
      PROVE  WindowInv'
  <2>1. FirstStep(op, via) \in {"guard", "validate"}
    BY DEF FirstStep
  <2>2. QED
    BY <1>0, <1>3, <2>1 DEF StartCall, tokenHistory, TokensTypeOK
\* A call that ends, whatever it did to statuses.
<1>4. ASSUME NEW c \in Callers, Return(c), UNCHANGED <<time, issued, notBefore>>,
             \A t \in issued : documents'[t].cooldown_until = documents[t].cooldown_until
      PROVE  WindowInv'
  BY <1>0, <1>4 DEF Return, IdleCall, TokensTypeOK
<1>5. ASSUME NEW c \in Callers, NEW status \in Statuses, UpdateStatus(c, status),
             call[c].step # "idle", NEW t \in issued
      PROVE  documents'[t].cooldown_until = documents[t].cooldown_until
  BY <1>0, <1>5 DEF UpdateStatus, TokensTypeOK, Document
<1>6. ASSUME NEW c \in Callers, ValidateMiss(c) \/ GuardCooldown(c) \/ Die(c)
      PROVE  WindowInv'
  BY <1>4, <1>6 DEF ValidateMiss, GuardCooldown, Die, tokenHistory
<1>7. ASSUME NEW c \in Callers, WriteExpired(c)
      PROVE  WindowInv'
  BY <1>4, <1>5, <1>7 DEF WriteExpired, Statuses, tokenHistory
<1>8. ASSUME NEW c \in Callers, ValidateExpired(c)
      PROVE  WindowInv'
  BY <1>0, <1>8, <1>proceed DEF ValidateExpired, tokenHistory
<1>9. ASSUME NEW c \in Callers, GuardPass(c) \/ GuardMismatch(c)
      PROVE  WindowInv'
  <2>1. call[c].token \in issued /\ ~ InCooldown(c)
    BY <1>0, <1>9 DEF GuardPass, GuardMismatch, BusyHasToken
  <2>2. documents[call[c].token] \in Document /\ notBefore[call[c].token] \in Nat /\ time \in Nat
    BY <1>0, <2>1 DEF TokensTypeOK
  <2>3. notBefore[call[c].token] <= time
    BY <2>1, <2>2 DEF InCooldown, Document
  <2>4. QED
    BY <1>0, <1>9, <2>3 DEF GuardPass, GuardMismatch, Proceed, tokenHistory, TokensTypeOK, Call
<1>10. ASSUME NEW c \in Callers, ApplyBackoff(c)
       PROVE  WindowInv'
  <2> DEFINE t == call[c].token
  <2>1. notBefore[t] <= time /\ t \in Tokens
    BY <1>0, <1>10 DEF ApplyBackoff, BusyHasToken, TokensTypeOK
  <2>2. \A u \in Tokens \ {t} : documents'[u] = documents[u]
    BY <1>0, <1>10 DEF ApplyBackoff, TokensTypeOK
  <2>3. QED
    BY <1>0, <1>10, <2>1, <2>2 DEF ApplyBackoff, Return, IdleCall, TokensTypeOK
<1>11. ASSUME NEW c \in Callers, ValidateHit(c)
       PROVE  WindowInv'
  <2>1. call[c].token \in Tokens
    BY <1>0, <1>11 DEF ValidateHit, BusyHasToken, TokensTypeOK
  <2>2. documents[call[c].token] \in Document
    BY <1>0, <2>1 DEF TokensTypeOK
  <2>3. time <= documents[call[c].token].expires_at
    BY <1>0, <1>11, <2>2 DEF ValidateHit, Valid, PastExpiry, TokensTypeOK, Document
  <2>4. QED
    BY <1>11, <1>proceed, <2>3 DEF ValidateHit, tokenHistory
<1>12. ASSUME NEW c \in Callers, Settle(c)
       PROVE  WindowInv'
  <2>1. call[c].op \in Ops /\ call[c].token \in Tokens
    BY <1>0, <1>12 DEF Settle, BusyHasToken, TokensTypeOK, Call
  <2>2. \A t \in issued : documents'[t].cooldown_until = documents[t].cooldown_until
    BY <1>5, <1>12, <2>1, SettledStatusType DEF Settle
  <2>3. CASE Return(c)
    BY <1>4, <1>12, <2>2, <2>3 DEF Settle, tokenHistory
  <2>4. CASE call' = [call EXCEPT ![c].step = "execute"]
    BY <1>0, <1>12, <2>2, <2>4 DEF Settle, tokenHistory, TokensTypeOK, Call
  <2>5. QED
    BY <1>12, <2>3, <2>4 DEF Settle
<1>13. ASSUME NEW c \in Callers, Execute(c)
       PROVE  WindowInv'
  BY <1>4, <1>13 DEF Execute
<1>14. CASE UNCHANGED tokenVars
  BY <1>0, <1>14 DEF tokenVars, TokensTypeOK
<1>15. QED
  BY <1>1, <1>2, <1>3, <1>6, <1>7, <1>8, <1>9, <1>10, <1>11, <1>12, <1>13, <1>14
     DEF TokensNext, CallStep

\* A settlement always rests on a validation made before the expiry and, behind
\* the guard, after the cooldown the request was created with.
THEOREM SettlementsInWindow == TokensSpec => []SettledInWindow
<1>1. TokensInit => TokensIInv /\ WindowInv
  BY TokensInitIInv, InitWindowInv
<1>2. TokensIInv /\ WindowInv /\ [TokensNext]_tokenVars => (TokensIInv /\ WindowInv)'
  BY TokensNextIInv, NextWindowInv
<1>3. WindowInv => SettledInWindow
  BY DEF WindowInv
<1>4. QED
  BY <1>1, <1>2, <1>3, PTL DEF TokensSpec

-----------------------------------------------------------------------------
(* One handler at a time.  Without overlap the service is the one-time token *)
(* of OneTimeToken.tla.                                                      *)

TokensSerialInv ==
  /\ \A t \in Tokens : runs[t] > 0 => t \in issued /\ documents[t].status = "confirmed"
  /\ \A c \in Callers :
       /\ call[c].step \in {"expire", "backoff", "settle"} =>
            documents[call[c].token].status = "pending"
       /\ call[c].step = "execute" =>
            /\ documents[call[c].token].status = "confirmed"
            /\ runs[call[c].token] = 0

\* A step that leaves the documents, the executed tokens and the set of tokens
\* alone changes nothing in the abstract token.
LEMMA InvisibleStep ==
  ASSUME UNCHANGED <<issued, documents, runs>>
  PROVE  UNCHANGED Abstract!abstractVars
BY DEF Abstract!abstractVars, Outcome

\* One step of one handler, seen from the abstract token.
LEMMA SerialStep ==
  ASSUME \A c, d \in Callers : c = d,
         TokensIInv, TokensSerialInv, [TokensNext]_tokenVars
  PROVE  TokensSerialInv' /\ [Abstract!AbstractNext]_Abstract!abstractVars
<1> USE ConstantsAssumption
<1> USE DEF TokensSerialInv
<1>0. TokensTypeOK /\ BusyHasToken
  BY DEF TokensIInv
<1>1. CASE Tick
  BY <1>1, InvisibleStep DEF Tick, tokenHistory
<1>2. ASSUME NEW t \in Tokens, NEW action \in Services, NEW cooldown \in {0, InitialCooldown},
             CreateRequest(t, action, cooldown)
      PROVE  TokensSerialInv' /\ [Abstract!AbstractNext]_Abstract!abstractVars
  <2>1. TokensSerialInv'
    BY <1>0, <1>2 DEF CreateRequest, BusyHasToken, TokensTypeOK, Call
  <2>2. Abstract!IssueToken(t)
    BY <1>0, <1>2 DEF CreateRequest, Abstract!IssueToken, Outcome, TokensTypeOK
  <2>3. QED
    BY <2>1, <2>2 DEF Abstract!AbstractNext
<1>3. ASSUME NEW c \in Callers, NEW t \in Tokens, NEW op \in Ops, NEW via \in Services,
             NEW secretOK \in BOOLEAN, StartCall(c, t, op, via, secretOK)
      PROVE  TokensSerialInv' /\ [Abstract!AbstractNext]_Abstract!abstractVars
  <2>1. FirstStep(op, via) \in {"guard", "validate"}
    BY DEF FirstStep
  <2>2. QED
    BY <1>0, <1>3, <2>1, InvisibleStep DEF StartCall, tokenHistory, TokensTypeOK
<1>4. ASSUME NEW c \in Callers, Return(c), UNCHANGED <<issued, documents, runs>>
      PROVE  TokensSerialInv' /\ [Abstract!AbstractNext]_Abstract!abstractVars
  BY <1>0, <1>4, InvisibleStep DEF Return, IdleCall, TokensTypeOK
<1>5. ASSUME NEW c \in Callers, NEW s \in {"validate", "expire", "backoff", "settle"},
             Found(c), Proceed(c, s) \/ call' = [call EXCEPT ![c].step = s],
             UNCHANGED <<issued, documents, runs>>
      PROVE  TokensSerialInv' /\ [Abstract!AbstractNext]_Abstract!abstractVars
  BY <1>0, <1>5, InvisibleStep DEF Found, Proceed, TokensTypeOK, Call
\* A write of a closing status to a pending request is the abstract Close.
<1>6. ASSUME NEW c \in Callers, NEW t \in issued, documents[t].status = "pending",
             t = call[c].token, Return(c),
             documents' \in [Tokens -> Document],
             documents'[t].status \in Statuses \ {"pending", "confirmed"},
             \A u \in Tokens \ {t} : documents'[u] = documents[u],
             UNCHANGED <<issued, runs>>
      PROVE  TokensSerialInv' /\ [Abstract!AbstractNext]_Abstract!abstractVars
  <2>1. t \in Tokens
    BY <1>0 DEF TokensTypeOK
  <2>2. TokensSerialInv'
    BY <1>0, <1>6, <2>1 DEF Return, IdleCall, TokensTypeOK
  <2>3. Abstract!CloseToken(t)
    BY <1>6, <2>1 DEF Abstract!CloseToken, Outcome, Statuses
  <2>4. QED
    BY <2>1, <2>2, <2>3 DEF Abstract!AbstractNext
<1>7. ASSUME NEW c \in Callers, WriteExpired(c)
      PROVE  TokensSerialInv' /\ [Abstract!AbstractNext]_Abstract!abstractVars
  <2> DEFINE t == call[c].token
  <2>1. t \in issued /\ t \in Tokens /\ documents[t].status = "pending"
    BY <1>0, <1>7 DEF WriteExpired, BusyHasToken, TokensTypeOK
  <2>2. /\ documents' \in [Tokens -> Document]
        /\ documents'[t].status = "expired"
        /\ \A u \in Tokens \ {t} : documents'[u] = documents[u]
    <3>1. documents[t] \in Document /\ documents \in [Tokens -> Document]
      BY <1>0, <2>1 DEF TokensTypeOK
    <3>2. documents' = [documents EXCEPT ![t].status = "expired"]
      BY <1>7 DEF WriteExpired, UpdateStatus
    <3>3. /\ documents'[t] = [documents[t] EXCEPT !.status = "expired"]
          /\ \A u \in Tokens \ {t} : documents'[u] = documents[u]
      BY <2>1, <3>1, <3>2
    <3>4. [documents[t] EXCEPT !.status = "expired"] \in Document
      BY <3>1 DEF Document, Statuses
    <3>5. QED
      BY <2>1, <3>1, <3>2, <3>3, <3>4 DEF Document
  <2>3. QED
    BY <1>6, <1>7, <2>1, <2>2 DEF WriteExpired, tokenHistory, Statuses
<1>8. ASSUME NEW c \in Callers, ApplyBackoff(c)
      PROVE  TokensSerialInv' /\ [Abstract!AbstractNext]_Abstract!abstractVars
  <2> DEFINE t == call[c].token
  <2> DEFINE doc == BackoffFields(call[c].seen, time, documents[t])
  <2>1. t \in issued /\ t \in Tokens /\ documents[t].status = "pending" /\ documents[t] \in Document
    BY <1>0, <1>8 DEF ApplyBackoff, BusyHasToken, TokensTypeOK
  <2>2. doc \in Document
    BY <1>0, <1>8, <2>1, BackoffFieldsType
       DEF ApplyBackoff, TokensIInv, BackoffFromLiveRequest, TokensTypeOK, Call
  <2>3. /\ documents' \in [Tokens -> Document]
        /\ documents'[t] = doc
        /\ \A u \in Tokens \ {t} : documents'[u] = documents[u]
    BY <1>0, <1>8, <2>1, <2>2 DEF ApplyBackoff, TokensTypeOK
  <2>4. doc.status \in {"pending", "expired"}
    BY <2>1 DEF BackoffFields, Document
  <2>5. CASE doc.status = "expired"
    BY <1>6, <1>8, <2>1, <2>3, <2>5 DEF ApplyBackoff, Statuses
  <2>6. CASE doc.status = "pending"
    <3>1. \A u \in Tokens : documents'[u].status = documents[u].status
      BY <2>1, <2>3, <2>6
    <3>2. TokensSerialInv'
      BY <1>0, <1>8, <3>1 DEF ApplyBackoff, Return, IdleCall, TokensTypeOK
    <3>3. UNCHANGED Abstract!abstractVars
      BY <1>8, <3>1 DEF ApplyBackoff, Abstract!abstractVars, Outcome
    <3>4. QED
      BY <3>2, <3>3
  <2>7. QED
    BY <2>4, <2>5, <2>6
<1>9. ASSUME NEW c \in Callers, Settle(c)
      PROVE  TokensSerialInv' /\ [Abstract!AbstractNext]_Abstract!abstractVars
  <2> DEFINE t == call[c].token
  <2>1. /\ t \in issued /\ t \in Tokens /\ documents[t].status = "pending"
        /\ call[c].op \in Ops /\ runs[t] = 0
    BY <1>0, <1>9 DEF Settle, BusyHasToken, TokensTypeOK, Call
  <2>2. /\ documents' \in [Tokens -> Document]
        /\ documents'[t].status = SettledStatus(call[c].op)
        /\ \A u \in Tokens \ {t} : documents'[u] = documents[u]
    BY <1>0, <1>9, <2>1, SettledStatusType DEF Settle, UpdateStatus, TokensTypeOK, Document
  <2>3. CASE call[c].op # "confirm"
    <3>1. SettledStatus(call[c].op) \in Statuses \ {"pending", "confirmed"}
      BY <2>1, <2>3 DEF SettledStatus, Ops, Statuses
    <3>2. QED
      BY <1>6, <1>9, <2>1, <2>2, <2>3, <3>1 DEF Settle, tokenHistory
  <2>4. CASE call[c].op = "confirm"
    <3>1. /\ call' = [call EXCEPT ![c].step = "execute"]
          /\ documents'[t].status = "confirmed"
          /\ UNCHANGED <<issued, runs>>
      BY <1>9, <2>2, <2>4 DEF Settle, SettledStatus, tokenHistory
    <3>2. TokensSerialInv'
      BY <1>0, <2>1, <2>2, <3>1 DEF TokensTypeOK, Call
    <3>3. Abstract!UseToken(t)
      BY <2>1, <2>2, <3>1 DEF Abstract!UseToken, Outcome
    <3>4. QED
      BY <2>1, <3>2, <3>3 DEF Abstract!AbstractNext
  <2>5. QED
    BY <2>3, <2>4
<1>10. ASSUME NEW c \in Callers, Execute(c)
       PROVE  TokensSerialInv' /\ [Abstract!AbstractNext]_Abstract!abstractVars
  <2> DEFINE t == call[c].token
  <2>1. /\ t \in issued /\ t \in Tokens /\ documents[t].status = "confirmed"
        /\ runs[t] = 0
    BY <1>0, <1>10 DEF Execute, BusyHasToken, TokensTypeOK
  <2>2. TokensSerialInv'
    BY <1>0, <1>10, <2>1 DEF Execute, Return, IdleCall, TokensTypeOK
  <2>3. CASE call[c].seen.action # call[c].via
    <3>1. runs' = runs
      BY <1>0, <1>10, <2>1, <2>3 DEF Execute, TokensTypeOK
    <3>2. QED
      BY <1>10, <2>2, <3>1, InvisibleStep DEF Execute
  <2>4. CASE call[c].seen.action = call[c].via
    <3>1. runs' = [runs EXCEPT ![t] = 1]
      BY <1>0, <1>10, <2>1, <2>4 DEF Execute, TokensTypeOK
    <3>2. Abstract!ExecuteToken(t)
      BY <1>0, <1>10, <2>1, <3>1 DEF Execute, Abstract!ExecuteToken, Outcome, TokensTypeOK
    <3>3. Abstract!AbstractNext
      BY <2>1, <3>2 DEF Abstract!AbstractNext, Abstract!ExecuteToken
    <3>4. QED
      BY <2>2, <3>3
  <2>5. QED
    BY <2>3, <2>4
<1>11. ASSUME NEW c \in Callers, ValidateMiss(c) \/ GuardCooldown(c) \/ Die(c)
       PROVE  TokensSerialInv' /\ [Abstract!AbstractNext]_Abstract!abstractVars
  BY <1>4, <1>11 DEF ValidateMiss, GuardCooldown, Die, tokenHistory
<1>12. ASSUME NEW c \in Callers,
              ValidateExpired(c) \/ GuardPass(c) \/ GuardMismatch(c) \/ ValidateHit(c)
       PROVE  TokensSerialInv' /\ [Abstract!AbstractNext]_Abstract!abstractVars
  BY <1>5, <1>12 DEF ValidateExpired, GuardPass, GuardMismatch, ValidateHit, Valid, tokenHistory
<1>13. CASE UNCHANGED tokenVars
  BY <1>13, InvisibleStep DEF tokenVars
<1>14. QED
  BY <1>1, <1>2, <1>3, <1>7, <1>8, <1>9, <1>10, <1>11, <1>12, <1>13 DEF TokensNext, CallStep

\* When handlers do not overlap, the service implements the one-time token: a
\* request is settled once, and what it stands for runs at most once and only
\* after it was confirmed, wherever the handlers crash.
THEOREM SerialServiceIsOneTimeToken ==
  ASSUME \A c, d \in Callers : c = d
  PROVE  TokensSpec => ImplementsOneTimeToken
<1>1. TokensInit => TokensIInv /\ TokensSerialInv
  BY TokensInitIInv DEF TokensInit, IdleCall, TokensSerialInv
<1>2. TokensIInv /\ TokensSerialInv /\ [TokensNext]_tokenVars => (TokensIInv /\ TokensSerialInv)'
  BY TokensNextIInv, SerialStep
<1>3. TokensIInv /\ TokensSerialInv /\ [TokensNext]_tokenVars => [Abstract!AbstractNext]_Abstract!abstractVars
  BY SerialStep
<1>4. TokensInit => Abstract!AbstractInit
  BY DEF TokensInit, Abstract!AbstractInit, Outcome
<1>5. QED
  BY <1>1, <1>2, <1>3, <1>4, PTL DEF TokensSpec, ImplementsOneTimeToken, Abstract!AbstractSpec

-----------------------------------------------------------------------------
(* Without overlap no failed attempt is lost: the document's counter is the *)
(* number of attempts that were charged.                                    *)

ChargedInv ==
  /\ \A t \in issued : failures[t] = documents[t].failed_attempts
  /\ \A t \in Tokens \ issued : failures[t] = 0
  /\ \A c \in Callers : call[c].step = "backoff" =>
       call[c].seen.failed_attempts = documents[call[c].token].failed_attempts

LEMMA InitCharged == TokensInit => ChargedInv
BY DEF TokensInit, IdleCall, ChargedInv

LEMMA StepCharged ==
  ASSUME \A c, d \in Callers : c = d, TokensIInv, ChargedInv, [TokensNext]_tokenVars
  PROVE  ChargedInv'
<1> USE DEF ChargedInv
<1>0. TokensTypeOK /\ BusyHasToken
  BY DEF TokensIInv
<1>1. CASE Tick \/ UNCHANGED tokenVars
  BY <1>1 DEF Tick, tokenHistory, tokenVars
<1>2. ASSUME NEW t \in Tokens, NEW action \in Services, NEW cooldown \in {0, InitialCooldown},
             CreateRequest(t, action, cooldown)
      PROVE  ChargedInv'
  BY <1>0, <1>2 DEF CreateRequest, BusyHasToken, TokensTypeOK, Call
<1>3. ASSUME NEW c \in Callers, NEW t \in Tokens, NEW op \in Ops, NEW via \in Services,
             NEW secretOK \in BOOLEAN, StartCall(c, t, op, via, secretOK)
      PROVE  ChargedInv'
  <2>1. FirstStep(op, via) \in {"guard", "validate"}
    BY DEF FirstStep
  <2>2. QED
    BY <1>0, <1>3, <2>1 DEF StartCall, tokenHistory, TokensTypeOK
\* Other writes leave the counter alone, and their handler is not about to charge.
<1>4. ASSUME NEW c \in Callers, NEW status \in Statuses, UpdateStatus(c, status),
             call[c].token \in issued, UNCHANGED <<issued, failures>>,
             Return(c) \/ call' = [call EXCEPT ![c].step = "execute"]
      PROVE  ChargedInv'
  <2>1. \A t \in Tokens : documents'[t].failed_attempts = documents[t].failed_attempts
    BY <1>0, <1>4 DEF UpdateStatus, TokensTypeOK, Document
  <2>2. call'[c].step # "backoff"
    BY <1>0, <1>4 DEF Return, IdleCall, TokensTypeOK, Call
  <2>3. issued \subseteq Tokens
    BY <1>0 DEF TokensTypeOK
  <2>4. QED
    BY <1>4, <2>1, <2>2, <2>3
<1>5. ASSUME NEW c \in Callers, WriteExpired(c)
      PROVE  ChargedInv'
  <2>1. call[c].token \in issued /\ "expired" \in Statuses
    BY <1>0, <1>5 DEF WriteExpired, BusyHasToken, Statuses
  <2>2. QED
    BY <1>4, <1>5, <2>1 DEF WriteExpired, tokenHistory
<1>6. ASSUME NEW c \in Callers, Settle(c)
      PROVE  ChargedInv'
  <2>1. call[c].token \in issued /\ SettledStatus(call[c].op) \in Statuses
    BY <1>0, <1>6, SettledStatusType DEF Settle, BusyHasToken, TokensTypeOK, Call
  <2>2. QED
    BY <1>4, <1>6, <2>1 DEF Settle, tokenHistory
<1>7. ASSUME NEW c \in Callers, ApplyBackoff(c)
      PROVE  ChargedInv'
  <2> DEFINE t == call[c].token
             doc == BackoffFields(call[c].seen, time, documents[t])
  <2>1. /\ t \in issued /\ t \in Tokens
        /\ call[c].seen.failed_attempts = documents[t].failed_attempts
    BY <1>0, <1>7 DEF ApplyBackoff, BusyHasToken, TokensTypeOK
  <2>2. documents[t] \in Document /\ call[c].seen \in Document
    BY <1>0, <2>1 DEF TokensTypeOK, Call
  <2>3. doc.failed_attempts = call[c].seen.failed_attempts + 1
    BY <2>2 DEF BackoffFields, Document
  <2>4. documents' = [documents EXCEPT ![t] = doc] /\ failures' = [failures EXCEPT ![t] = @ + 1]
        /\ call' = [call EXCEPT ![c] = IdleCall] /\ issued' = issued
    BY <1>7 DEF ApplyBackoff, Return
  <2> HIDE DEF doc, t
  <2>5. /\ documents'[t] = doc /\ failures'[t] = failures[t] + 1
        /\ \A u \in Tokens \ {t} : documents'[u] = documents[u] /\ failures'[u] = failures[u]
    BY <1>0, <2>1, <2>4 DEF TokensTypeOK
  <2>6. \A d \in Callers : call'[d].step # "backoff"
    BY <1>0, <2>4 DEF IdleCall, TokensTypeOK
  <2>7. issued \subseteq Tokens
    BY <1>0 DEF TokensTypeOK
  <2>8. failures'[t] = documents'[t].failed_attempts
    BY <2>1, <2>3, <2>5
  <2>9. QED
    BY <2>1, <2>4, <2>5, <2>6, <2>7, <2>8
<1>8. ASSUME NEW c \in Callers, Return(c), UNCHANGED <<issued, documents, failures>>
      PROVE  ChargedInv'
  BY <1>0, <1>8 DEF Return, IdleCall, TokensTypeOK
<1>9. ASSUME NEW c \in Callers, NEW s \in {"validate", "expire", "backoff", "settle"},
             Proceed(c, s) \/ (s = "validate" /\ call' = [call EXCEPT ![c].step = s]),
             UNCHANGED <<issued, documents, failures>>
      PROVE  ChargedInv'
  BY <1>0, <1>9 DEF Proceed, TokensTypeOK, Call
<1>10. ASSUME NEW c \in Callers, ValidateMiss(c) \/ GuardCooldown(c) \/ Die(c) \/ Execute(c)
       PROVE  ChargedInv'
  BY <1>8, <1>10 DEF ValidateMiss, GuardCooldown, Die, Execute, tokenHistory
<1>11. ASSUME NEW c \in Callers,
              ValidateExpired(c) \/ GuardPass(c) \/ GuardMismatch(c) \/ ValidateHit(c)
       PROVE  ChargedInv'
  BY <1>9, <1>11 DEF ValidateExpired, GuardPass, GuardMismatch, ValidateHit, tokenHistory
<1>12. QED
  BY <1>1, <1>2, <1>3, <1>5, <1>6, <1>7, <1>10, <1>11 DEF TokensNext, CallStep

\* When handlers do not overlap, a request expires with the failed attempt that
\* uses up its limit. (With overlap two attempts may be counted as one.)
THEOREM SerialExpiryAfterFailures ==
  ASSUME \A c, d \in Callers : c = d
  PROVE  TokensSpec => []ExpiredAfterMaxFailures
<1>1. TokensInit => TokensIInv /\ ChargedInv
  BY TokensInitIInv, InitCharged
<1>2. TokensIInv /\ ChargedInv /\ [TokensNext]_tokenVars => (TokensIInv /\ ChargedInv)'
  BY TokensNextIInv, StepCharged
<1>3. ASSUME TokensIInv, ChargedInv
      PROVE  ExpiredAfterMaxFailures
  <2> SUFFICES ASSUME NEW t \in issued, failures[t] >= MaxFailedAttempts,
                      documents[t].status = "pending"
               PROVE  FALSE
    BY DEF ExpiredAfterMaxFailures
  <2>1. documents[t].failed_attempts < MaxFailedAttempts
    BY <1>3 DEF TokensIInv, PendingHasAttemptsLeft
  <2>2. failures[t] = documents[t].failed_attempts /\ failures[t] \in Nat
    BY <1>3 DEF ChargedInv, TokensIInv, TokensTypeOK
  <2>3. QED
    BY <2>1, <2>2, ConstantsAssumption
<1>4. QED
  BY <1>1, <1>2, <1>3, PTL DEF TokensSpec

=============================================================================

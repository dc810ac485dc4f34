---------------------------- MODULE Relationships ----------------------------
(***************************************************************************)
(* RelationshipService on the memories and relationships of one user's     *)
(* collection, and the operations of MemoryService that write a memory     *)
(* whole.  A relationship lists its members; each member that the user     *)
(* owns lists the relationship and counts it.  Nothing is a transaction:   *)
(* a request writes the relationship in one call and each memory in calls  *)
(* of its own, run in parallel and, when they fail, swallowed.             *)
(*                                                                         *)
(* A request is accepted together with its first read.  Its calls on       *)
(* memories are tasks, taken in any order; later are the tasks that wait   *)
(* for all of those to settle.                                             *)
(***************************************************************************)
EXTENDS MemberOrder

CONSTANTS
  Memories,  \* the memories, all in one collection
  Owned,     \* those whose user_id is the requests' user
  Ids,       \* the ids relationships may get
  Requests,  \* the requests that may overlap
  Failing,   \* whether calls may fail
  MaxAdded,  \* bound on the memories a request names
  MaxStarts  \* bound on the requests that are accepted

ASSUME ConstantsAssumption ==
  /\ IsFiniteSet(Memories) /\ IsFiniteSet(Ids)
  /\ Owned \subseteq Memories
  /\ "none" \notin Ids
  /\ Failing \in BOOLEAN
  /\ MaxAdded \in Nat \ {0}
  /\ MaxStarts \in Nat

VARIABLES
  memories,      \* their relationship_ids, relationship_count and deleted_at
  relationships, \* related_memory_ids, member_count, member_order_json, version
  requests,      \* what each request is doing, with what it has read
  starts,        \* how many requests were accepted
  torn           \* history: memories and relationships that two requests were
                 \* at work on at once, or of which a call has failed

vars == <<memories, relationships, requests, starts, torn>>

Kinds == {"none", "create", "update", "reorder", "delete", "edit"}
Phases == {"idle", "insert", "write", "tasks", "drop"}
TaskKinds == {"link", "unlink", "cut", "readUp", "readDown", "set", "replace"}

Memory == [links : SUBSET Ids, count : Nat, deleted : BOOLEAN]
Call == [kind : TaskKinds, memory : Memories, read : Memory]

Absent == [exists |-> FALSE, related |-> <<>>, count |-> 0, order |-> Unordered,
           version |-> 0]
Idle == [kind |-> "none", phase |-> "idle", rel |-> "none", doc |-> Absent,
         tasks |-> {}, later |-> {}, touches |-> {}]

\* A call on a memory, with what was read of it for the call to write.
Task(kind, m, memory) == [kind |-> kind, memory |-> m, read |-> memory]
Tasks(kind, ms) == {Task(kind, m, memories[m]) : m \in ms}

IsRelationship(r) ==
  /\ r \in [exists : BOOLEAN, related : Seq(Memories), count : Nat, order : {r.order},
            version : Nat]
  /\ r.order \in [DOMAIN r.order -> Nat] /\ DOMAIN r.order \subseteq Memories

IsRequest(s) ==
  /\ s \in [kind : Kinds, phase : Phases, rel : Ids \cup {"none"}, doc : {s.doc},
            tasks : SUBSET Call, later : SUBSET Call, touches : SUBSET Memories]
  /\ IsRelationship(s.doc)

TypeOK ==
  /\ memories \in [Memories -> Memory]
  /\ DOMAIN relationships = Ids /\ \A r \in Ids : IsRelationship(relationships[r])
  /\ DOMAIN requests = Requests /\ \A q \in Requests : IsRequest(requests[q])
  /\ starts \in 0..MaxStarts
  /\ torn \in [memories : SUBSET Memories, relationships : SUBSET Ids]

\* Lists of ids without repetitions: those a relationship may have, and those a
\* caller may give.
Members == {ids \in SeqOf(Memories, Cardinality(Memories)) : ids # <<>> /\ IsInjective(ids)}
IdLists == {ids \in Members : Len(ids) <= MaxAdded}

Fresh(ids) == [exists |-> TRUE, related |-> ids, count |-> Len(ids),
               order |-> DefaultOrder(ids), version |-> 1]

\* The user has at most one relationship, stored with an order or before member
\* orders were kept.
Init ==
  /\ \E first \in Ids, doc \in {Absent} \cup {Fresh(ids) : ids \in Members}
                          \cup {[Fresh(ids) EXCEPT !.order = Unordered] : ids \in Members} :
       /\ relationships = [r \in Ids |-> IF r = first THEN doc ELSE Absent]
       /\ memories = [m \in Memories |->
            IF m \in Owned /\ m \in ToSet(doc.related)
            THEN [links |-> {first}, count |-> 1, deleted |-> FALSE]
            ELSE [links |-> {}, count |-> 0, deleted |-> FALSE]]
  /\ requests = [q \in Requests |-> Idle]
  /\ starts = 0
  /\ torn = [memories |-> {}, relationships |-> {}]

-----------------------------------------------------------------------------

Running == {q \in Requests : requests[q].kind # "none"}

Tear(ms, rs) == torn' = [memories |-> torn.memories \cup ms,
                        relationships |-> torn.relationships \cup rs]

\* A request that touches ms and r is accepted: what it shares with another one at
\* work is torn.  A relationship that is torn may list what it no longer should, and
\* tears what is done on its behalf.
Free(q) == requests[q].kind = "none" /\ starts < MaxStarts

Accept(q, kind, phase, r, doc, tasks, later, ms) ==
  /\ Free(q)
  /\ starts' = starts + 1
  /\ requests' = [requests EXCEPT ![q] =
       [kind |-> kind, phase |-> phase, rel |-> r, doc |-> doc, tasks |-> tasks,
        later |-> later, touches |-> ms]]
  /\ Tear(IF r \in torn.relationships THEN ms
          ELSE ms \cap UNION {requests[p].touches : p \in Running},
          {r} \cap {requests[p].rel : p \in Running} \cap Ids)
  /\ UNCHANGED <<memories, relationships>>

Finish(q) == requests' = [requests EXCEPT ![q] = Idle]

Valid(m) == ~memories[m].deleted

-----------------------------------------------------------------------------
(* The first reads.  A request that is refused changes nothing.            *)

CreateRelationship(q) ==
  Free(q) /\ \E ids \in IdLists :
    /\ \A m \in ToSet(ids) : Valid(m)
    /\ Accept(q, "create", "insert", "none", Fresh(ids), Tasks("readUp", ToSet(ids) \cap Owned),
              Tasks("link", ToSet(ids) \cap Owned), ToSet(ids))

\* Slip: a relationship without a stored order has only the new members' positions.
UpdatedSlip(doc, added, removed) ==
  LET members == Without(doc.related \o added, removed)
      order == Reduced(Extended(doc.order, added), removed) IN
  [doc EXCEPT !.related = members, !.count = Len(members), !.order = order,
              !.version = @ + 1]

\* The document update writes: added and removed are what really changes.
Updated(doc, added, removed) ==
  LET members == Without(doc.related \o added, removed)
      order == Reduced(Extended(WorkingOrder(doc.order, doc.related), added), removed) IN
  [doc EXCEPT !.related = members, !.count = Len(members), !.order = order,
              !.version = @ + 1]

UpdateRelationship(q, r) ==
  LET doc == relationships[r] IN
  /\ Free(q)
  /\ doc.exists
  /\ \E ids \in {<<>>} \cup IdLists, gone \in SUBSET Memories :
       LET added == Without(ids, ToSet(doc.related))
           new == ToSet(added)
           removed == gone \cap (ToSet(doc.related) \cup new) IN
       /\ Cardinality(gone) <= MaxAdded
       /\ new \cup removed # {}
       /\ \A m \in new : Valid(m)
       /\ Accept(q, "update", "write", r, Updated(doc, added, removed),
                 Tasks("link", new \cap Owned) \cup Tasks("readUp", new \cap Owned),
                 Tasks("unlink", removed), new \cup removed)

\* The caller's version is the current one, or the request is refused.
Reorder(q, r) ==
  LET doc == relationships[r] IN
  /\ Free(q)
  /\ doc.exists
  /\ \E op \in Operations(ToSet(doc.related), Len(doc.related) + 1) :
       /\ Permitted(WorkingOrder(doc.order, doc.related), doc.related, op)
       /\ Accept(q, "reorder", "write", r,
                 [doc EXCEPT !.order = ApplyReorder(doc.order, doc.related, op),
                             !.version = @ + 1], {}, {}, {})

DeleteRelationship(q, r) ==
  LET ms == ToSet(relationships[r].related) \cap Owned IN
  /\ relationships[r].exists
  /\ Accept(q, "delete", "tasks", r, Absent, Tasks("unlink", ms), {}, ms)

\* MemoryService.update, confirmSetTrustLevel and delete: the memory is read whole
\* and replaced whole, with the relationship fields as they were read.
EditMemory(q, m, delete) ==
  /\ m \in Owned
  /\ Valid(m)
  /\ Accept(q, "edit", "tasks", "none", Absent,
            {Task("replace", m, [memories[m] EXCEPT !.deleted = delete])}, {}, {m})

-----------------------------------------------------------------------------
(* The relationship itself.  A failing write ends the request.             *)

WriteFails(q) ==
  /\ Failing
  /\ requests[q].phase \in {"insert", "write"}
  /\ Finish(q)
  /\ UNCHANGED <<memories, relationships, starts, torn>>

Insert(q) ==
  /\ requests[q].phase = "insert"
  /\ \E r \in Ids :
       /\ relationships[r] = Absent
       /\ relationships' = [relationships EXCEPT ![r] = requests[q].doc]
       /\ requests' = [requests EXCEPT ![q].phase = "tasks", ![q].rel = r, ![q].doc = Absent]
  /\ UNCHANGED <<memories, starts, torn>>

\* A write to a relationship that is no longer there fails; update merges fields,
\* and a reordering has no others than its order and version.
Write(q) ==
  LET old == relationships[requests[q].rel]
      new == requests[q].doc IN
  /\ requests[q].phase = "write"
  /\ \/ ~old.exists /\ Finish(q) /\ UNCHANGED relationships
     \/ /\ old.exists
        /\ relationships' = [relationships EXCEPT ![requests[q].rel] =
             IF requests[q].kind = "reorder"
             THEN [old EXCEPT !.order = new.order, !.version = new.version] ELSE new]
        /\ requests' = [requests EXCEPT ![q].phase = "tasks", ![q].doc = Absent]
  /\ UNCHANGED <<memories, starts, torn>>

-----------------------------------------------------------------------------
(* The calls on memories.                                                  *)

\* What becomes of a memory, and which calls come next, when t is done for request q.
Set(q, t, memory, next) ==
  /\ memories' = [memories EXCEPT ![t.memory] = memory]
  /\ requests' = [requests EXCEPT ![q].tasks = (@ \ {t}) \cup next]

\* Slip: the ids that were read are left out.
LinkMemoryAlone(q, t) ==
  /\ t.kind = "link"
  /\ Set(q, t, [memories[t.memory] EXCEPT !.links = {requests[q].rel}], {})

LinkMemory(q, t) ==
  /\ t.kind = "link"
  /\ Set(q, t, [memories[t.memory] EXCEPT !.links = t.read.links \cup {requests[q].rel}], {})

\* Reading a memory to unlink it: what is left of its ids is written if that is
\* less, and an owned memory's count goes down whether it is or not.
UnlinkMemory(q, t) ==
  LET m == t.memory
      linked == requests[q].rel \in memories[m].links IN
  /\ t.kind = "unlink"
  /\ Set(q, t, memories[m],
         IF linked THEN Tasks("cut", {m}) ELSE Tasks("readDown", {m} \cap Owned))

\* Slip: a count that is taken to be right already.
CutMemoryOnly(q, t) ==
  LET m == t.memory IN
  /\ t.kind = "cut"
  /\ Set(q, t, [memories[m] EXCEPT !.links = t.read.links \ {requests[q].rel}], {})

CutMemory(q, t) ==
  LET m == t.memory IN
  /\ t.kind = "cut"
  /\ Set(q, t, [memories[m] EXCEPT !.links = t.read.links \ {requests[q].rel}],
         Tasks("readDown", {m} \cap Owned))

\* updateRelationshipCount: the new count is made from what this call reads.
ReadCount(q, t) ==
  LET m == t.memory
      count == memories[m].count
      new == IF t.kind = "readUp" THEN count + 1 ELSE IF count > 0 THEN count - 1 ELSE 0 IN
  /\ t.kind \in {"readUp", "readDown"}
  /\ Set(q, t, memories[m], {Task("set", m, [memories[m] EXCEPT !.count = new])})

SetCount(q, t) ==
  /\ t.kind = "set"
  /\ Set(q, t, [memories[t.memory] EXCEPT !.count = t.read.count], {})

ReplaceMemory(q, t) ==
  /\ t.kind = "replace"
  /\ Set(q, t, t.read, {})

Perform(q) ==
  /\ requests[q].phase = "tasks"
  /\ \E t \in requests[q].tasks :
       \/ LinkMemory(q, t) \/ UnlinkMemory(q, t) \/ CutMemory(q, t)
       \/ ReadCount(q, t) \/ SetCount(q, t) \/ ReplaceMemory(q, t)
  /\ UNCHANGED <<relationships, starts, torn>>

\* A failing call ends what was to be done with its memory, and is swallowed; the
\* one write of an edit is not, and leaves the memory as it is.
TaskFails(q) ==
  /\ Failing
  /\ requests[q].phase = "tasks"
  /\ \E t \in requests[q].tasks :
       /\ requests' = [requests EXCEPT ![q].tasks = @ \ {t}]
       /\ Tear(IF t.kind = "replace" THEN {} ELSE {t.memory}, {})
  /\ UNCHANGED <<memories, relationships, starts>>

\* All calls have settled: the next ones, or the end of the request.
Settle(q) ==
  /\ requests[q].phase = "tasks"
  /\ requests[q].tasks = {}
  /\ IF requests[q].later # {}
     THEN requests' = [requests EXCEPT ![q].tasks = requests[q].later, ![q].later = {}]
     ELSE IF requests[q].kind = "delete"
          THEN requests' = [requests EXCEPT ![q].phase = "drop"]
          ELSE Finish(q)
  /\ UNCHANGED <<memories, relationships, starts, torn>>

Drop(q) ==
  /\ requests[q].phase = "drop"
  /\ relationships' = [relationships EXCEPT ![requests[q].rel].exists = FALSE]
  /\ Finish(q)
  /\ UNCHANGED <<memories, starts, torn>>

\* The members were unlinked and the relationship still lists them: deleting it
\* again will count them down again.
DropFails(q) ==
  /\ Failing
  /\ requests[q].phase = "drop"
  /\ Finish(q)
  /\ Tear({}, {requests[q].rel})
  /\ UNCHANGED <<memories, relationships, starts>>

-----------------------------------------------------------------------------

Next ==
  \E q \in Requests :
    \/ CreateRelationship(q)
    \/ \E r \in Ids :
         UpdateRelationship(q, r) \/ Reorder(q, r) \/ DeleteRelationship(q, r)
    \/ \E m \in Memories, delete \in BOOLEAN : EditMemory(q, m, delete)
    \/ Insert(q) \/ Write(q) \/ WriteFails(q)
    \/ Perform(q) \/ TaskFails(q) \/ Settle(q) \/ Drop(q) \/ DropFails(q)

Spec == Init /\ [][Next]_vars

-----------------------------------------------------------------------------
(* Properties.                                                             *)

Whole(m) == m \notin torn.memories
WholeRelationship(r) == r \notin torn.relationships
Quiet(m) == \A q \in Running : m \notin requests[q].touches

\* Whatever creates, updates, reorderings, deletions and edits came before, an owned
\* memory lists exactly the relationships that list it, when no request is at work
\* on it, none of its calls failed and no two requests were at work on it at once.
LinksMatch ==
  \A m \in Owned, r \in Ids :
    (Whole(m) /\ Quiet(m) /\ WholeRelationship(r)) =>
      (r \in memories[m].links <=>
         relationships[r].exists /\ m \in ToSet(relationships[r].related))

\* Under the same conditions its count is the number of those it lists: no path of
\* updateRelationshipCount is left out or taken twice.
CountMatches ==
  \A m \in Owned :
    (Whole(m) /\ Quiet(m)) => memories[m].count = Cardinality(memories[m].links)

\* A relationship's order has a position of its own for each member and none for
\* others, unless none was ever stored; calls on memories that fail or overlap do
\* not touch it.
OrderMatches ==
  \A r \in Ids :
    LET doc == relationships[r] IN
    /\ IsInjective(doc.order)
    /\ WholeRelationship(r) =>
         /\ doc.order = Unordered \/ DOMAIN doc.order = ToSet(doc.related)
         /\ doc.count = Cardinality(ToSet(doc.related))

\* From every order that is ever stored, each of the five reorderings moves what it
\* names to where it says and leaves the rest in the order it was; the index of
\* move_to_index is only right if positions have no gaps.
ReorderingsMeant ==
  \A r \in Ids :
    LET doc == relationships[r]
        from == WorkingOrder(doc.order, doc.related) IN
    (Running = {} /\ doc.exists /\ WholeRelationship(r)) =>
      \A op \in Operations(ToSet(doc.related), Len(doc.related) + 1) :
        Permitted(from, doc.related, op) =>
          Meant(from, ApplyReorder(doc.order, doc.related, op), op)

=============================================================================

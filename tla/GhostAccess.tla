----------------------------- MODULE GhostAccess -----------------------------
(***************************************************************************)
(* The access control of one owner's memories: the ghost configuration     *)
(* with its block list and trust overrides (GhostConfigService), the       *)
(* record of denied attempts kept for each accessor and memory             *)
(* (FirestoreEscalationStore), and the check that reads both               *)
(* (checkMemoryAccess).  Every call of the store is a step of its own; a   *)
(* read that fails is answered with a default, a write that fails ends the *)
(* request.                                                                *)
(***************************************************************************)
EXTENDS Integers, FiniteSets

CONSTANTS
  Accessors, Memories,
  Levels,      \* the trust levels in use, of 1..5
  TrustOf,     \* TrustOf[m]: the level memory m asks for
  MaxAttempts, \* MAX_ATTEMPTS_BEFORE_BLOCK
  Updates,     \* the sets of fields the owner's settings are updated by
  Requests,    \* the requests that may overlap
  Failing,     \* whether calls may fail
  MaxStarts    \* bound on the requests that are accepted

Fields == {"enabled", "public", "trust", "blocked"}

ASSUME ConstantsAssumption ==
  /\ Accessors # {} /\ Memories # {}
  /\ Levels \subseteq 1..5 /\ 1 \in Levels
  /\ TrustOf \in [Memories -> Levels]
  /\ MaxAttempts \in Nat \ {0}
  /\ Updates \subseteq SUBSET Fields
  /\ Failing \in BOOLEAN
  /\ MaxStarts \in Nat

VARIABLES
  config,   \* the owner's ghost configuration
  records,  \* records[p]: the escalation document of accessor and memory p
  requests, \* what each request is doing
  starts,   \* how many requests were accepted
  meant,    \* history: the configuration the finished requests amount to
  denials,  \* history: the denials of each pair since its record was last reset
  torn      \* history: what overlapping or failing calls may have left apart

vars == <<config, records, requests, starts, meant, denials, torn>>

Pairs == Accessors \X Memories
Override == Levels \cup {0}

Config == [enabled : BOOLEAN, public : Levels, trust : [Accessors -> Override],
           blocked : SUBSET Accessors]
DefaultConfig == [enabled |-> FALSE, public |-> 1, trust |-> [a \in Accessors |-> 0],
                  blocked |-> {}]

Record == [count : Nat, blocked : BOOLEAN]
NoRecord == [count |-> 0, blocked |-> FALSE]

Kinds == {"none", "check", "trust", "block"}
Phases == {"idle", "block", "attempts", "increment", "setBlock", "write"}
Request == [kind : Kinds, phase : Phases, pair : Pairs, level : Levels, count : Nat,
            trust : [Accessors -> Override], blocked : SUBSET Accessors, steady : BOOLEAN]
Idle == [kind |-> "none", phase |-> "idle", pair |-> CHOOSE p \in Pairs : TRUE, level |-> 1,
         count |-> 0, trust |-> [a \in Accessors |-> 0], blocked |-> {}, steady |-> TRUE]

TypeOK ==
  /\ config \in Config
  /\ records \in [Pairs -> Record]
  /\ requests \in [Requests -> Request]
  /\ starts \in 0..MaxStarts
  /\ meant \in [trust : [Accessors -> Override], removed : SUBSET Accessors,
                blocked : SUBSET Accessors]
  /\ denials \in [Pairs -> Nat]
  /\ torn \in [trust : BOOLEAN, list : BOOLEAN, counts : SUBSET Pairs, resets : SUBSET Pairs]

\* The owner has switched the ghost on; no one has asked for anything yet.
Init ==
  /\ \E public \in Levels :
       config = [DefaultConfig EXCEPT !.enabled = TRUE, !.public = public]
  /\ meant = [trust |-> config.trust, removed |-> {}, blocked |-> config.blocked]
  /\ records = [p \in Pairs |-> NoRecord]
  /\ requests = [r \in Requests |-> Idle]
  /\ starts = 0
  /\ denials = [p \in Pairs |-> 0]
  /\ torn = [trust |-> FALSE, list |-> FALSE, counts |-> {}, resets |-> {}]

-----------------------------------------------------------------------------

Free(r) == requests[r].kind = "none" /\ starts < MaxStarts
At(r, phase) == requests[r].phase = phase
Running(kind) == {r \in Requests : requests[r].kind = kind}
Checking(p) == {r \in Running("check") : requests[r].pair = p}

Finish(r) == requests' = [requests EXCEPT ![r] = Idle]
Start(r, request) ==
  /\ Free(r)
  /\ starts' = starts + 1
  /\ requests' = [requests EXCEPT ![r] = request]

\* Whether the owner's policy lets an accessor with this level see a memory.
Sufficient(m, level) == level >= TrustOf[m]

\* Slip: the default is a floor.
ResolveHigher(c, a) == IF c.trust[a] > c.public THEN c.trust[a] ELSE c.public

ResolveTrust(c, a) == IF c.trust[a] # 0 THEN c.trust[a] ELSE c.public

-----------------------------------------------------------------------------
(* checkMemoryAccess, by someone other than the owner.                     *)

\* The configuration is read once; a read that fails gives the default one, in which the
\* ghost is off.  Without permission the check ends there.
Check(r, a, m) ==
  LET p == <<a, m>> IN
  /\ config.enabled /\ a \notin config.blocked
  /\ Start(r, [Idle EXCEPT !.kind = "check", !.phase = "block", !.pair = p,
                           !.level = ResolveTrust(config, a)])
  /\ torn' = [torn EXCEPT !.counts = IF Checking(p) = {} THEN @ ELSE @ \cup {p}]
  /\ UNCHANGED <<config, records, meant, denials>>

\* The block of the pair, then the level.  A read that fails finds no block.
GetBlock(r) ==
  LET q == requests[r] IN
  /\ At(r, "block")
  /\ \/ /\ records[q.pair].blocked
        /\ Finish(r)
        /\ UNCHANGED torn
     \/ /\ ~records[q.pair].blocked \/ Failing
        /\ IF Sufficient(q.pair[2], q.level) THEN Finish(r)
           ELSE requests' = [requests EXCEPT ![r].phase = "attempts"]
        /\ torn' = IF records[q.pair].blocked THEN [torn EXCEPT !.counts = @ \cup {q.pair}]
                   ELSE torn
  /\ UNCHANGED <<config, records, starts, meant, denials>>

\* A read that fails finds no attempts.
GetAttempts(r) ==
  LET p == requests[r].pair IN
  /\ At(r, "attempts")
  /\ \/ /\ requests' = [requests EXCEPT ![r].phase = "increment", ![r].count = records[p].count]
        /\ UNCHANGED torn
     \/ /\ Failing
        /\ requests' = [requests EXCEPT ![r].phase = "increment", ![r].count = 0]
        /\ torn' = [torn EXCEPT !.counts = @ \cup {p}]
  /\ UNCHANGED <<config, records, starts, meant, denials>>

\* Slips: the document is replaced, and its block with it; the limit is one off.
IncrementWhole(r) ==
  LET p == requests[r].pair
      count == requests[r].count + 1 IN
  /\ At(r, "increment")
  /\ records' = [records EXCEPT ![p] = [count |-> count, blocked |-> FALSE]]
  /\ denials' = [denials EXCEPT ![p] = @ + 1]
  /\ IF count >= MaxAttempts
     THEN requests' = [requests EXCEPT ![r].phase = "setBlock", ![r].count = count]
     ELSE Finish(r)
  /\ UNCHANGED <<config, starts, meant, torn>>

\* The count is merged into the document, which keeps its block.  Below the limit the
\* check answers how many attempts remain.
Increment(r) ==
  LET p == requests[r].pair
      count == requests[r].count + 1 IN
  /\ At(r, "increment")
  /\ records' = [records EXCEPT ![p].count = count]
  /\ denials' = [denials EXCEPT ![p] = @ + 1]
  /\ IF count >= MaxAttempts
     THEN requests' = [requests EXCEPT ![r].phase = "setBlock", ![r].count = count]
     ELSE Finish(r)
  /\ UNCHANGED <<config, starts, meant, torn>>

SetBlock(r) ==
  LET q == requests[r] IN
  /\ At(r, "setBlock")
  /\ records' = [records EXCEPT ![q.pair] = [count |-> q.count, blocked |-> TRUE]]
  /\ Finish(r)
  /\ UNCHANGED <<config, starts, meant, denials, torn>>

\* Slip: only the block is lifted, as the in-memory store does.
RemoveBlockOnly(p) ==
  /\ records' = [records EXCEPT ![p].blocked = FALSE]
  /\ denials' = [denials EXCEPT ![p] = 0]
  /\ torn' = IF Checking(p) = {} THEN [torn EXCEPT !.counts = @ \ {p}, !.resets = @ \ {p}]
             ELSE [torn EXCEPT !.counts = @ \cup {p}, !.resets = @ \cup {p}]
  /\ UNCHANGED <<config, requests, starts, meant>>

\* resetBlock deletes the document, attempts and all.  What a running check has read of it
\* is out of date.
RemoveBlock(p) ==
  /\ records' = [records EXCEPT ![p] = NoRecord]
  /\ denials' = [denials EXCEPT ![p] = 0]
  /\ torn' = IF Checking(p) = {} THEN [torn EXCEPT !.counts = @ \ {p}, !.resets = @ \ {p}]
             ELSE [torn EXCEPT !.counts = @ \cup {p}, !.resets = @ \cup {p}]
  /\ UNCHANGED <<config, requests, starts, meant>>

-----------------------------------------------------------------------------
(* The owner's requests.  One updates any fields outright; the others read *)
(* the configuration, or the default one when the read fails, change what  *)
(* they read and write that field back.                                    *)

Unsteady(rs) == [r \in Requests |-> IF r \in Running("check")
                                    THEN [rs[r] EXCEPT !.steady = FALSE] ELSE rs[r]]

\* What an update that names these fields may make of the configuration.
Updated(fields) ==
  [enabled : IF "enabled" \in fields THEN BOOLEAN ELSE {config.enabled},
   public : IF "public" \in fields THEN Levels ELSE {config.public},
   trust : IF "trust" \in fields THEN [Accessors -> Override] ELSE {config.trust},
   blocked : IF "blocked" \in fields THEN SUBSET Accessors ELSE {config.blocked}]

\* The fields an update names are replaced by what it gives, unread: the map and the list
\* whole.  That mends what was torn of them, unless a request that read before is to write.
SetConfigFields(fields, new) ==
  /\ starts < MaxStarts
  /\ starts' = starts + 1
  /\ config' = new
  /\ meant' = [trust |-> IF "trust" \in fields THEN new.trust ELSE meant.trust,
               removed |-> IF "trust" \in fields THEN {} ELSE meant.removed,
               blocked |-> IF "blocked" \in fields THEN new.blocked ELSE meant.blocked]
  /\ torn' = [torn EXCEPT !.trust = IF "trust" \in fields THEN Running("trust") # {} ELSE @,
                          !.list = IF "blocked" \in fields THEN Running("block") # {} ELSE @]
  /\ requests' = Unsteady(requests)
  /\ UNCHANGED <<records, denials>>

Reads == {config} \cup (IF Failing THEN {DefaultConfig} ELSE {})

\* setUserTrust, or with level 0 removeUserTrust.
SetUserTrust(r, a, level) ==
  /\ \E current \in Reads :
       /\ Start(r, [Idle EXCEPT !.kind = "trust", !.phase = "write",
                                !.trust = [current.trust EXCEPT ![a] = level]])
       /\ meant' = [meant EXCEPT !.trust[a] = level,
                                 !.removed = IF level = 0 THEN @ \cup {a} ELSE @ \ {a}]
       /\ torn' = [torn EXCEPT !.trust = @ \/ Running("trust") # {}]
  /\ UNCHANGED <<config, records, denials>>

\* blockUser and unblockUser, which write only when the list that was read asks for it.
ChangeBlock(r, a, blocking) ==
  /\ \E current \in Reads :
       /\ IF (a \in current.blocked) = blocking
          THEN Free(r) /\ starts' = starts + 1 /\ UNCHANGED requests
          ELSE Start(r, [Idle EXCEPT !.kind = "block", !.phase = "write",
            !.blocked = IF blocking THEN current.blocked \cup {a} ELSE current.blocked \ {a}])
       /\ torn' = [torn EXCEPT !.list =
            @ \/ Running("block") # {} \/ current.blocked # config.blocked]
  /\ meant' = [meant EXCEPT !.blocked = IF blocking THEN @ \cup {a} ELSE @ \ {a}]
  /\ UNCHANGED <<config, records, denials>>

\* The store merges a map into the stored one key by key: a key that is left out stays.
MergeMap(old, new) == [a \in DOMAIN old |-> IF new[a] # 0 THEN new[a] ELSE old[a]]

\* Slip: the list is merged like a map.
WriteListMerged(r) ==
  /\ At(r, "write")
  /\ config' = IF requests[r].kind = "trust"
               THEN [config EXCEPT !.trust = MergeMap(@, requests[r].trust)]
               ELSE [config EXCEPT !.blocked = @ \cup requests[r].blocked]
  /\ requests' = [Unsteady(requests) EXCEPT ![r] = Idle]
  /\ UNCHANGED <<records, starts, meant, denials, torn>>

WriteConfig(r) ==
  /\ At(r, "write")
  /\ config' = IF requests[r].kind = "trust"
               THEN [config EXCEPT !.trust = MergeMap(@, requests[r].trust)]
               ELSE [config EXCEPT !.blocked = requests[r].blocked]
  /\ requests' = [Unsteady(requests) EXCEPT ![r] = Idle]
  /\ UNCHANGED <<records, starts, meant, denials, torn>>

\* A write fails: the request ends with an error, and what it meant to do is not done.
WriteFails(r) ==
  LET q == requests[r] IN
  /\ Failing
  /\ q.phase \in {"increment", "setBlock", "write"}
  /\ torn' = [torn EXCEPT !.trust = @ \/ q.kind = "trust", !.list = @ \/ q.kind = "block",
                          !.counts = IF q.phase = "setBlock" THEN @ \cup {q.pair} ELSE @]
  /\ Finish(r)
  /\ UNCHANGED <<config, records, starts, meant, denials>>

Step(r) ==
  \/ GetBlock(r) \/ GetAttempts(r) \/ Increment(r) \/ SetBlock(r)
  \/ WriteConfig(r) \/ WriteFails(r)

Next ==
  \/ \E r \in Requests :
       \/ \E a \in Accessors, m \in Memories : Check(r, a, m)
       \/ \E a \in Accessors, level \in Override : SetUserTrust(r, a, level)
       \/ \E a \in Accessors, blocking \in BOOLEAN : ChangeBlock(r, a, blocking)
       \/ Step(r)
  \/ \E fields \in Updates : \E new \in Updated(fields) : SetConfigFields(fields, new)
  \/ \E p \in Pairs : RemoveBlock(p)

Spec == Init /\ [][Next]_vars

-----------------------------------------------------------------------------
(* Properties.                                                             *)

\* The block list and the overrides are what the owner's requests, taken one after the
\* other, amount to: each since it was last replaced whole with none of its own requests at
\* work, while no two of those overlapped and none failed.  An override that was removed may
\* have stayed.
PolicyKept ==
  /\ (~torn.list /\ Running("block") = {}) => config.blocked = meant.blocked
  /\ (~torn.trust /\ Running("trust") = {}) =>
       \A a \in Accessors \ meant.removed : config.trust[a] = meant.trust[a]

\* A check that has passed the configuration follows the policy the owner's requests amount
\* to: its accessor is not blocked and has the level that was given to it.
ChecksFollowPolicy ==
  \A r \in Running("check") :
    LET a == requests[r].pair[1] IN
    requests[r].steady =>
      /\ (~torn.list /\ Running("block") = {}) => a \notin meant.blocked
      /\ (~torn.trust /\ Running("trust") = {} /\ a \notin meant.removed) =>
           requests[r].level = IF meant.trust[a] # 0 THEN meant.trust[a] ELSE config.public

\* Whatever overlaps and fails, a block ends only when the record is reset: a check that
\* counts its attempt late does not lift it.
BlocksStick ==
  [][\A p \in Pairs : (records[p].blocked /\ ~records'[p].blocked) => RemoveBlock(p)]_vars

\* No pair is blocked before it was denied as often as the limit says, even when checks
\* overlap and calls fail, unless a check crossed a reset.
NeverBlockedEarly ==
  \A p \in Pairs \ torn.resets :
    /\ records[p].count <= denials[p]
    /\ records[p].blocked => denials[p] >= MaxAttempts

\* And it is blocked then, when no two checks of it overlapped and no call failed.
BlocksMatchDenials ==
  /\ NeverBlockedEarly
  /\ \A p \in Pairs \ torn.counts :
       Checking(p) = {} => (records[p].blocked <=> denials[p] >= MaxAttempts)

=============================================================================

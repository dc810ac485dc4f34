-------------------------- MODULE GhostAccess_proofs --------------------------
(***************************************************************************)
(* Proofs about GhostAccess, for any accessors, memories and requests,     *)
(* any limit and any number of requests accepted, with failing calls.      *)
(***************************************************************************)
EXTENDS GhostAccess, TLAPS

-----------------------------------------------------------------------------
(* Types.                                                                  *)

CheckPhases == {"block", "attempts", "increment", "setBlock"}

\* A request is in a phase of its kind.
Shape ==
  \A r \in Requests :
    /\ requests[r].phase = "idle" <=> requests[r].kind = "none"
    /\ requests[r].phase \in CheckPhases <=> requests[r].kind = "check"
    /\ requests[r].phase = "write" <=> requests[r].kind \in {"trust", "block"}

LEMMA LevelFacts ==
  /\ Levels \subseteq Nat /\ 1 \in Levels /\ 0 \notin Levels
  /\ Override \subseteq Nat /\ 0 \in Override
  /\ MaxAttempts \in Nat /\ MaxAttempts > 0 /\ MaxStarts \in Nat
BY ConstantsAssumption DEF Override

LEMMA DefaultTypes ==
  /\ Idle \in Request /\ Idle.kind = "none" /\ Idle.phase = "idle"
  /\ DefaultConfig \in Config
  /\ NoRecord \in Record /\ NoRecord.count = 0 /\ NoRecord.blocked = FALSE
<1>1. (CHOOSE p \in Pairs : TRUE) \in Pairs
  <2>1. PICK a \in Accessors, m \in Memories : TRUE
    BY ConstantsAssumption
  <2>2. <<a, m>> \in Pairs
    BY <2>1 DEF Pairs
  <2>3. QED
    BY <2>2
<1>2. [a \in Accessors |-> 0] \in [Accessors -> Override]
  BY LevelFacts
<1>3. QED
  BY <1>1, <1>2, LevelFacts
     DEF Idle, Request, Kinds, Phases, DefaultConfig, Config, NoRecord, Record

\* Marking the running checks changes nothing else of a request.
LEMMA UnsteadyRequests ==
  ASSUME NEW rs \in [Requests -> Request]
  PROVE  /\ Unsteady(rs) \in [Requests -> Request]
         /\ \A r \in Requests :
              /\ Unsteady(rs)[r].kind = rs[r].kind /\ Unsteady(rs)[r].phase = rs[r].phase
              /\ Unsteady(rs)[r].pair = rs[r].pair /\ Unsteady(rs)[r].level = rs[r].level
              /\ Unsteady(rs)[r].count = rs[r].count
              /\ Unsteady(rs)[r].trust = rs[r].trust
              /\ Unsteady(rs)[r].blocked = rs[r].blocked
              /\ r \in Running("check") => Unsteady(rs)[r].steady = FALSE
BY DEF Unsteady, Request

LEMMA StartTypes ==
  ASSUME TypeOK, NEW r \in Requests, NEW request \in Request, Start(r, request)
  PROVE  /\ requests' \in [Requests -> Request] /\ starts' \in 0..MaxStarts
         /\ requests' = [requests EXCEPT ![r] = request] /\ requests[r].kind = "none"
BY LevelFacts DEF TypeOK, Start, Free

LEMMA FinishTypes ==
  ASSUME TypeOK, NEW r \in Requests, Finish(r)
  PROVE  /\ requests' \in [Requests -> Request]
         /\ requests' = [requests EXCEPT ![r] = Idle]
BY DefaultTypes DEF TypeOK, Finish

\* Going on to another phase, with another count, changes nothing else of a request.
SameBesides(q, r) ==
  /\ q.kind = r.kind /\ q.pair = r.pair /\ q.level = r.level /\ q.steady = r.steady
  /\ q.trust = r.trust /\ q.blocked = r.blocked

LEMMA GoOnTypes ==
  ASSUME TypeOK, NEW r \in Requests, NEW phase \in Phases, NEW count \in Nat,
         \/ requests' = [requests EXCEPT ![r].phase = phase, ![r].count = count]
         \/ /\ requests' = [requests EXCEPT ![r].phase = phase]
            /\ count = requests[r].count
  PROVE  /\ requests' \in [Requests -> Request]
         /\ requests'[r].phase = phase /\ requests'[r].count = count
         /\ SameBesides(requests'[r], requests[r])
         /\ \A q \in Requests \ {r} : requests'[q] = requests[q]
<1>1. requests \in [Requests -> Request]
  BY DEF TypeOK
<1> DEFINE new == [requests[r] EXCEPT !.phase = phase, !.count = count]
<1>2. new \in Request /\ new.phase = phase /\ new.count = count /\ SameBesides(new, requests[r])
  BY <1>1 DEF Request, SameBesides
<1>3. requests' = [requests EXCEPT ![r] = new]
  BY <1>1 DEF Request
<1> HIDE DEF new
<1>4. QED
  BY <1>1, <1>2, <1>3

TornType == [trust : BOOLEAN, list : BOOLEAN, counts : SUBSET Pairs, resets : SUBSET Pairs]
MeantType == [trust : [Accessors -> Override], removed : SUBSET Accessors,
              blocked : SUBSET Accessors]

LEMMA ResolveType ==
  ASSUME NEW c \in Config, NEW a \in Accessors
  PROVE  ResolveTrust(c, a) \in Levels
BY LevelFacts DEF ResolveTrust, Config, Override

IInv == TypeOK /\ Shape

\* What an update does not name stays.
LEMMA UpdatedFields ==
  ASSUME config \in Config, NEW fields, NEW new \in Updated(fields)
  PROVE  /\ new \in Config
         /\ "trust" \notin fields => new.trust = config.trust
         /\ "blocked" \notin fields => new.blocked = config.blocked
<1>1. /\ new.enabled \in BOOLEAN /\ new.public \in Levels
      /\ new.trust \in [Accessors -> Override] /\ new.blocked \in SUBSET Accessors
  BY DEF Updated, Config
<1>2. new = [enabled |-> new.enabled, public |-> new.public, trust |-> new.trust,
             blocked |-> new.blocked]
  BY DEF Updated
<1>3. new \in Config
  BY <1>1, <1>2 DEF Config
<1>4. QED
  BY <1>3 DEF Updated

LEMMA InitIInv == Init => IInv
<1> SUFFICES ASSUME Init PROVE IInv
  OBVIOUS
<1>1. config \in Config /\ meant \in MeantType /\ torn \in TornType
  <2>1. [a \in Accessors |-> 0] \in [Accessors -> Override]
    BY LevelFacts
  <2>2. QED
    BY <2>1, DefaultTypes DEF Init, Config, DefaultConfig, MeantType, TornType
<1>2. QED
  BY <1>1, DefaultTypes, LevelFacts
     DEF Init, IInv, TypeOK, Shape, CheckPhases, MeantType, TornType

\* Each action keeps the types and the shape of a request.
LEMMA StepIInv == IInv /\ [Next]_vars => IInv'
<1> SUFFICES ASSUME IInv, [Next]_vars PROVE IInv'
  OBVIOUS
<1> USE DEF IInv
<1>types. /\ config \in Config /\ records \in [Pairs -> Record]
          /\ requests \in [Requests -> Request] /\ starts \in 0..MaxStarts
          /\ meant \in MeantType /\ denials \in [Pairs -> Nat] /\ torn \in TornType
  BY DEF TypeOK, MeantType, TornType
<1>pairs. \A r \in Requests : requests[r].pair \in Pairs
  BY <1>types DEF Request
<1>unsteady. /\ Unsteady(requests) \in [Requests -> Request]
             /\ \A r \in Requests : /\ Unsteady(requests)[r].kind = requests[r].kind
                                   /\ Unsteady(requests)[r].phase = requests[r].phase
  BY <1>types, UnsteadyRequests
<1>1. ASSUME NEW r \in Requests, NEW a \in Accessors, NEW m \in Memories, Check(r, a, m)
      PROVE  IInv'
  <2> DEFINE request == [Idle EXCEPT !.kind = "check", !.phase = "block", !.pair = <<a, m>>,
                                     !.level = ResolveTrust(config, a)]
  <2>1. request \in Request /\ request.kind = "check" /\ request.phase = "block"
    <3>1. ResolveTrust(config, a) \in 1..5
      BY <1>types, ResolveType, ConstantsAssumption
    <3>2. ResolveTrust(config, a) \in Levels /\ <<a, m>> \in Pairs
      BY <1>types, ResolveType DEF Pairs
    <3>3. QED
      BY <3>2, DefaultTypes DEF Request, Kinds, Phases
  <2>2. Start(r, request)
    BY <1>1 DEF Check
  <2> HIDE DEF request
  <2>3. torn' \in TornType
    BY <1>1, <1>types DEF Check, TornType, Pairs
  <2>4. QED
    BY <1>1, <1>types, <2>1, <2>2, <2>3, StartTypes
       DEF Check, TypeOK, Shape, CheckPhases, MeantType, TornType
<1>2. ASSUME NEW r \in Requests, GetBlock(r)
      PROVE  IInv'
  <2>1. torn' \in TornType
    BY <1>2, <1>types, <1>pairs DEF GetBlock, TornType
  <2>2. CASE Finish(r)
    BY <1>2, <1>types, <2>1, <2>2, FinishTypes, DefaultTypes
       DEF GetBlock, TypeOK, Shape, CheckPhases, MeantType, TornType
  <2>3. CASE requests' = [requests EXCEPT ![r].phase = "attempts"]
    <3>1. "attempts" \in Phases /\ requests[r].count \in Nat
      BY <1>types DEF Phases, Request
    <3>2. /\ requests' \in [Requests -> Request] /\ requests'[r].phase = "attempts"
          /\ SameBesides(requests'[r], requests[r])
          /\ \A q \in Requests \ {r} : requests'[q] = requests[q]
      BY <2>3, <3>1, GoOnTypes
    <3>3. QED
      BY <1>2, <1>types, <2>1, <3>2
         DEF GetBlock, At, TypeOK, Shape, CheckPhases, MeantType, TornType, SameBesides
  <2>4. QED
    BY <1>2, <2>2, <2>3 DEF GetBlock
<1>3. ASSUME NEW r \in Requests, GetAttempts(r)
      PROVE  IInv'
  <2>1. PICK count \in Nat : requests' = [requests EXCEPT ![r].phase = "increment",
                                                           ![r].count = count]
    BY <1>3, <1>types, <1>pairs DEF GetAttempts, Record
  <2>2. torn' \in TornType
    BY <1>3, <1>types, <1>pairs DEF GetAttempts, TornType
  <2>3. /\ requests' \in [Requests -> Request] /\ requests'[r].phase = "increment"
        /\ SameBesides(requests'[r], requests[r])
        /\ \A q \in Requests \ {r} : requests'[q] = requests[q]
    <3>1. "increment" \in Phases
      BY DEF Phases
    <3>2. QED
      BY <2>1, <3>1, GoOnTypes
  <2>4. QED
    BY <1>3, <1>types, <2>2, <2>3
       DEF GetAttempts, At, TypeOK, Shape, CheckPhases, MeantType, TornType, SameBesides
<1>4. ASSUME NEW r \in Requests, Increment(r)
      PROVE  IInv'
  <2> DEFINE count == requests[r].count + 1
  <2>1. count \in Nat
    BY <1>types DEF Request
  <2>2. /\ records' = [records EXCEPT ![requests[r].pair].count = count]
        /\ denials' = [denials EXCEPT ![requests[r].pair] = @ + 1]
        /\ \/ Finish(r)
           \/ requests' = [requests EXCEPT ![r].phase = "setBlock", ![r].count = count]
    BY <1>4 DEF Increment
  <2> HIDE DEF count
  <2>3. records' \in [Pairs -> Record] /\ denials' \in [Pairs -> Nat]
    BY <1>types, <1>pairs, <2>1, <2>2 DEF Record
  <2>4. CASE Finish(r)
    BY <1>4, <1>types, <2>3, <2>4, FinishTypes, DefaultTypes
       DEF Increment, TypeOK, Shape, CheckPhases, MeantType, TornType
  <2>5. CASE requests' = [requests EXCEPT ![r].phase = "setBlock", ![r].count = count]
    <3>1. "setBlock" \in Phases
      BY DEF Phases
    <3>2. /\ requests' \in [Requests -> Request] /\ requests'[r].phase = "setBlock"
          /\ SameBesides(requests'[r], requests[r])
          /\ \A q \in Requests \ {r} : requests'[q] = requests[q]
      BY <2>1, <2>5, <3>1, GoOnTypes
    <3>3. QED
      BY <1>4, <1>types, <2>3, <3>2
         DEF Increment, At, TypeOK, Shape, CheckPhases, MeantType, TornType, SameBesides
  <2>6. QED
    BY <2>2, <2>4, <2>5
<1>5. ASSUME NEW r \in Requests, SetBlock(r)
      PROVE  IInv'
  <2>1. records' \in [Pairs -> Record]
    BY <1>5, <1>types, <1>pairs DEF SetBlock, Record, Request
  <2>2. QED
    BY <1>5, <1>types, <2>1, FinishTypes, DefaultTypes
       DEF SetBlock, TypeOK, Shape, CheckPhases, MeantType, TornType
<1>6. ASSUME NEW p \in Pairs, RemoveBlock(p)
      PROVE  IInv'
  <2>1. records' \in [Pairs -> Record] /\ denials' \in [Pairs -> Nat]
    BY <1>6, <1>types, DefaultTypes DEF RemoveBlock
  <2>2. torn' \in TornType
    BY <1>6, <1>types DEF RemoveBlock, TornType
  <2>3. QED
    BY <1>6, <1>types, <2>1, <2>2 DEF RemoveBlock, TypeOK, Shape, MeantType, TornType
<1>7. ASSUME NEW fields \in Updates, NEW new \in Updated(fields), SetConfigFields(fields, new)
      PROVE  IInv'
  <2>1. config' \in Config
    BY <1>7, <1>types, UpdatedFields DEF SetConfigFields
  <2>0. meant' \in MeantType /\ torn' \in TornType
    BY <1>7, <1>types, UpdatedFields DEF SetConfigFields, Config, MeantType, TornType
  <2>2. starts' \in 0..MaxStarts
    BY <1>7, <1>types, LevelFacts DEF SetConfigFields
  <2>3. requests' = Unsteady(requests)
    BY <1>7 DEF SetConfigFields
  <2>4. UNCHANGED <<records, denials>>
    BY <1>7 DEF SetConfigFields
  <2>5. Shape'
    BY <1>unsteady, <2>3 DEF Shape
  <2>6. QED
    BY <1>types, <1>unsteady, <2>0, <2>1, <2>2, <2>3, <2>4, <2>5
       DEF TypeOK, MeantType, TornType
<1>8. ASSUME NEW r \in Requests, NEW a \in Accessors, NEW level \in Override,
             SetUserTrust(r, a, level)
      PROVE  IInv'
  <2>1. PICK current \in Reads :
          Start(r, [Idle EXCEPT !.kind = "trust", !.phase = "write",
                                !.trust = [current.trust EXCEPT ![a] = level]])
    BY <1>8 DEF SetUserTrust
  <2> DEFINE request == [Idle EXCEPT !.kind = "trust", !.phase = "write",
                                     !.trust = [current.trust EXCEPT ![a] = level]]
  <2>2. current \in Config
    BY <1>types, DefaultTypes DEF Reads
  <2>3. request \in Request /\ request.kind = "trust" /\ request.phase = "write"
    BY <2>2, DefaultTypes DEF Request, Config, Kinds, Phases
  <2>4. Start(r, request)
    BY <2>1
  <2> HIDE DEF request
  <2>5. meant' \in MeantType /\ torn' \in TornType
    <3>1. [meant.trust EXCEPT ![a] = level] \in [Accessors -> Override]
      BY <1>types DEF MeantType
    <3>2. PICK removed \in SUBSET Accessors :
            meant' = [meant EXCEPT !.trust = [meant.trust EXCEPT ![a] = level],
                                   !.removed = removed]
      BY <1>8, <1>types DEF SetUserTrust, MeantType
    <3>3. meant' \in MeantType
      BY <1>types, <3>1, <3>2 DEF MeantType
    <3>4. QED
      BY <1>8, <1>types, <3>3 DEF SetUserTrust, TornType
  <2>6. QED
    BY <1>8, <1>types, <2>3, <2>4, <2>5, StartTypes
       DEF SetUserTrust, TypeOK, Shape, CheckPhases, MeantType, TornType
<1>9. ASSUME NEW r \in Requests, NEW a \in Accessors, NEW blocking \in BOOLEAN,
             ChangeBlock(r, a, blocking)
      PROVE  IInv'
  <2>1. PICK current \in Reads :
          /\ IF (a \in current.blocked) = blocking
             THEN Free(r) /\ starts' = starts + 1 /\ UNCHANGED requests
             ELSE Start(r, [Idle EXCEPT !.kind = "block", !.phase = "write",
                    !.blocked = IF blocking THEN current.blocked \cup {a}
                                ELSE current.blocked \ {a}])
          /\ torn' = [torn EXCEPT !.list =
               @ \/ Running("block") # {} \/ current.blocked # config.blocked]
    BY <1>9 DEF ChangeBlock
  <2> DEFINE request == [Idle EXCEPT !.kind = "block", !.phase = "write",
               !.blocked = IF blocking THEN current.blocked \cup {a} ELSE current.blocked \ {a}]
  <2>2. current \in Config
    BY <1>types, DefaultTypes DEF Reads
  <2>3. request \in Request /\ request.kind = "block" /\ request.phase = "write"
    BY <2>2, DefaultTypes DEF Request, Config, Kinds, Phases
  <2>4. \/ Free(r) /\ starts' = starts + 1 /\ UNCHANGED requests
        \/ Start(r, request)
    BY <2>1
  <2> HIDE DEF request
  <2>5. meant' \in MeantType /\ torn' \in TornType
    BY <1>9, <1>types, <2>1 DEF ChangeBlock, MeantType, TornType
  <2>6. CASE Start(r, request)
    BY <1>9, <1>types, <2>3, <2>5, <2>6, StartTypes
       DEF ChangeBlock, TypeOK, Shape, CheckPhases, MeantType, TornType
  <2>7. CASE Free(r) /\ starts' = starts + 1 /\ UNCHANGED requests
    <3>1. starts' \in 0..MaxStarts
      BY <1>types, <2>7, LevelFacts DEF Free
    <3>2. QED
      BY <1>9, <1>types, <2>5, <2>7, <3>1 DEF ChangeBlock, TypeOK, Shape, MeantType, TornType
  <2>8. QED
    BY <2>4, <2>6, <2>7
<1>10. ASSUME NEW r \in Requests, WriteConfig(r)
       PROVE  IInv'
  <2>1. config' \in Config
    <3>1. MergeMap(config.trust, requests[r].trust) \in [Accessors -> Override]
      BY <1>types DEF MergeMap, Config, Request
    <3>2. QED
      BY <1>10, <1>types, <3>1 DEF WriteConfig, Config, Request
  <2>2. requests' = [Unsteady(requests) EXCEPT ![r] = Idle]
    BY <1>10 DEF WriteConfig
  <2>3. QED
    BY <1>10, <1>types, <1>unsteady, <2>1, <2>2, DefaultTypes
       DEF WriteConfig, TypeOK, Shape, CheckPhases, MeantType, TornType
<1>11. ASSUME NEW r \in Requests, WriteFails(r)
       PROVE  IInv'
  <2>1. torn' \in TornType
    BY <1>11, <1>types, <1>pairs DEF WriteFails, TornType
  <2>2. QED
    BY <1>11, <1>types, <2>1, FinishTypes, DefaultTypes
       DEF WriteFails, TypeOK, Shape, CheckPhases, MeantType, TornType
<1>12. CASE UNCHANGED vars
  BY <1>12 DEF vars, TypeOK, Shape
<1>13. QED
  BY <1>1, <1>2, <1>3, <1>4, <1>5, <1>6, <1>7, <1>8, <1>9, <1>10, <1>11, <1>12 DEF Next, Step

\* Types: the configuration, the records and the requests stay what they are.
THEOREM TypeCorrect == Spec => []TypeOK
<1>1. Init => IInv
  BY InitIInv
<1>2. IInv /\ [Next]_vars => IInv'
  BY StepIInv
<1>3. IInv => TypeOK
  BY DEF IInv
<1>4. QED
  BY <1>1, <1>2, <1>3, PTL DEF Spec

-----------------------------------------------------------------------------
(* Counting.  What a check carries from its read to its write is compared  *)
(* with the record and with the denials there were.                        *)

\* What overlap and failures leave: no count is ahead of the denials.
NotAhead ==
  \A p \in Pairs \ torn.resets :
    /\ records[p].count <= denials[p]
    /\ records[p].blocked => denials[p] >= MaxAttempts
    /\ \A r \in Checking(p) :
         /\ requests[r].phase \in {"increment", "setBlock"} => requests[r].count <= denials[p]
         /\ requests[r].phase = "setBlock" => requests[r].count >= MaxAttempts

\* Without them a pair has one check at a time, which carries what the record says.
InStep ==
  \A p \in Pairs \ torn.counts :
    /\ records[p].count = denials[p]
    /\ records[p].blocked => denials[p] >= MaxAttempts
    /\ denials[p] >= MaxAttempts =>
         records[p].blocked \/ \E r \in Checking(p) : requests[r].phase = "setBlock"
    /\ \A r \in Checking(p) :
         /\ \A q \in Checking(p) : q = r
         /\ requests[r].phase \in {"increment", "setBlock"} => requests[r].count = denials[p]
         /\ requests[r].phase = "setBlock" => requests[r].count >= MaxAttempts

Counted == NotAhead /\ InStep

\* What is not about checks does not matter.
LEMMA CountedKept ==
  ASSUME IInv, Counted,
         UNCHANGED <<records, denials>>,
         torn'.counts = torn.counts, torn'.resets = torn.resets,
         \A r \in Requests : requests'[r].kind = "check" <=> requests[r].kind = "check",
         \A r \in Requests : requests[r].kind = "check" =>
           /\ requests'[r].phase = requests[r].phase /\ requests'[r].pair = requests[r].pair
           /\ requests'[r].count = requests[r].count
  PROVE  Counted'
<1>1. \A p \in Pairs : Checking(p)' = Checking(p)
  BY DEF Checking, Running
<1>2. \A p \in Pairs : \A r \in Checking(p) :
        r \in Requests /\ requests[r].kind = "check"
  BY DEF Checking, Running
<1>3. NotAhead'
  BY <1>1, <1>2 DEF Counted, NotAhead
<1>4. InStep'
  BY <1>1, <1>2 DEF Counted, InStep
<1>5. QED
  BY <1>3, <1>4 DEF Counted

LEMMA InitCounted == Init => Counted
<1> SUFFICES ASSUME Init PROVE Counted
  OBVIOUS
<1>1. \A p \in Pairs : Checking(p) = {} /\ records[p].count = 0 /\ denials[p] = 0
                       /\ records[p].blocked = FALSE
  BY DefaultTypes DEF Init, Checking, Running
<1>2. QED
  BY <1>1, LevelFacts DEF Counted, NotAhead, InStep

LEMMA StepCounted == IInv /\ Counted /\ [Next]_vars => Counted'
<1> SUFFICES ASSUME IInv, Counted, [Next]_vars PROVE Counted'
  OBVIOUS
<1>types. /\ records \in [Pairs -> Record] /\ requests \in [Requests -> Request]
          /\ denials \in [Pairs -> Nat] /\ torn \in TornType
          /\ \A r \in Requests : requests[r].pair \in Pairs /\ requests[r].count \in Nat
          /\ \A p \in Pairs : records[p].count \in Nat /\ records[p].blocked \in BOOLEAN
          /\ \A p \in Pairs : Checking(p) \subseteq Requests
  BY DEF IInv, TypeOK, TornType, Request, Record, Checking, Running
<1>max. MaxAttempts \in Nat /\ MaxAttempts > 0
  BY LevelFacts
<1>1. ASSUME NEW r \in Requests, NEW a \in Accessors, NEW m \in Memories, Check(r, a, m)
      PROVE  Counted'
  <2> DEFINE p == <<a, m>>
             request == [Idle EXCEPT !.kind = "check", !.phase = "block", !.pair = p,
                                     !.level = ResolveTrust(config, a)]
  <2>1. /\ request.kind = "check" /\ request.phase = "block" /\ request.pair = p
        /\ p \in Pairs
    BY DefaultTypes DEF Request, Pairs
  <2>2. Start(r, request) /\ UNCHANGED <<records, denials>>
    BY <1>1 DEF Check
  <2>3. torn'.resets = torn.resets /\ torn.counts \subseteq torn'.counts
        /\ (Checking(p) # {} => p \in torn'.counts)
    BY <1>1, <1>types DEF Check, TornType
  <2> HIDE DEF request, p
  <2>4. requests' = [requests EXCEPT ![r] = request] /\ requests[r].kind = "none"
    BY <2>2, <1>types DEF Start, Free
  <2>5. \A q \in Requests : requests'[q] = IF q = r THEN request ELSE requests[q]
    BY <2>4, <1>types
  <2>6. \A o \in Pairs : Checking(o)' = IF o = p THEN Checking(p) \cup {r} ELSE Checking(o)
    BY <2>1, <2>4, <2>5 DEF Checking, Running
  <2>7. \A o \in Pairs : r \notin Checking(o)
    BY <2>4 DEF Checking, Running
  <2>8. NotAhead'
    BY <1>types, <2>1, <2>2, <2>3, <2>5, <2>6, <2>7 DEF Counted, NotAhead
  <2>9. InStep'
    BY <1>types, <2>1, <2>2, <2>3, <2>5, <2>6, <2>7 DEF Counted, InStep
  <2>10. QED
    BY <2>8, <2>9 DEF Counted
<1>finish. ASSUME NEW r \in Requests, Finish(r)
           PROVE  /\ \A q \in Requests \ {r} : requests'[q] = requests[q]
                  /\ \A o \in Pairs : Checking(o)' = Checking(o) \ {r}
  BY <1>finish, <1>types, DefaultTypes DEF Finish, Checking, Running
<1>go. ASSUME NEW r \in Requests, requests[r].phase \in CheckPhases,
              NEW phase \in CheckPhases, NEW count \in Nat,
              \/ requests' = [requests EXCEPT ![r].phase = phase, ![r].count = count]
              \/ requests' = [requests EXCEPT ![r].phase = phase] /\ count = requests[r].count
       PROVE  /\ \A q \in Requests \ {r} : requests'[q] = requests[q]
              /\ requests'[r].phase = phase /\ requests'[r].count = count
              /\ \A o \in Pairs : Checking(o)' = Checking(o)
              /\ r \in Checking(requests[r].pair)
  <2>1. /\ requests'[r].phase = phase /\ requests'[r].count = count
        /\ SameBesides(requests'[r], requests[r])
        /\ \A q \in Requests \ {r} : requests'[q] = requests[q]
    <3>1. TypeOK /\ phase \in Phases
      BY DEF IInv, CheckPhases, Phases
    <3>2. QED
      BY <1>go, <3>1, GoOnTypes
  <2>2. requests[r].kind = "check"
    BY <1>go DEF IInv, Shape
  <2>3. QED
    BY <2>1, <2>2 DEF SameBesides, Checking, Running
<1>of. ASSUME NEW r \in Requests, requests[r].phase \in CheckPhases
       PROVE  \A o \in Pairs : r \in Checking(o) <=> o = requests[r].pair
  BY <1>of DEF IInv, Shape, Checking, Running
<1>2. ASSUME NEW r \in Requests, GetBlock(r)
      PROVE  Counted'
  <2>1. /\ requests[r].phase \in CheckPhases /\ requests[r].phase = "block"
        /\ UNCHANGED <<records, denials>>
        /\ torn'.resets = torn.resets /\ torn.counts \subseteq torn'.counts
    BY <1>2, <1>types DEF GetBlock, At, CheckPhases, TornType
  <2>2. CASE Finish(r)
    BY <1>types, <1>of, <1>finish, <2>1, <2>2 DEF Counted, NotAhead, InStep
  <2>3. CASE requests' = [requests EXCEPT ![r].phase = "attempts"]
    <3>1. /\ \A q \in Requests \ {r} : requests'[q] = requests[q]
          /\ requests'[r].phase = "attempts"
          /\ \A o \in Pairs : Checking(o)' = Checking(o)
      BY <1>types, <1>go, <2>1, <2>3 DEF CheckPhases
    <3>2. QED
      BY <1>types, <2>1, <3>1 DEF Counted, NotAhead, InStep
  <2>4. QED
    BY <1>2, <2>2, <2>3 DEF GetBlock
<1>3. ASSUME NEW r \in Requests, GetAttempts(r)
      PROVE  Counted'
  <2> DEFINE p == requests[r].pair
  <2>1. /\ requests[r].phase \in CheckPhases /\ requests[r].phase = "attempts"
        /\ UNCHANGED <<records, denials>> /\ torn'.resets = torn.resets
    BY <1>3, <1>types DEF GetAttempts, At, CheckPhases, TornType
  <2>2. PICK count \in Nat :
          /\ requests' = [requests EXCEPT ![r].phase = "increment", ![r].count = count]
          /\ \/ count = records[p].count /\ torn'.counts = torn.counts
             \/ count = 0 /\ torn'.counts = torn.counts \cup {p}
    BY <1>3, <1>types DEF GetAttempts, TornType
  <2>3. /\ \A q \in Requests \ {r} : requests'[q] = requests[q]
        /\ requests'[r].phase = "increment" /\ requests'[r].count = count
        /\ \A o \in Pairs : Checking(o)' = Checking(o)
        /\ \A o \in Pairs : r \in Checking(o) <=> o = p
    BY <1>types, <1>go, <1>of, <2>1, <2>2 DEF CheckPhases
  <2> HIDE DEF p
  <2>4. p \in Pairs
    BY <1>types DEF p
  <2>5. NotAhead'
    BY <1>types, <2>1, <2>2, <2>3, <2>4 DEF Counted, NotAhead
  <2>6. InStep'
    BY <1>types, <2>1, <2>2, <2>3, <2>4 DEF Counted, InStep
  <2>7. QED
    BY <2>5, <2>6 DEF Counted
<1>4. ASSUME NEW r \in Requests, Increment(r)
      PROVE  Counted'
  <2> DEFINE p == requests[r].pair
             count == requests[r].count + 1
  <2>1. /\ requests[r].phase \in CheckPhases /\ requests[r].phase = "increment"
        /\ UNCHANGED torn /\ p \in Pairs /\ count \in Nat
    BY <1>4, <1>types DEF Increment, At, CheckPhases
  <2>2. /\ records' = [records EXCEPT ![p].count = count]
        /\ denials' = [denials EXCEPT ![p] = @ + 1]
        /\ \/ count < MaxAttempts /\ Finish(r)
           \/ /\ count >= MaxAttempts
              /\ requests' = [requests EXCEPT ![r].phase = "setBlock", ![r].count = count]
    BY <1>4, <1>max, <2>1 DEF Increment
  <2>3. /\ \A o \in Pairs \ {p} : records'[o] = records[o] /\ denials'[o] = denials[o]
        /\ records'[p].count = count /\ records'[p].blocked = records[p].blocked
        /\ denials'[p] = denials[p] + 1
    BY <1>types, <2>1, <2>2 DEF Record
  <2>4. \A o \in Pairs : r \in Checking(o) <=> o = p
    BY <1>of, <2>1
  <2>5. count = requests[r].count + 1
    OBVIOUS
  <2> HIDE DEF p, count
  <2>6. CASE count < MaxAttempts /\ Finish(r)
    <3>1. NotAhead'
      BY <1>types, <1>max, <1>finish, <2>1, <2>3, <2>4, <2>5, <2>6 DEF Counted, NotAhead
    <3>2. InStep'
      BY <1>types, <1>max, <1>finish, <2>1, <2>3, <2>4, <2>5, <2>6 DEF Counted, InStep
    <3>3. QED
      BY <3>1, <3>2 DEF Counted
  <2>7. CASE /\ count >= MaxAttempts
             /\ requests' = [requests EXCEPT ![r].phase = "setBlock", ![r].count = count]
    <3>1. /\ \A q \in Requests \ {r} : requests'[q] = requests[q]
          /\ requests'[r].phase = "setBlock" /\ requests'[r].count = count
          /\ \A o \in Pairs : Checking(o)' = Checking(o)
      BY <1>types, <1>go, <2>1, <2>7 DEF CheckPhases
    <3>2. NotAhead'
      BY <1>types, <1>max, <2>1, <2>3, <2>4, <2>5, <2>7, <3>1 DEF Counted, NotAhead
    <3>3. InStep'
      BY <1>types, <1>max, <2>1, <2>3, <2>4, <2>5, <2>7, <3>1 DEF Counted, InStep
    <3>4. QED
      BY <3>2, <3>3 DEF Counted
  <2>8. QED
    BY <2>2, <2>6, <2>7
<1>5. ASSUME NEW r \in Requests, SetBlock(r)
      PROVE  Counted'
  <2> DEFINE p == requests[r].pair
  <2>1. /\ requests[r].phase \in CheckPhases /\ requests[r].phase = "setBlock"
        /\ UNCHANGED <<denials, torn>> /\ p \in Pairs /\ Finish(r)
        /\ records' = [records EXCEPT ![p] = [count |-> requests[r].count, blocked |-> TRUE]]
    BY <1>5, <1>types DEF SetBlock, At, CheckPhases
  <2>2. /\ \A o \in Pairs \ {p} : records'[o] = records[o]
        /\ records'[p].count = requests[r].count /\ records'[p].blocked = TRUE
    BY <1>types, <2>1
  <2>3. \A o \in Pairs : r \in Checking(o) <=> o = p
    BY <1>of, <2>1
  <2> HIDE DEF p
  <2>4. NotAhead'
    BY <1>types, <1>max, <1>finish, <2>1, <2>2, <2>3 DEF Counted, NotAhead
  <2>5. InStep'
    BY <1>types, <1>max, <1>finish, <2>1, <2>2, <2>3 DEF Counted, InStep
  <2>6. QED
    BY <2>4, <2>5 DEF Counted
<1>6. ASSUME NEW p \in Pairs, RemoveBlock(p)
      PROVE  Counted'
  <2>1. /\ \A o \in Pairs \ {p} : records'[o] = records[o] /\ denials'[o] = denials[o]
        /\ records'[p] = NoRecord /\ denials'[p] = 0 /\ UNCHANGED requests
    BY <1>6, <1>types DEF RemoveBlock
  <2>2. /\ torn'.counts \ {p} = torn.counts \ {p} /\ torn'.resets \ {p} = torn.resets \ {p}
        /\ Checking(p) # {} => p \in torn'.counts /\ p \in torn'.resets
    BY <1>6, <1>types DEF RemoveBlock, TornType
  <2>3. \A o \in Pairs : Checking(o)' = Checking(o)
    BY <2>1 DEF Checking, Running
  <2>4. NotAhead'
    BY <1>types, <1>max, <2>1, <2>2, <2>3, DefaultTypes DEF Counted, NotAhead
  <2>5. InStep'
    BY <1>types, <1>max, <2>1, <2>2, <2>3, DefaultTypes DEF Counted, InStep
  <2>6. QED
    BY <2>4, <2>5 DEF Counted
<1>7. ASSUME NEW fields \in Updates, NEW new \in Updated(fields), SetConfigFields(fields, new)
      PROVE  Counted'
  <2>1. torn'.counts = torn.counts /\ torn'.resets = torn.resets
    BY <1>7, <1>types DEF SetConfigFields, TornType
  <2>2. QED
    BY <1>7, <1>types, <2>1, UnsteadyRequests, CountedKept DEF SetConfigFields
<1>8. ASSUME NEW r \in Requests, NEW a \in Accessors, NEW level \in Override,
             SetUserTrust(r, a, level)
      PROVE  Counted'
  <2>1. PICK request : Start(r, request) /\ request.kind = "trust"
    <3>1. PICK current \in Reads :
            Start(r, [Idle EXCEPT !.kind = "trust", !.phase = "write",
                                  !.trust = [current.trust EXCEPT ![a] = level]])
      BY <1>8 DEF SetUserTrust
    <3>2. [Idle EXCEPT !.kind = "trust", !.phase = "write",
                       !.trust = [current.trust EXCEPT ![a] = level]].kind = "trust"
      BY DefaultTypes DEF Request
    <3>3. QED
      BY <3>1, <3>2
  <2>2. QED
    BY <1>8, <1>types, <2>1, CountedKept DEF SetUserTrust, Start, Free, TornType
<1>9. ASSUME NEW r \in Requests, NEW a \in Accessors, NEW blocking \in BOOLEAN,
             ChangeBlock(r, a, blocking)
      PROVE  Counted'
  <2>1. \/ UNCHANGED requests
        \/ \E request : Start(r, request) /\ request.kind = "block"
    <3>1. PICK current \in Reads :
            \/ UNCHANGED requests
            \/ Start(r, [Idle EXCEPT !.kind = "block", !.phase = "write",
                   !.blocked = IF blocking THEN current.blocked \cup {a}
                               ELSE current.blocked \ {a}])
      BY <1>9 DEF ChangeBlock
    <3>2. [Idle EXCEPT !.kind = "block", !.phase = "write",
             !.blocked = IF blocking THEN current.blocked \cup {a}
                         ELSE current.blocked \ {a}].kind = "block"
      BY DefaultTypes DEF Request
    <3>3. QED
      BY <3>1, <3>2
  <2>2. QED
    BY <1>9, <1>types, <2>1, CountedKept DEF ChangeBlock, Start, Free, TornType
<1>10. ASSUME NEW r \in Requests, WriteConfig(r)
       PROVE  Counted'
  <2>1. requests[r].kind # "check"
    BY <1>10 DEF WriteConfig, At, IInv, Shape, CheckPhases
  <2>2. QED
    BY <1>10, <1>types, <2>1, UnsteadyRequests, DefaultTypes, CountedKept DEF WriteConfig
<1>11. ASSUME NEW r \in Requests, WriteFails(r)
       PROVE  Counted'
  <2>1. Finish(r) /\ UNCHANGED <<records, denials>> /\ torn'.resets = torn.resets
        /\ torn.counts \subseteq torn'.counts
        /\ (requests[r].phase = "setBlock" => requests[r].pair \in torn'.counts)
    BY <1>11, <1>types DEF WriteFails, TornType
  <2>2. \A o \in Pairs : r \in Checking(o) => o = requests[r].pair
    BY DEF Checking, Running
  <2>3. NotAhead'
    BY <1>types, <1>finish, <2>1, <2>2 DEF Counted, NotAhead
  <2>4. InStep'
    BY <1>types, <1>finish, <2>1, <2>2 DEF Counted, InStep
  <2>5. QED
    BY <2>3, <2>4 DEF Counted
<1>12. CASE UNCHANGED vars
  BY <1>12, CountedKept DEF vars
<1>13. QED
  BY <1>1, <1>2, <1>3, <1>4, <1>5, <1>6, <1>7, <1>8, <1>9, <1>10, <1>11, <1>12 DEF Next, Step

\* Blocks come neither before the limit nor, when nothing overlapped or failed, after it.
THEOREM BlocksAsDenied == Spec => []BlocksMatchDenials
<1>1. Init => IInv /\ Counted
  BY InitIInv, InitCounted
<1>2. IInv /\ Counted /\ [Next]_vars => (IInv /\ Counted)'
  BY StepIInv, StepCounted
<1>3. IInv /\ Counted => BlocksMatchDenials
  <2> SUFFICES ASSUME IInv, Counted PROVE BlocksMatchDenials
    OBVIOUS
  <2>1. \A p \in Pairs : records[p].blocked \in BOOLEAN
    BY DEF IInv, TypeOK, Record
  <2>2. QED
    BY <2>1 DEF Counted, NotAhead, InStep, BlocksMatchDenials, NeverBlockedEarly
<1>4. QED
  BY <1>1, <1>2, <1>3, PTL DEF Spec

\* Only a reset ends a block, whatever overlaps and fails.
THEOREM BlocksStay == Spec => BlocksStick
<1>1. IInv /\ [Next]_vars =>
        [\A p \in Pairs : (records[p].blocked /\ ~records'[p].blocked) => RemoveBlock(p)]_vars
  <2> SUFFICES ASSUME IInv, [Next]_vars, NEW p \in Pairs,
                      records[p].blocked, ~records'[p].blocked
               PROVE  RemoveBlock(p)
    OBVIOUS
  <2>1. /\ records \in [Pairs -> Record] /\ requests \in [Requests -> Request]
        /\ \A r \in Requests : requests[r].pair \in Pairs
    BY DEF IInv, TypeOK, Request
  <2>2. ASSUME NEW r \in Requests, Increment(r)
        PROVE  FALSE
    <3>1. records' = [records EXCEPT ![requests[r].pair].count = requests[r].count + 1]
      BY <2>2 DEF Increment
    <3>2. QED
      BY <2>1, <3>1 DEF Record
  <2>3. ASSUME NEW r \in Requests, SetBlock(r)
        PROVE  FALSE
    BY <2>1, <2>3 DEF SetBlock
  <2>4. ASSUME NEW q \in Pairs, RemoveBlock(q)
        PROVE  RemoveBlock(p)
    <3>1. records' = [records EXCEPT ![q] = NoRecord]
      BY <2>4 DEF RemoveBlock
    <3>2. p = q
      BY <2>1, <3>1
    <3>3. QED
      BY <2>4, <3>2
  <2>5. records' # records
    OBVIOUS
  <2>6. QED
    BY <2>2, <2>3, <2>4, <2>5
       DEF Next, Step, vars, Check, GetBlock, GetAttempts, SetConfigFields, SetUserTrust,
           ChangeBlock, WriteConfig, WriteFails
<1>2. Init => IInv
  BY InitIInv
<1>3. IInv /\ [Next]_vars => IInv'
  BY StepIInv
<1>4. QED
  BY <1>1, <1>2, <1>3, PTL DEF Spec, BlocksStick

-----------------------------------------------------------------------------
(* Policy.  What a request is going to write is compared with what the     *)
(* owner meant.                                                            *)

ListKept ==
  ~torn.list =>
    /\ Running("block") = {} => config.blocked = meant.blocked
    /\ \A r \in Running("block") :
         /\ \A q \in Running("block") : q = r
         /\ requests[r].blocked = meant.blocked

\* Overrides are merged: those that the request does not have stay.
TrustKept ==
  ~torn.trust =>
    /\ Running("trust") = {} =>
         \A a \in Accessors \ meant.removed : config.trust[a] = meant.trust[a]
    /\ \A r \in Running("trust") :
         /\ \A q \in Running("trust") : q = r
         /\ \A a \in Accessors \ meant.removed :
              MergeMap(config.trust, requests[r].trust)[a] = meant.trust[a]

\* A check that no change of the configuration crossed.
ChecksSteady ==
  \A r \in Running("check") :
    requests[r].steady =>
      /\ requests[r].pair[1] \notin config.blocked
      /\ requests[r].level = ResolveTrust(config, requests[r].pair[1])

Policy == ListKept /\ TrustKept /\ ChecksSteady

LEMMA InitPolicy == Init => Policy
<1> SUFFICES ASSUME Init PROVE Policy
  OBVIOUS
<1>1. \A kind : kind # "none" => Running(kind) = {}
  BY DefaultTypes DEF Init, Running
<1>2. Running("block") = {} /\ Running("trust") = {} /\ Running("check") = {}
  BY <1>1
<1>3. config.blocked = meant.blocked /\ config.trust = meant.trust
  BY DEF Init
<1>4. QED
  BY <1>2, <1>3 DEF Policy, ListKept, TrustKept, ChecksSteady

\* Steps of checks, which do not touch the configuration.
LEMMA PolicyOfChecks ==
  ASSUME IInv, Policy, UNCHANGED <<config, meant>>,
         torn'.list = torn.list, torn'.trust = torn.trust,
         \A r \in Requests : requests[r].kind = "none" =>
           requests'[r] = requests[r] \/ requests'[r].kind = "check",
         \A r \in Requests : requests[r].kind # "none" /\ requests[r].kind # "check" =>
           requests'[r] = requests[r],
         \A r \in Requests : requests'[r].kind = "check" /\ requests'[r].steady =>
           \/ /\ requests[r].kind = "check" /\ requests[r].steady
              /\ requests'[r].pair = requests[r].pair /\ requests'[r].level = requests[r].level
           \/ /\ requests'[r].pair[1] \notin config.blocked
              /\ requests'[r].level = ResolveTrust(config, requests'[r].pair[1]),
         \A r \in Requests : requests[r].kind = "check" =>
           requests'[r].kind \in {"check", "none"}
  PROVE  Policy'
<1>1. Running("block")' = Running("block") /\ Running("trust")' = Running("trust")
  BY DEF Running
<1>2. \A r \in Running("block") \cup Running("trust") : requests'[r] = requests[r]
  BY DEF Running
<1>3. ListKept'
  BY <1>1, <1>2 DEF Policy, ListKept
<1>4. TrustKept'
  BY <1>1, <1>2 DEF Policy, TrustKept
<1>5. ChecksSteady'
  BY DEF Policy, ChecksSteady, Running, ResolveTrust
<1>6. QED
  BY <1>3, <1>4, <1>5 DEF Policy

LEMMA StepPolicy == IInv /\ Policy /\ [Next]_vars => Policy'
<1> SUFFICES ASSUME IInv, Policy, [Next]_vars PROVE Policy'
  OBVIOUS
<1>types. /\ config \in Config /\ meant \in MeantType /\ torn \in TornType
          /\ requests \in [Requests -> Request]
  BY DEF IInv, TypeOK, MeantType, TornType
<1>finish. ASSUME NEW r \in Requests, Finish(r)
           PROVE  /\ \A q \in Requests \ {r} : requests'[q] = requests[q]
                  /\ requests'[r].kind = "none"
  BY <1>finish, <1>types, DefaultTypes DEF Finish
<1>start. ASSUME NEW r \in Requests, NEW request, Start(r, request)
          PROVE  /\ \A q \in Requests \ {r} : requests'[q] = requests[q]
                 /\ requests'[r] = request /\ requests[r].kind = "none"
  BY <1>start, <1>types DEF Start, Free
<1>go. ASSUME NEW r \in Requests, requests[r].phase \in CheckPhases,
              NEW phase \in CheckPhases, NEW count \in Nat,
              \/ requests' = [requests EXCEPT ![r].phase = phase, ![r].count = count]
              \/ requests' = [requests EXCEPT ![r].phase = phase] /\ count = requests[r].count
       PROVE  /\ \A q \in Requests \ {r} : requests'[q] = requests[q]
              /\ SameBesides(requests'[r], requests[r]) /\ requests[r].kind = "check"
  <2>1. requests[r].kind = "check"
    BY <1>go DEF IInv, Shape
  <2>2. QED
    BY <1>go, <2>1, GoOnTypes DEF IInv, CheckPhases, Phases
<1>1. ASSUME NEW r \in Requests, NEW a \in Accessors, NEW m \in Memories, Check(r, a, m)
      PROVE  Policy'
  <2> DEFINE request == [Idle EXCEPT !.kind = "check", !.phase = "block", !.pair = <<a, m>>,
                                     !.level = ResolveTrust(config, a)]
  <2>1. /\ request.kind = "check" /\ request.pair[1] = a
        /\ request.level = ResolveTrust(config, a)
    BY DefaultTypes DEF Request
  <2>2. Start(r, request) /\ UNCHANGED <<config, meant>> /\ a \notin config.blocked
        /\ torn'.list = torn.list /\ torn'.trust = torn.trust
    BY <1>1, <1>types DEF Check, TornType
  <2> HIDE DEF request
  <2>3. QED
    BY <1>start, <2>1, <2>2, PolicyOfChecks
<1>2. ASSUME NEW r \in Requests, GetBlock(r)
      PROVE  Policy'
  <2>1. /\ requests[r].phase = "block" /\ requests[r].phase \in CheckPhases
        /\ UNCHANGED <<config, meant>>
        /\ torn'.list = torn.list /\ torn'.trust = torn.trust
    BY <1>2, <1>types DEF GetBlock, At, CheckPhases, TornType
  <2>2. requests[r].kind = "check"
    BY <2>1 DEF IInv, Shape
  <2>3. CASE Finish(r)
    BY <1>finish, <2>1, <2>2, <2>3, PolicyOfChecks
  <2>4. CASE requests' = [requests EXCEPT ![r].phase = "attempts"]
    <3>1. \A q \in Requests \ {r} : requests'[q] = requests[q]
      BY <1>go, <1>types, <2>1, <2>4 DEF CheckPhases, Request
    <3>2. SameBesides(requests'[r], requests[r])
      BY <1>go, <1>types, <2>1, <2>4 DEF CheckPhases, Request
    <3>3. QED
      BY <2>1, <2>2, <3>1, <3>2, PolicyOfChecks DEF SameBesides
  <2>5. QED
    BY <1>2, <2>3, <2>4 DEF GetBlock
<1>3. ASSUME NEW r \in Requests, GetAttempts(r)
      PROVE  Policy'
  <2>1. /\ requests[r].phase \in CheckPhases /\ UNCHANGED <<config, meant>>
        /\ torn'.list = torn.list /\ torn'.trust = torn.trust
    BY <1>3, <1>types DEF GetAttempts, At, CheckPhases, TornType
  <2>2. PICK count \in Nat :
          requests' = [requests EXCEPT ![r].phase = "increment", ![r].count = count]
    BY <1>3, <1>types DEF GetAttempts, IInv, TypeOK, Record, Request
  <2>3. /\ \A q \in Requests \ {r} : requests'[q] = requests[q]
        /\ SameBesides(requests'[r], requests[r]) /\ requests[r].kind = "check"
    BY <1>go, <2>1, <2>2 DEF CheckPhases
  <2>4. QED
    BY <2>1, <2>3, PolicyOfChecks DEF SameBesides
<1>4. ASSUME NEW r \in Requests, Increment(r)
      PROVE  Policy'
  <2> DEFINE count == requests[r].count + 1
  <2>1. /\ requests[r].phase = "increment" /\ requests[r].phase \in CheckPhases
        /\ UNCHANGED <<config, meant, torn>>
    BY <1>4 DEF Increment, At, CheckPhases
  <2>2. \/ Finish(r)
        \/ requests' = [requests EXCEPT ![r].phase = "setBlock", ![r].count = count]
    BY <1>4 DEF Increment
  <2>3. count \in Nat /\ requests[r].kind = "check"
    BY <1>types, <2>1 DEF Request, IInv, Shape
  <2> HIDE DEF count
  <2>4. CASE Finish(r)
    BY <1>finish, <2>1, <2>3, <2>4, PolicyOfChecks
  <2>5. CASE requests' = [requests EXCEPT ![r].phase = "setBlock", ![r].count = count]
    <3>1. /\ \A q \in Requests \ {r} : requests'[q] = requests[q]
          /\ SameBesides(requests'[r], requests[r])
      BY <1>go, <2>1, <2>3, <2>5 DEF CheckPhases
    <3>2. QED
      BY <2>1, <2>3, <3>1, PolicyOfChecks DEF SameBesides
  <2>6. QED
    BY <2>2, <2>4, <2>5
<1>5. ASSUME NEW r \in Requests, SetBlock(r)
      PROVE  Policy'
  <2>1. requests[r].kind = "check" /\ Finish(r) /\ UNCHANGED <<config, meant, torn>>
    BY <1>5 DEF SetBlock, At, IInv, Shape, CheckPhases
  <2>2. QED
    BY <1>finish, <2>1, PolicyOfChecks
<1>6. ASSUME NEW p \in Pairs, RemoveBlock(p)
      PROVE  Policy'
  BY <1>6, <1>types, PolicyOfChecks DEF RemoveBlock, TornType
<1>7. ASSUME NEW fields \in Updates, NEW new \in Updated(fields), SetConfigFields(fields, new)
      PROVE  Policy'
  <2>1. /\ requests' = Unsteady(requests) /\ config' = new
        /\ "blocked" \notin fields => /\ config'.blocked = config.blocked
                                      /\ meant'.blocked = meant.blocked
                                      /\ torn'.list = torn.list
        /\ "blocked" \in fields => /\ config'.blocked = meant'.blocked
                                   /\ torn'.list = (Running("block") # {})
    BY <1>7, <1>types, UpdatedFields DEF SetConfigFields, MeantType, TornType
  <2>2. /\ "trust" \notin fields => /\ config'.trust = config.trust
                                    /\ meant'.trust = meant.trust
                                    /\ meant'.removed = meant.removed
                                    /\ torn'.trust = torn.trust
        /\ "trust" \in fields => /\ config'.trust = meant'.trust
                                 /\ torn'.trust = (Running("trust") # {})
    BY <1>7, <1>types, UpdatedFields DEF SetConfigFields, MeantType, TornType
  <2>3. \A r \in Requests :
          /\ requests'[r].kind = requests[r].kind
          /\ requests'[r].trust = requests[r].trust
          /\ requests'[r].blocked = requests[r].blocked
          /\ requests[r].kind = "check" => requests'[r].steady = FALSE
    BY <1>types, <2>1, UnsteadyRequests DEF Running
  <2>4. \A kind : Running(kind)' = Running(kind)
    BY <2>3 DEF Running
  <2>5. \A kind : Running(kind) \subseteq Requests
    BY DEF Running
  <2>6. ListKept'
    <3>1. CASE "blocked" \in fields
      BY <2>1, <2>4, <3>1 DEF ListKept
    <3>2. CASE "blocked" \notin fields
      BY <2>1, <2>3, <2>4, <2>5, <3>2 DEF Policy, ListKept
    <3>3. QED
      BY <3>1, <3>2
  <2>7. TrustKept'
    <3>1. CASE "trust" \in fields
      BY <2>2, <2>4, <3>1 DEF TrustKept
    <3>2. CASE "trust" \notin fields
      BY <2>2, <2>3, <2>4, <2>5, <3>2 DEF Policy, TrustKept
    <3>3. QED
      BY <3>1, <3>2
  <2>8. ChecksSteady'
    BY <2>3, <2>4 DEF ChecksSteady, Running
  <2>9. QED
    BY <2>6, <2>7, <2>8 DEF Policy
<1>8. ASSUME NEW r \in Requests, NEW a \in Accessors, NEW level \in Override,
             SetUserTrust(r, a, level)
      PROVE  Policy'
  <2>1. PICK current \in Reads :
          Start(r, [Idle EXCEPT !.kind = "trust", !.phase = "write",
                                !.trust = [current.trust EXCEPT ![a] = level]])
    BY <1>8 DEF SetUserTrust
  <2> DEFINE request == [Idle EXCEPT !.kind = "trust", !.phase = "write",
                                     !.trust = [current.trust EXCEPT ![a] = level]]
  <2>2. request.kind = "trust" /\ request.trust = [current.trust EXCEPT ![a] = level]
    BY DefaultTypes DEF Request
  <2>3. Start(r, request)
    BY <2>1
  <2> HIDE DEF request
  <2>4. /\ \A q \in Requests \ {r} : requests'[q] = requests[q]
        /\ requests'[r] = request /\ requests[r].kind = "none"
    BY <1>start, <2>3
  <2>5. /\ UNCHANGED config /\ meant'.blocked = meant.blocked
        /\ meant'.trust = [meant.trust EXCEPT ![a] = level]
        /\ meant'.removed = IF level = 0 THEN meant.removed \cup {a} ELSE meant.removed \ {a}
        /\ torn'.list = torn.list /\ torn'.trust = (torn.trust \/ Running("trust") # {})
    BY <1>8, <1>types DEF SetUserTrust, MeantType, TornType
  <2>6. /\ Running("block")' = Running("block") /\ Running("check")' = Running("check")
        /\ Running("trust")' = Running("trust") \cup {r}
        /\ r \notin Running("block") \cup Running("check")
    BY <2>2, <2>4 DEF Running
  <2>7. ListKept'
    <3>1. \A q \in Running("block") : requests'[q] = requests[q]
      BY <2>4, <2>6 DEF Running
    <3>2. QED
      BY <2>5, <2>6, <3>1 DEF Policy, ListKept
  <2>8. TrustKept'
    <3> SUFFICES ASSUME ~torn'.trust PROVE TrustKept'
      BY DEF TrustKept
    <3>1. /\ ~torn.trust /\ Running("trust") = {} /\ Running("trust")' = {r}
          /\ \A b \in Accessors \ meant.removed : config.trust[b] = meant.trust[b]
      BY <1>types, <2>5, <2>6 DEF TornType, Policy, TrustKept
    <3>2. ASSUME NEW b \in Accessors \ meant'.removed
          PROVE  MergeMap(config.trust, request.trust)[b] = meant'.trust[b]
      <4>1. /\ config.trust \in [Accessors -> Override] /\ meant.trust \in [Accessors -> Override]
            /\ current.trust \in [Accessors -> Override]
        BY <1>types, DefaultTypes DEF Config, MeantType, Reads
      <4>2. current.trust = config.trust \/ \A c \in Accessors : current.trust[c] = 0
        BY DEF Reads, DefaultConfig
      <4>3. MergeMap(config.trust, request.trust)[b] =
              IF request.trust[b] # 0 THEN request.trust[b] ELSE config.trust[b]
        BY <4>1 DEF MergeMap
      <4>4. CASE b = a
        <5>1. level # 0
          BY <2>5, <3>2, <4>4
        <5>2. request.trust[b] = level /\ meant'.trust[b] = level
          BY <2>2, <2>5, <4>1, <4>4
        <5>3. QED
          BY <4>3, <5>1, <5>2
      <4>5. CASE b # a
        <5>1. b \notin meant.removed
          BY <2>5, <3>2, <4>5
        <5>2. request.trust[b] = current.trust[b] /\ meant'.trust[b] = meant.trust[b]
          BY <2>2, <2>5, <4>1, <4>5
        <5>3. QED
          BY <3>1, <4>2, <4>3, <5>1, <5>2
      <4>6. QED
        BY <4>4, <4>5
    <3>3. QED
      BY <2>4, <2>5, <3>1, <3>2 DEF TrustKept
  <2>9. ChecksSteady'
    BY <2>4, <2>5, <2>6 DEF Policy, ChecksSteady, Running, ResolveTrust
  <2>10. QED
    BY <2>7, <2>8, <2>9 DEF Policy
<1>9. ASSUME NEW r \in Requests, NEW a \in Accessors, NEW blocking \in BOOLEAN,
             ChangeBlock(r, a, blocking)
      PROVE  Policy'
  <2>1. PICK current \in Reads :
          /\ IF (a \in current.blocked) = blocking
             THEN Free(r) /\ starts' = starts + 1 /\ UNCHANGED requests
             ELSE Start(r, [Idle EXCEPT !.kind = "block", !.phase = "write",
                    !.blocked = IF blocking THEN current.blocked \cup {a}
                                ELSE current.blocked \ {a}])
          /\ torn' = [torn EXCEPT !.list =
               @ \/ Running("block") # {} \/ current.blocked # config.blocked]
    BY <1>9 DEF ChangeBlock
  <2> DEFINE list == IF blocking THEN current.blocked \cup {a} ELSE current.blocked \ {a}
             request == [Idle EXCEPT !.kind = "block", !.phase = "write", !.blocked = list]
  <2>2. request.kind = "block" /\ request.blocked = list
    BY DefaultTypes DEF Request
  <2>3. \/ list = current.blocked /\ UNCHANGED requests
        \/ Start(r, request)
    BY <2>1
  <2>4. /\ UNCHANGED config /\ meant'.trust = meant.trust /\ meant'.removed = meant.removed
        /\ meant'.blocked = IF blocking THEN meant.blocked \cup {a} ELSE meant.blocked \ {a}
        /\ torn'.trust = torn.trust
        /\ torn'.list = (torn.list \/ Running("block") # {} \/ current.blocked # config.blocked)
    BY <1>9, <1>types, <2>1 DEF ChangeBlock, MeantType, TornType
  <2>5. current.blocked = meant.blocked => list = meant'.blocked
    BY <2>4
  <2> HIDE DEF request, list
  <2>6. /\ ~torn'.list => /\ ~torn.list /\ Running("block") = {}
                          /\ list = meant'.blocked /\ current.blocked = config.blocked
    BY <1>types, <2>4, <2>5 DEF TornType, Policy, ListKept
  <2>7. CASE list = current.blocked /\ UNCHANGED requests
    <3>1. \A kind : Running(kind)' = Running(kind)
      BY <2>7 DEF Running
    <3>2. ListKept'
      BY <2>4, <2>6, <2>7, <3>1 DEF ListKept
    <3>3. TrustKept' /\ ChecksSteady'
      BY <2>4, <2>7, <3>1 DEF Policy, TrustKept, ChecksSteady, ResolveTrust
    <3>4. QED
      BY <3>2, <3>3 DEF Policy
  <2>8. CASE Start(r, request)
    <3>1. /\ \A q \in Requests \ {r} : requests'[q] = requests[q]
          /\ requests'[r] = request /\ requests[r].kind = "none"
      BY <1>start, <2>8
    <3>2. /\ Running("trust")' = Running("trust") /\ Running("check")' = Running("check")
          /\ Running("block")' = Running("block") \cup {r}
      BY <2>2, <3>1 DEF Running
    <3>3. \A q \in Running("trust") \cup Running("check") : requests'[q] = requests[q]
      BY <3>1 DEF Running
    <3>4. ListKept'
      BY <2>2, <2>6, <3>1, <3>2 DEF ListKept
    <3>5. TrustKept' /\ ChecksSteady'
      BY <2>4, <3>2, <3>3 DEF Policy, TrustKept, ChecksSteady, ResolveTrust
    <3>6. QED
      BY <3>4, <3>5 DEF Policy
  <2>9. QED
    BY <2>3, <2>7, <2>8
<1>10. ASSUME NEW r \in Requests, WriteConfig(r)
       PROVE  Policy'
  <2>1. /\ requests' = [Unsteady(requests) EXCEPT ![r] = Idle]
        /\ UNCHANGED <<meant, torn>> /\ requests[r].kind \in {"trust", "block"}
    BY <1>10 DEF WriteConfig, At, IInv, Shape
  <2>2. /\ requests[r].kind = "trust" => /\ config'.blocked = config.blocked
                                         /\ config'.trust = MergeMap(config.trust, requests[r].trust)
        /\ requests[r].kind = "block" => /\ config'.blocked = requests[r].blocked
                                         /\ config'.trust = config.trust
    BY <1>10, <1>types DEF WriteConfig, Config
  <2>3. /\ requests'[r].kind = "none"
        /\ \A q \in Requests \ {r} :
             /\ requests'[q].kind = requests[q].kind
             /\ requests'[q].trust = requests[q].trust
             /\ requests'[q].blocked = requests[q].blocked
             /\ requests[q].kind = "check" => requests'[q].steady = FALSE
    BY <1>types, <2>1, UnsteadyRequests, DefaultTypes DEF Running
  <2>4. /\ Running("block")' = Running("block") \ {r}
        /\ Running("trust")' = Running("trust") \ {r}
        /\ Running("check")' \subseteq Requests \ {r}
    BY <2>3 DEF Running
  <2>5. \A kind : Running(kind) \subseteq Requests
    BY DEF Running
  <2>6. r \in Running(requests[r].kind)
    BY DEF Running
  <2>7. ListKept'
    BY <2>1, <2>2, <2>3, <2>4, <2>5, <2>6 DEF Policy, ListKept, Running
  <2>8. TrustKept'
    BY <2>1, <2>2, <2>3, <2>4, <2>5, <2>6 DEF Policy, TrustKept, Running
  <2>9. ChecksSteady'
    BY <2>3, <2>4 DEF ChecksSteady, Running
  <2>10. QED
    BY <2>7, <2>8, <2>9 DEF Policy
<1>11. ASSUME NEW r \in Requests, WriteFails(r)
       PROVE  Policy'
  <2>1. /\ Finish(r) /\ UNCHANGED <<config, meant>>
        /\ torn'.trust = (torn.trust \/ requests[r].kind = "trust")
        /\ torn'.list = (torn.list \/ requests[r].kind = "block")
    BY <1>11, <1>types DEF WriteFails, TornType
  <2>2. /\ \A q \in Requests \ {r} : requests'[q] = requests[q]
        /\ requests'[r].kind = "none"
    BY <1>finish, <2>1
  <2>3. \A kind : kind # "none" => Running(kind)' = Running(kind) \ {r}
    BY <2>2 DEF Running
  <2>4. /\ Running("block")' = Running("block") \ {r}
        /\ Running("trust")' = Running("trust") \ {r}
        /\ Running("check")' = Running("check") \ {r}
    BY <2>3
  <2>5. \A kind : Running(kind) \subseteq Requests
          /\ (r \in Running(kind) <=> requests[r].kind = kind)
    BY DEF Running
  <2>6. ListKept'
    <3> SUFFICES ASSUME ~torn'.list PROVE ListKept'
      BY DEF ListKept
    <3>1. ~torn.list /\ r \notin Running("block")
      BY <2>1, <2>5
    <3>2. Running("block")' = Running("block")
      BY <2>4, <3>1
    <3>3. \A q \in Running("block") : requests'[q] = requests[q]
      BY <2>2, <2>5, <3>1
    <3>4. QED
      BY <2>1, <3>1, <3>2, <3>3 DEF Policy, ListKept
  <2>7. TrustKept'
    <3> SUFFICES ASSUME ~torn'.trust PROVE TrustKept'
      BY DEF TrustKept
    <3>1. ~torn.trust /\ r \notin Running("trust")
      BY <2>1, <2>5
    <3>2. Running("trust")' = Running("trust")
      BY <2>4, <3>1
    <3>3. \A q \in Running("trust") : requests'[q] = requests[q]
      BY <2>2, <2>5, <3>1
    <3>4. QED
      BY <2>1, <3>1, <3>2, <3>3 DEF Policy, TrustKept
  <2>8. ChecksSteady'
    BY <2>1, <2>2, <2>4, <2>5 DEF Policy, ChecksSteady, ResolveTrust
  <2>9. QED
    BY <2>6, <2>7, <2>8 DEF Policy
<1>12. CASE UNCHANGED vars
  BY <1>12 DEF vars, Policy, ListKept, TrustKept, ChecksSteady, Running, ResolveTrust
<1>13. QED
  BY <1>1, <1>2, <1>3, <1>4, <1>5, <1>6, <1>7, <1>8, <1>9, <1>10, <1>11, <1>12 DEF Next, Step

LEMMA PolicyInvariant == Spec => [](IInv /\ Policy)
<1>1. Init => IInv /\ Policy
  BY InitIInv, InitPolicy
<1>2. IInv /\ Policy /\ [Next]_vars => (IInv /\ Policy)'
  BY StepIInv, StepPolicy
<1>3. QED
  BY <1>1, <1>2, PTL DEF Spec

\* The block list and the overrides are what the owner's requests amount to, each since it was
\* last replaced whole, updates of any fields among them.
THEOREM PolicyIsKept == Spec => []PolicyKept
<1>1. IInv /\ Policy => PolicyKept
  BY DEF Policy, ListKept, TrustKept, PolicyKept
<1>2. QED
  BY <1>1, PolicyInvariant, PTL

\* A check at work follows what the owner's requests amount to.
THEOREM ChecksFollow == Spec => []ChecksFollowPolicy
<1>1. IInv /\ Policy => ChecksFollowPolicy
  <2> SUFFICES ASSUME IInv, Policy, NEW r \in Running("check"), requests[r].steady
               PROVE  LET a == requests[r].pair[1] IN
                      /\ (~torn.list /\ Running("block") = {}) => a \notin meant.blocked
                      /\ (~torn.trust /\ Running("trust") = {} /\ a \notin meant.removed) =>
                           requests[r].level =
                             IF meant.trust[a] # 0 THEN meant.trust[a] ELSE config.public
    BY DEF ChecksFollowPolicy
  <2>1. requests[r].pair[1] \in Accessors
    BY DEF IInv, TypeOK, Running, Request, Pairs
  <2>2. QED
    BY <2>1 DEF Policy, ListKept, TrustKept, ChecksSteady, ResolveTrust
<1>2. QED
  BY <1>1, PolicyInvariant, PTL

=============================================================================

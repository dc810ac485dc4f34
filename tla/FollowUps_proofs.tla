--------------------------- MODULE FollowUps_proofs ---------------------------
(***************************************************************************)
(* Proofs about FollowUps, for any memories, scans, pages, limits of       *)
(* failures, endpoints and faults.  To the scans it does not matter what   *)
(* the bus does with a reminder, only that an emission comes first; that   *)
(* the bus keeps every event in one place is shown at the end.             *)
(***************************************************************************)
EXTENDS FollowUps, FiniteSetTheorems, SequenceTheorems, TLAPS

-----------------------------------------------------------------------------
(* The inductive invariants.                                               *)

Types ==
  /\ now \in 0..MaxTime
  /\ due \in [Memories -> Dates \cup {Never}]
  /\ notified \in [Memories -> 0..MaxTime \cup {Never}]
  /\ counts \in [Memories -> 0..MaxCount]
  /\ scans \in [Scans -> Scan]
  /\ failures \in 0..MaxFailures
  /\ reminded \in [Memories -> Dates \cup {Never}]
  /\ torn \in [twice : SUBSET Memories, never : SUBSET Memories]

\* What a scan has read, of a date that has come and a memory that has not
\* failed too often.
ReadOnce(c, time) ==
  /\ c.started <= time
  /\ c.phase = "idle" => c.todo = {}
  /\ c.phase \in {"idle", "emit"} => c.at = {}
  /\ c.phase \in {"mark", "count"} => \E m \in Memories : c.at = {m}
  /\ \A m \in c.todo \cup c.at :
       c.dates[m] \in Dates /\ c.dates[m] <= time /\ c.counts[m] < MaxCount

Scanned == Types /\ \A s \in Scans : ReadOnce(scans[s], now)

EditShape == editing \in [Editors -> Edit] /\ edits \in 0..MaxEdits

Shape == Scanned /\ EditShape

\* A date is given away and a mark set only when the date has come.
Past == \A m \in Memories : notified[m] <= now /\ reminded[m] <= now

\* So with the marks that edits have read.
PastRead == \A w \in Editors : editing[w].mark <= now

\* A scan knows the date of its memories, unless the owner moved it.
Dated ==
  \A s \in Scans : \A m \in Pending(s) \ torn.never :
    /\ scans[s].dates[m] = due[m]
    /\ In(s, "mark") /\ m \in scans[s].at => reminded[m] = due[m]

\* Two scans at work on a memory are on record.
Met == \A s, t \in Scans : s # t => Pending(s) \cap Pending(t) \subseteq torn.twice

\* A reminder that is out is marked, or is about to be.
Remembered ==
  \A m \in Memories \ torn.twice :
    (reminded[m] # Never /\ reminded[m] = due[m]) =>
      notified[m] >= due[m] \/ \E s \in Scans : In(s, "mark") /\ m \in scans[s].at

\* What a scan is still to emit is not out.
Unsaid ==
  \A s \in Scans : \A m \in scans[s].todo \ torn.twice : reminded[m] # scans[s].dates[m]


-----------------------------------------------------------------------------
(* What the steps of a scan do to it.                                      *)

LEMMA Limits ==
  /\ MaxCount \in Nat /\ MaxTime \in Nat \ {0} /\ MaxFailures \in Nat
  /\ MaxEdits \in Nat /\ Edited \subseteq Memories
  /\ Never \notin Dates /\ Never \in Int /\ Never < 0 /\ Dates \subseteq Nat \ {0}
BY FollowUpsAssumption DEF Never, Dates

LEMMA IdleType ==
  /\ IdleScan \in Scan
  /\ IdleScan.phase = "idle" /\ IdleScan.todo = {} /\ IdleScan.at = {}
  /\ IdleScan.started = 0
<1>1. [m \in Memories |-> Never] \in [Memories -> Dates \cup {Never}]
  OBVIOUS
<1>2. [m \in Memories |-> 0] \in [Memories -> Nat]
  OBVIOUS
<1>3. QED
  BY <1>1, <1>2, Limits DEF IdleScan, Scan, Phases

\* The scan at work is replaced, the others stay.
LEMMA Replaced ==
  ASSUME Types, NEW s \in Scans, NEW new \in Scan, scans' = [scans EXCEPT ![s] = new]
  PROVE  scans' \in [Scans -> Scan] /\ scans'[s] = new
         /\ \A t \in Scans \ {s} : scans'[t] = scans[t]
BY DEF Types

LEMMA Emptied ==
  ASSUME Types, NEW s \in Scans, scans' = [scans EXCEPT ![s] = IdleScan]
  PROVE  /\ scans' \in [Scans -> Scan] /\ \A t \in Scans \ {s} : scans'[t] = scans[t]
         /\ scans'[s].phase = "idle" /\ scans'[s].todo = {} /\ scans'[s].at = {}
         /\ scans'[s].started = 0
BY IdleType, Replaced

\* A query starts a list of memories with the dates they have.
LEMMA Queried ==
  ASSUME Types, NEW s \in Scans, NEW query \in {"first", "second"}, NEW time \in 0..MaxTime,
         Query(s, query, time)
  PROVE  /\ scans' \in [Scans -> Scan] /\ \A t \in Scans \ {s} : scans'[t] = scans[t]
         /\ scans'[s].phase = "emit" /\ scans'[s].at = {} /\ scans'[s].started = time
         /\ scans'[s].todo \subseteq Memories
         /\ \A m \in scans'[s].todo :
              /\ due[m] \in Dates /\ due[m] <= time /\ counts[m] < MaxCount
              /\ notified[m] = Never \/ due[m] > notified[m]
              /\ scans'[s].dates[m] = due[m] /\ scans'[s].counts[m] = counts[m]
         /\ torn' \in [twice : SUBSET Memories, never : SUBSET Memories]
         /\ torn'.never = torn.never /\ torn.twice \subseteq torn'.twice
         /\ \A t \in Scans \ {s} : scans'[s].todo \cap Pending(t) \subseteq torn'.twice
<1> DEFINE found == Found(query, time)
           new == [phase |-> "emit", query |-> query, started |-> time, todo |-> found,
                   at |-> {}, dates |-> Keep(found, due, Never), counts |-> Keep(found, counts, 0)]
           met == found \cap UNION {Pending(t) : t \in Scans \ {s}}
<1>1. found \subseteq Memories
  BY DEF Found, FirstPage, Matching
<1>2. ASSUME NEW m \in found
      PROVE  /\ due[m] \in Dates /\ due[m] <= time /\ counts[m] < MaxCount
             /\ notified[m] = Never \/ due[m] > notified[m]
  <2>1. m \in Matching(query, time) /\ (query = "first" \/ DueAgain(m))
    BY <1>2 DEF Found, FirstPage
  <2>2. m \in Memories /\ due[m] # Never /\ due[m] <= time /\ counts[m] < MaxCount
    BY <2>1 DEF Matching
  <2>3. notified[m] = Never \/ due[m] > notified[m]
    BY <2>1 DEF Matching, DueAgain
  <2>4. QED
    BY <2>2, <2>3 DEF Types
<1>3. scans' = [scans EXCEPT ![s] = new] /\ torn' = [torn EXCEPT !.twice = @ \cup met]
  BY DEF Query
<1>4. /\ Keep(found, due, Never) \in [Memories -> Dates \cup {Never}]
      /\ Keep(found, counts, 0) \in [Memories -> Nat]
      /\ \A m \in found : /\ Keep(found, due, Never)[m] = due[m]
                          /\ Keep(found, counts, 0)[m] = counts[m]
  BY <1>1, Limits DEF Keep, Types
<1>5. new \in Scan
  BY <1>1, <1>4 DEF Scan, Phases
<1>6. \A t \in Scans \ {s} : found \cap Pending(t) \subseteq met
  OBVIOUS
<1>7. met \subseteq Memories
  BY <1>1
<1>8. /\ new.phase = "emit" /\ new.at = {} /\ new.started = time /\ new.todo = found
      /\ new.dates = Keep(found, due, Never) /\ new.counts = Keep(found, counts, 0)
  OBVIOUS
<1> HIDE DEF new, found, met
<1>9. /\ scans' \in [Scans -> Scan] /\ scans'[s] = new
      /\ \A t \in Scans \ {s} : scans'[t] = scans[t]
  BY <1>3, <1>5, Replaced
<1>10. /\ torn' \in [twice : SUBSET Memories, never : SUBSET Memories]
       /\ torn'.never = torn.never /\ torn'.twice = torn.twice \cup met
  BY <1>3, <1>7 DEF Types
<1>11. QED
  BY <1>1, <1>2, <1>4, <1>6, <1>8, <1>9, <1>10

\* A memory is taken from the list, and its reminder goes out or fails.
LEMMA TakenUp ==
  ASSUME Types, NEW s \in Scans, EmitReminder(s)
  PROVE  /\ scans[s].phase = "emit" /\ scans' \in [Scans -> Scan]
         /\ \A t \in Scans \ {s} : scans'[t] = scans[t]
         /\ \E m \in scans[s].todo :
              /\ m \in Memories
              /\ scans'[s].at = {m} /\ scans'[s].todo = scans[s].todo \ {m}
              /\ scans'[s].started = scans[s].started /\ scans'[s].dates = scans[s].dates
              /\ scans'[s].counts = scans[s].counts
              /\ \/ /\ scans'[s].phase = "mark"
                    /\ reminded' = [reminded EXCEPT ![m] = scans[s].dates[m]]
                    /\ UNCHANGED failures
                 \/ scans'[s].phase = "count" /\ UNCHANGED reminded /\ Fail
<1>1. PICK m \in scans[s].todo :
        \/ /\ scans' = [scans EXCEPT ![s].phase = "mark", ![s].at = {m}, ![s].todo = @ \ {m}]
           /\ reminded' = [reminded EXCEPT ![m] = scans[s].dates[m]]
           /\ UNCHANGED failures
        \/ /\ scans' = [scans EXCEPT ![s].phase = "count", ![s].at = {m}, ![s].todo = @ \ {m}]
           /\ UNCHANGED reminded /\ Fail
  BY DEF EmitReminder
<1>2. scans[s] \in Scan /\ m \in Memories
  BY DEF Types, Scan
<1>3. ASSUME NEW phase \in {"mark", "count"},
             scans' = [scans EXCEPT ![s].phase = phase, ![s].at = {m}, ![s].todo = @ \ {m}]
      PROVE  /\ scans' \in [Scans -> Scan] /\ \A t \in Scans \ {s} : scans'[t] = scans[t]
             /\ scans'[s].phase = phase
             /\ scans'[s].at = {m} /\ scans'[s].todo = scans[s].todo \ {m}
             /\ scans'[s].started = scans[s].started /\ scans'[s].dates = scans[s].dates
             /\ scans'[s].counts = scans[s].counts
  <2> DEFINE new == [scans[s] EXCEPT !.phase = phase, !.at = {m}, !.todo = @ \ {m}]
  <2>1. new \in Scan
    BY <1>2 DEF Scan, Phases
  <2>2. scans' = [scans EXCEPT ![s] = new]
    BY <1>2, <1>3 DEF Types, Scan
  <2>3. /\ new.phase = phase /\ new.at = {m} /\ new.todo = scans[s].todo \ {m}
        /\ new.started = scans[s].started /\ new.dates = scans[s].dates
        /\ new.counts = scans[s].counts
    BY <1>2 DEF Scan
  <2> HIDE DEF new
  <2>4. QED
    BY <2>1, <2>2, <2>3, Replaced
<1>4. scans[s].phase = "emit"
  BY DEF EmitReminder, In
<1>5. CASE /\ scans' = [scans EXCEPT ![s].phase = "mark", ![s].at = {m}, ![s].todo = @ \ {m}]
           /\ reminded' = [reminded EXCEPT ![m] = scans[s].dates[m]]
           /\ UNCHANGED failures
  BY <1>2, <1>3, <1>4, <1>5
<1>6. CASE /\ scans' = [scans EXCEPT ![s].phase = "count", ![s].at = {m}, ![s].todo = @ \ {m}]
           /\ UNCHANGED reminded /\ Fail
  BY <1>2, <1>3, <1>4, <1>6
<1>7. QED
  BY <1>1, <1>5, <1>6

\* The scan goes on with the rest of its list.
LEMMA WentOn ==
  ASSUME Types, NEW s \in Scans, Proceed(s)
  PROVE  /\ scans' \in [Scans -> Scan] /\ \A t \in Scans \ {s} : scans'[t] = scans[t]
         /\ scans'[s].phase = "emit" /\ scans'[s].at = {}
         /\ scans'[s].todo = scans[s].todo /\ scans'[s].started = scans[s].started
         /\ \A m \in scans[s].todo : /\ scans'[s].dates[m] = scans[s].dates[m]
                                     /\ scans'[s].counts[m] = scans[s].counts[m]
<1> DEFINE dates == Keep(scans[s].todo, scans[s].dates, Never)
           left == Keep(scans[s].todo, scans[s].counts, 0)
           new == [scans[s] EXCEPT !.phase = "emit", !.at = {}, !.dates = dates, !.counts = left]
<1>1. scans[s] \in Scan
  BY DEF Types
<1>2. /\ dates \in [Memories -> Dates \cup {Never}] /\ left \in [Memories -> Nat]
      /\ \A m \in scans[s].todo : dates[m] = scans[s].dates[m] /\ left[m] = scans[s].counts[m]
  BY <1>1 DEF Keep, Scan
<1>3. scans' = [scans EXCEPT ![s] = new]
  BY DEF Proceed
<1> HIDE DEF dates, left
<1>4. new \in Scan
  BY <1>1, <1>2 DEF Scan, Phases
<1>5. /\ new.phase = "emit" /\ new.at = {} /\ new.todo = scans[s].todo
      /\ new.started = scans[s].started /\ new.dates = dates /\ new.counts = left
  BY <1>1 DEF Scan
<1> HIDE DEF new
<1>6. QED
  BY <1>2, <1>3, <1>4, <1>5, Replaced

\* A failing mark leaves the memory to be counted, and on record.
LEMMA Unmarked ==
  ASSUME Types, NEW s \in Scans, MarkFails(s)
  PROVE  /\ scans' \in [Scans -> Scan] /\ \A t \in Scans \ {s} : scans'[t] = scans[t]
         /\ scans[s].phase = "mark" /\ scans'[s].phase = "count" /\ scans'[s].at = scans[s].at
         /\ scans'[s].todo = scans[s].todo /\ scans'[s].started = scans[s].started
         /\ scans'[s].dates = scans[s].dates /\ scans'[s].counts = scans[s].counts
         /\ torn' \in [twice : SUBSET Memories, never : SUBSET Memories]
         /\ torn'.never = torn.never /\ torn'.twice = torn.twice \cup scans[s].at
<1> DEFINE new == [scans[s] EXCEPT !.phase = "count"]
<1>1. scans[s] \in Scan
  BY DEF Types
<1>2. scans' = [scans EXCEPT ![s] = new]
  BY DEF MarkFails
<1>3. new \in Scan
  BY <1>1 DEF Scan, Phases
<1>4. /\ new.phase = "count" /\ new.at = scans[s].at /\ new.todo = scans[s].todo
      /\ new.started = scans[s].started /\ new.dates = scans[s].dates
      /\ new.counts = scans[s].counts
  BY <1>1 DEF Scan
<1> HIDE DEF new
<1>5. scans[s].at \subseteq Memories
  BY <1>1 DEF Scan
<1>6. /\ torn' \in [twice : SUBSET Memories, never : SUBSET Memories]
      /\ torn'.never = torn.never /\ torn'.twice = torn.twice \cup scans[s].at
  BY <1>5 DEF MarkFails, Types
<1>7. QED
  BY <1>2, <1>3, <1>4, <1>6, Replaced DEF MarkFails, In

\* What an edit puts on record.
LEMMA Torn ==
  ASSUME Types, NEW m \in Memories, NEW date, NEW mark, Tear(m, date, mark)
  PROVE  /\ torn' \in [twice : SUBSET Memories, never : SUBSET Memories]
         /\ torn.never \ {m} \subseteq torn'.never /\ torn.twice \ {m} \subseteq torn'.twice
         /\ \A s \in Scans : m \in Pending(s) =>
              /\ torn.never \subseteq torn'.never /\ torn.twice \subseteq torn'.twice
              /\ date # due[m] => m \in torn'.never
         /\ (reminded[m] # date /\ date # Never /\ date <= mark) => m \in torn'.never
         /\ (reminded[m] = date /\ mark < date) =>
              m \in torn'.twice \/ \E s \in Scans : In(s, "mark") /\ m \in scans[s].at
BY DEF Tear, Types

\* An edit rewrites one memory, with a mark that is past.
LEMMA Written ==
  ASSUME Shape, NEW w \in Editors, FinishEdit(w)
  PROVE  \E m \in Memories, date \in Dates \cup {Never} :
           /\ due' = [due EXCEPT ![m] = date]
           /\ notified' = [notified EXCEPT ![m] = editing[w].mark]
           /\ editing[w].mark \in 0..MaxTime \cup {Never}
           /\ counts' \in [Memories -> 0..MaxCount]
           /\ Tear(m, date, editing[w].mark)
           /\ UNCHANGED <<now, scans, failures, reminded>>
<1>1. PICK m \in editing[w].at, date \in Dates \cup {Never, editing[w].date} :
        /\ due' = [due EXCEPT ![m] = date]
        /\ notified' = [notified EXCEPT ![m] = editing[w].mark]
        /\ counts' = [counts EXCEPT ![m] = editing[w].count]
        /\ Tear(m, date, editing[w].mark)
        /\ UNCHANGED <<now, scans, failures, reminded>>
  BY DEF FinishEdit
<1>2. editing[w] \in Edit
  BY DEF Shape, EditShape
<1>3. /\ m \in Memories /\ date \in Dates \cup {Never} /\ editing[w].count \in 0..MaxCount
      /\ editing[w].mark \in 0..MaxTime \cup {Never}
  BY <1>1, <1>2 DEF Edit
<1>4. counts' \in [Memories -> 0..MaxCount]
  BY <1>1, <1>3 DEF Shape, Scanned, Types
<1>5. QED
  BY <1>1, <1>3, <1>4

\* A scan that queries has nothing to do any more; it gets a list, or ends.
LEMMA Querying ==
  ASSUME Shape, NEW s \in Scans, StartScan(s) \/ QueryNotified(s)
  PROVE  /\ scans[s].phase # "mark" /\ scans[s].todo = {} /\ scans[s].at = {}
         /\ UNCHANGED <<now, memoryVars, reminded>>
         /\ \/ /\ UNCHANGED failures
               /\ \E query \in {"first", "second"}, time \in 0..MaxTime :
                    time <= now /\ Query(s, query, time)
            \/ Fail /\ scans' = [scans EXCEPT ![s] = IdleScan] /\ UNCHANGED torn
<1>1. now \in 0..MaxTime /\ scans[s].started \in 0..MaxTime /\ ReadOnce(scans[s], now)
  BY DEF Shape, Scanned, Types, Scan
<1>2. CASE StartScan(s)
  <2>1. Query(s, "first", now) \/ QueryFails(s)
    BY <1>2 DEF StartScan
  <2>2. /\ scans[s].phase = "idle" /\ scans[s].todo = {} /\ scans[s].at = {}
        /\ UNCHANGED <<now, memoryVars, reminded>>
    BY <1>1, <1>2 DEF StartScan, In, ReadOnce
  <2>3. now <= now
    BY <1>1
  <2>4. QED
    BY <1>1, <2>1, <2>2, <2>3 DEF Query, QueryFails
<1>3. CASE QueryNotified(s)
  <2>1. Query(s, "second", scans[s].started) \/ QueryFails(s)
    BY <1>3 DEF QueryNotified
  <2>2. /\ scans[s].phase = "emit" /\ scans[s].todo = {} /\ scans[s].at = {}
        /\ UNCHANGED <<now, memoryVars, reminded>>
    BY <1>1, <1>3 DEF QueryNotified, In, ReadOnce
  <2>3. scans[s].started <= now
    BY <1>1 DEF ReadOnce
  <2>4. QED
    BY <1>1, <2>1, <2>2, <2>3 DEF Query, QueryFails
<1>4. QED
  BY <1>2, <1>3

\* The end of a scan is like a query that finds nothing and fails.
LEMMA Ending ==
  ASSUME Shape, NEW s \in Scans, EndScan(s)
  PROVE  /\ scans[s].phase # "mark" /\ scans[s].todo = {} /\ scans[s].at = {}
         /\ scans' = [scans EXCEPT ![s] = IdleScan]
         /\ UNCHANGED <<now, memoryVars, failures, reminded, torn>>
BY DEF EndScan, In, Shape, Scanned, ReadOnce, history

-----------------------------------------------------------------------------
(* The types, and what a scan has read.                                    *)

LEMMA InitShape == Init => Shape
<1> SUFFICES ASSUME Init PROVE Shape
  OBVIOUS
<1>1. /\ now = 0 /\ now \in 0..MaxTime /\ failures \in 0..MaxFailures
      /\ due \in [Memories -> Dates \cup {Never}]
  BY Limits DEF Init, Dates
<1>2. /\ notified \in [Memories -> 0..MaxTime \cup {Never}]
      /\ counts \in [Memories -> 0..MaxCount]
      /\ reminded \in [Memories -> Dates \cup {Never}]
      /\ torn \in [twice : SUBSET Memories, never : SUBSET Memories]
  BY Limits DEF Init
<1>3. scans \in [Scans -> Scan] /\ \A s \in Scans : ReadOnce(scans[s], now)
  BY <1>1, IdleType DEF Init, ReadOnce
<1>4. EditShape
  <2>1. NoEdit \in Edit /\ 0 \in 0..MaxEdits
    BY Limits DEF NoEdit, Edit
  <2>2. QED
    BY <2>1 DEF Init, EditShape
<1>5. QED
  BY <1>1, <1>2, <1>3, <1>4 DEF Shape, Scanned, Types

LEMMA StepScanned == Shape /\ [Next]_vars => Scanned'
<1> SUFFICES ASSUME Shape, [Next]_vars PROVE Scanned'
  OBVIOUS
<1>types. /\ Types /\ now \in 0..MaxTime
          /\ due \in [Memories -> Dates \cup {Never}]
          /\ notified \in [Memories -> 0..MaxTime \cup {Never}]
          /\ counts \in [Memories -> 0..MaxCount]
          /\ scans \in [Scans -> Scan] /\ failures \in 0..MaxFailures
          /\ reminded \in [Memories -> Dates \cup {Never}]
          /\ torn \in [twice : SUBSET Memories, never : SUBSET Memories]
          /\ \A s \in Scans : ReadOnce(scans[s], now)
  BY DEF Shape, Scanned, Types
<1>fail. ASSUME Fail
         PROVE  failures' \in 0..MaxFailures
  BY <1>fail, <1>types, Limits DEF Fail
\* The scan at work has read what it should; the others are as they were.
<1>others. ASSUME NEW s \in Scans, \A t \in Scans \ {s} : scans'[t] = scans[t],
                  ReadOnce(scans'[s], now), now' = now
           PROVE  \A t \in Scans : ReadOnce(scans'[t], now')
  BY <1>types, <1>others
<1>emptied. ASSUME NEW s \in Scans, scans' = [scans EXCEPT ![s] = IdleScan],
                   UNCHANGED <<now, memoryVars, reminded, torn>>, failures' \in 0..MaxFailures
            PROVE  Scanned'
  <2>1. ReadOnce(scans'[s], now)
    <3>1. /\ scans'[s].phase = "idle" /\ scans'[s].todo = {} /\ scans'[s].at = {}
          /\ scans'[s].started = 0
      BY <1>types, <1>emptied, Emptied
    <3>2. 0 <= now
      BY <1>types
    <3>3. QED
      BY <3>1, <3>2 DEF ReadOnce
  <2>2. scans' \in [Scans -> Scan] /\ \A t \in Scans : ReadOnce(scans'[t], now')
    BY <1>types, <1>others, <1>emptied, <2>1, Emptied
  <2>3. QED
    BY <1>types, <1>emptied, <2>2 DEF Shape, Scanned, Types, memoryVars
<1>1. ASSUME NEW s \in Scans, StartScan(s) \/ QueryNotified(s)
      PROVE  Scanned'
  <2>1. ASSUME NEW query \in {"first", "second"}, NEW time \in 0..MaxTime, time <= now,
               Query(s, query, time), UNCHANGED failures
        PROVE  Scanned'
    <3>1. /\ scans'[s].phase = "emit" /\ scans'[s].at = {} /\ scans'[s].started = time
          /\ \A m \in scans'[s].todo :
               /\ m \in Memories /\ due[m] \in Dates /\ due[m] <= time /\ counts[m] < MaxCount
               /\ scans'[s].dates[m] = due[m] /\ scans'[s].counts[m] = counts[m]
      BY <1>types, <2>1, Queried
    <3>2. ASSUME NEW m \in scans'[s].todo
          PROVE  scans'[s].dates[m] \in Dates /\ scans'[s].dates[m] <= now
                 /\ scans'[s].counts[m] < MaxCount
      <4>1. due[m] \in Nat /\ time \in Nat /\ now \in Nat
        <5>1. due[m] \in Dates
          BY <3>1, <3>2
        <5>2. time \in Nat /\ now \in Nat
          BY <1>types, <2>1
        <5>3. QED
          BY <5>1, <5>2, Limits
      <4>2. due[m] <= time
        BY <3>1, <3>2
      <4>3. due[m] <= now
        BY <2>1, <4>1, <4>2
      <4>4. QED
        BY <3>1, <3>2, <4>3
    <3>3. ReadOnce(scans'[s], now)
      BY <2>1, <3>1, <3>2 DEF ReadOnce
    <3>4. scans' \in [Scans -> Scan] /\ \A t \in Scans : ReadOnce(scans'[t], now')
      BY <1>1, <1>types, <1>others, <2>1, <3>3, Queried, Querying
    <3>5. torn' \in [twice : SUBSET Memories, never : SUBSET Memories]
      BY <1>types, <2>1, Queried
    <3>6. UNCHANGED <<now, memoryVars, reminded>>
      BY <1>1, Querying
    <3>7. QED
      BY <1>types, <2>1, <3>4, <3>5, <3>6 DEF Shape, Scanned, Types, memoryVars
  <2>2. QED
    BY <1>1, <1>emptied, <1>fail, <2>1, Querying
<1>2. ASSUME NEW s \in Scans, EndScan(s)
      PROVE  Scanned'
  BY <1>2, <1>types, <1>emptied, Ending
<1>3. ASSUME NEW s \in Scans, EmitReminder(s)
      PROVE  Scanned'
  <2>1. PICK m \in scans[s].todo :
          /\ m \in Memories
          /\ scans'[s].at = {m} /\ scans'[s].todo = scans[s].todo \ {m}
          /\ scans'[s].started = scans[s].started /\ scans'[s].dates = scans[s].dates
          /\ scans'[s].counts = scans[s].counts
          /\ \/ /\ scans'[s].phase = "mark"
                /\ reminded' = [reminded EXCEPT ![m] = scans[s].dates[m]]
                /\ UNCHANGED failures
             \/ scans'[s].phase = "count" /\ UNCHANGED reminded /\ Fail
    BY <1>3, <1>types, TakenUp
  <2>2. /\ scans' \in [Scans -> Scan] /\ \A t \in Scans \ {s} : scans'[t] = scans[t]
        /\ UNCHANGED <<now, memoryVars, torn>>
    BY <1>3, <1>types, TakenUp DEF EmitReminder
  <2>3. scans[s].dates[m] \in Dates
    BY <1>types, <2>1 DEF ReadOnce
  <2>4. ReadOnce(scans'[s], now)
    BY <1>types, <2>1 DEF ReadOnce
  <2>5. \A t \in Scans : ReadOnce(scans'[t], now')
    BY <1>others, <2>2, <2>4
  <2>6. reminded' \in [Memories -> Dates \cup {Never}]
    BY <1>types, <2>1, <2>3
  <2>7. failures' \in 0..MaxFailures
    BY <1>types, <1>fail, <2>1
  <2>8. QED
    BY <1>types, <2>2, <2>5, <2>6, <2>7 DEF Shape, Scanned, Types, memoryVars
<1>went. ASSUME NEW s \in Scans, Proceed(s), UNCHANGED now
         PROVE  scans' \in [Scans -> Scan] /\ \A t \in Scans : ReadOnce(scans'[t], now')
  <2>1. ReadOnce(scans'[s], now)
    BY <1>types, <1>went, WentOn DEF ReadOnce
  <2>2. QED
    BY <1>types, <1>others, <1>went, <2>1, WentOn
<1>4. ASSUME NEW s \in Scans, Mark(s)
      PROVE  Scanned'
  <2>1. PICK m \in scans[s].at :
          notified' = [notified EXCEPT ![m] = now] /\ counts' = [counts EXCEPT ![m] = 0]
    BY <1>4 DEF Mark
  <2>2. /\ notified' \in [Memories -> 0..MaxTime \cup {Never}]
        /\ counts' \in [Memories -> 0..MaxCount]
    <3>1. m \in Memories
      BY <1>types DEF Scan
    <3>2. 0 \in 0..MaxCount
      BY Limits
    <3>3. QED
      BY <1>types, <2>1, <3>1, <3>2
  <2>3. UNCHANGED <<now, due, failures, reminded, torn>> /\ Proceed(s)
    BY <1>4 DEF Mark, history
  <2>4. QED
    BY <1>types, <1>went, <2>2, <2>3 DEF Shape, Scanned, Types
<1>5. ASSUME NEW s \in Scans, MarkFails(s)
      PROVE  Scanned'
  <2>1. ReadOnce(scans'[s], now)
    BY <1>5, <1>types, Unmarked DEF ReadOnce
  <2>2. UNCHANGED <<now, memoryVars, reminded>> /\ Fail
    BY <1>5 DEF MarkFails
  <2>3. scans' \in [Scans -> Scan] /\ \A t \in Scans : ReadOnce(scans'[t], now')
    BY <1>5, <1>types, <1>others, <2>1, <2>2, Unmarked
  <2>4. torn' \in [twice : SUBSET Memories, never : SUBSET Memories]
    BY <1>5, <1>types, Unmarked
  <2>5. QED
    BY <1>types, <1>fail, <2>2, <2>3, <2>4 DEF Shape, Scanned, Types, memoryVars
<1>6. ASSUME NEW s \in Scans, Count(s)
      PROVE  Scanned'
  <2>1. UNCHANGED <<now, due, notified, reminded, torn>> /\ Proceed(s)
    BY <1>6 DEF Count, history
  <2>2. counts' \in [Memories -> 0..MaxCount] /\ failures' \in 0..MaxFailures
    <3>1. ASSUME NEW m \in scans[s].at, counts' = [counts EXCEPT ![m] = scans[s].counts[m] + 1]
          PROVE  counts' \in [Memories -> 0..MaxCount]
      <4>1. m \in Memories /\ scans[s].counts[m] \in Nat
        BY <1>types DEF Scan
      <4>2. scans[s].counts[m] < MaxCount
        BY <1>types DEF ReadOnce
      <4>3. scans[s].counts[m] + 1 \in 0..MaxCount
        BY <4>1, <4>2, Limits
      <4>4. QED
        BY <1>types, <3>1, <4>3
    <3>2. \/ (\E m \in scans[s].at : counts' = [counts EXCEPT ![m] = scans[s].counts[m] + 1])
             /\ UNCHANGED failures
          \/ Fail /\ UNCHANGED counts
      BY <1>6 DEF Count
    <3>3. QED
      BY <1>types, <1>fail, <3>1, <3>2
  <2>3. QED
    BY <1>types, <1>went, <2>1, <2>2 DEF Shape, Scanned, Types
<1>7. CASE Bus
  BY <1>7 DEF Bus, memoryVars, history, Shape, Scanned, Types
<1>8. ASSUME NEW w \in Editors, FinishEdit(w)
      PROVE  Scanned'
  <2>1. PICK m \in Memories, date \in Dates \cup {Never} :
          /\ due' = [due EXCEPT ![m] = date]
          /\ notified' = [notified EXCEPT ![m] = editing[w].mark]
          /\ editing[w].mark \in 0..MaxTime \cup {Never}
          /\ counts' \in [Memories -> 0..MaxCount]
          /\ Tear(m, date, editing[w].mark)
          /\ UNCHANGED <<now, scans, failures, reminded>>
    BY <1>8, Written
  <2>2. torn' \in [twice : SUBSET Memories, never : SUBSET Memories]
    BY <1>types, <2>1, Torn
  <2>3. /\ due' \in [Memories -> Dates \cup {Never}]
        /\ notified' \in [Memories -> 0..MaxTime \cup {Never}]
    BY <1>types, <2>1
  <2>4. QED
    BY <1>types, <2>1, <2>2, <2>3 DEF Shape, Scanned, Types
<1>12. ASSUME NEW w \in Editors, NEW m \in Memories, StartEdit(w, m)
       PROVE  Scanned'
  BY <1>12 DEF StartEdit, memoryVars, history, Shape, Scanned, Types
<1>9. CASE Tick
  <2>1. UNCHANGED <<due, notified, counts, scans, failures, reminded, torn>> /\ now' = now + 1
        /\ now < MaxTime
    BY <1>9 DEF Tick, memoryVars, history
  <2>2. now' \in 0..MaxTime /\ now <= now'
    BY <1>types, <2>1, Limits
  <2>3. ASSUME NEW s \in Scans
        PROVE  ReadOnce(scans[s], now')
    <3>1. ReadOnce(scans[s], now) /\ scans[s].started \in Nat
      BY <1>types, Limits DEF Scan
    <3>2. now \in Nat /\ now' \in Nat /\ Dates \subseteq Nat
      BY <1>types, <2>2, Limits
    <3>3. \A m \in scans[s].todo \cup scans[s].at :
            scans[s].dates[m] \in Dates /\ scans[s].dates[m] <= now
      BY <3>1 DEF ReadOnce
    <3>4. ASSUME NEW m \in scans[s].todo \cup scans[s].at
          PROVE  scans[s].dates[m] <= now'
      <4>1. scans[s].dates[m] \in Nat /\ scans[s].dates[m] <= now
        BY <3>2, <3>3, <3>4
      <4>2. QED
        BY <2>2, <3>2, <4>1
    <3>5. scans[s].started <= now'
      BY <2>2, <3>1, <3>2 DEF ReadOnce
    <3>6. QED
      BY <3>1, <3>4, <3>5 DEF ReadOnce
  <2>4. QED
    BY <1>types, <2>1, <2>2, <2>3 DEF Shape, Scanned, Types
<1>10. CASE Die
  <2>1. UNCHANGED <<now, due, notified, counts, reminded>> /\ Fail
    BY <1>10 DEF Die, memoryVars
  <2>2. scans' = [s \in Scans |-> IdleScan]
    BY <1>10 DEF Die
  <2>3. torn' = [torn EXCEPT !.twice = @ \cup UNION {scans[s].at : s \in Scans}]
    BY <1>10 DEF Die
  <2>4. UNION {scans[s].at : s \in Scans} \subseteq Memories
    BY <1>types DEF Scan
  <2>5. torn' \in [twice : SUBSET Memories, never : SUBSET Memories]
    BY <1>types, <2>3, <2>4
  <2>6. scans' \in [Scans -> Scan] /\ \A s \in Scans : ReadOnce(scans'[s], now')
    BY <1>types, <2>1, <2>2, IdleType DEF ReadOnce
  <2>7. QED
    BY <1>types, <1>fail, <2>1, <2>5, <2>6 DEF Shape, Scanned, Types
<1>11. CASE UNCHANGED vars
  BY <1>11 DEF vars, memoryVars, history, Shape, Scanned, Types
<1>13. QED
  BY <1>1, <1>2, <1>3, <1>4, <1>5, <1>6, <1>7, <1>8, <1>9, <1>10, <1>11, <1>12, Limits
     DEF Next, ScanStep

------------------------------------------------------------------
LEMMA StepEdits == Shape /\ [Next]_vars => EditShape'
<1> SUFFICES ASSUME Shape, [Next]_vars PROVE EditShape'
  OBVIOUS
<1>types. /\ editing \in [Editors -> Edit] /\ edits \in 0..MaxEdits
          /\ due \in [Memories -> Dates \cup {Never}]
          /\ notified \in [Memories -> 0..MaxTime \cup {Never}]
          /\ counts \in [Memories -> 0..MaxCount]
  BY DEF Shape, Scanned, EditShape, Types
<1>1. NoEdit \in Edit /\ NoEdit \in [at : {{}}, date : {Never}, mark : {Never}, count : {0}]
  BY Limits DEF NoEdit, Edit
<1>2. ASSUME NEW w \in Editors, NEW m \in Memories, StartEdit(w, m)
      PROVE  EditShape'
  <2>1. edits' \in 0..MaxEdits
    BY <1>2, <1>types, Limits DEF StartEdit
  <2>2. [NoEdit EXCEPT !.at = {m}] \in Edit
    BY <1>1 DEF Edit
  <2>3. [at |-> {m}, date |-> due[m], mark |-> notified[m], count |-> counts[m]] \in Edit
    BY <1>types DEF Edit
  <2>4. QED
    BY <1>2, <1>types, <2>1, <2>2, <2>3 DEF StartEdit, EditShape
<1>3. ASSUME NEW w \in Editors, FinishEdit(w)
      PROVE  EditShape'
  BY <1>1, <1>3, <1>types DEF FinishEdit, EditShape
<1>4. CASE UNCHANGED owner
  BY <1>4, <1>types DEF owner, EditShape
<1>5. QED
  BY <1>2, <1>3, <1>4, Limits DEF Next, ScanStep, StartScan, QueryNotified, EndScan, EmitReminder,
     Mark, MarkFails, Count, Bus, Tick, Die, vars, owner

LEMMA StepShape == Shape /\ [Next]_vars => Shape'
BY StepScanned, StepEdits DEF Shape

-----------
(* No mark without the reminder.                                           *)

LEMMA InitPast == Init => Past /\ PastRead /\ Dated /\ NeverSilenced /\ Met /\ Remembered /\ Unsaid
<1> SUFFICES ASSUME Init
             PROVE  Past /\ PastRead /\ Dated /\ NeverSilenced /\ Met /\ Remembered /\ Unsaid
  OBVIOUS
<1>1. \A s \in Scans : Pending(s) = {} /\ scans[s].todo = {} /\ scans[s].at = {}
  BY IdleType DEF Init, Pending
<1>2. \A m \in Memories : notified[m] = Never /\ reminded[m] = Never
  BY DEF Init
<1>3. now = 0 /\ Never <= now
  BY Limits DEF Init
<1>4. PastRead
  BY <1>3 DEF Init, NoEdit, PastRead
<1>5. QED
  BY <1>1, <1>2, <1>3, <1>4 DEF Past, Dated, NeverSilenced, Met, Remembered, Unsaid

LEMMA StepPast == Shape /\ Past /\ PastRead /\ [Next]_vars => Past'
<1> SUFFICES ASSUME Shape, Past, PastRead, [Next]_vars PROVE Past'
  OBVIOUS
<1>types. /\ Types /\ now \in Nat /\ scans \in [Scans -> Scan]
          /\ notified \in [Memories -> 0..MaxTime \cup {Never}]
          /\ reminded \in [Memories -> Dates \cup {Never}]
  BY DEF Shape, Scanned, Types
<1>same. ASSUME UNCHANGED <<now, notified, reminded>>
         PROVE  Past'
  BY <1>same DEF Past
<1>1. ASSUME NEW s \in Scans, StartScan(s) \/ QueryNotified(s)
      PROVE  Past'
  BY <1>1, <1>same, Querying DEF memoryVars
<1>2. ASSUME NEW s \in Scans, EndScan(s)
      PROVE  Past'
  BY <1>2, <1>same, Ending DEF memoryVars
<1>3. ASSUME NEW s \in Scans, EmitReminder(s)
      PROVE  Past'
  <2>1. UNCHANGED <<now, notified>>
    BY <1>3 DEF EmitReminder, memoryVars
  <2>2. PICK m \in scans[s].todo :
          m \in Memories /\ (\/ reminded' = [reminded EXCEPT ![m] = scans[s].dates[m]]
                             \/ UNCHANGED reminded)
    BY <1>3, <1>types, TakenUp
  <2>3. scans[s].dates[m] <= now
    BY DEF Shape, Scanned, ReadOnce
  <2>4. QED
    BY <1>types, <2>1, <2>2, <2>3 DEF Past
<1>4. ASSUME NEW s \in Scans, Mark(s)
      PROVE  Past'
  <2>1. PICK m \in scans[s].at : notified' = [notified EXCEPT ![m] = now]
    BY <1>4 DEF Mark
  <2>2. now' = now /\ reminded' = reminded
    BY <1>4 DEF Mark, history
  <2>3. now <= now
    BY <1>types
  <2>4. QED
    BY <1>types, <2>1, <2>2, <2>3 DEF Past
<1>5. ASSUME NEW s \in Scans, MarkFails(s) \/ Count(s)
      PROVE  Past'
  BY <1>5, <1>same DEF MarkFails, Count, memoryVars, history
<1>6. CASE Bus
  BY <1>6, <1>same DEF Bus, memoryVars, history
<1>7. ASSUME NEW w \in Editors, FinishEdit(w)
      PROVE  Past'
  <2>1. PICK m \in Memories, date \in Dates \cup {Never} :
          /\ due' = [due EXCEPT ![m] = date]
          /\ notified' = [notified EXCEPT ![m] = editing[w].mark]
          /\ editing[w].mark \in 0..MaxTime \cup {Never}
          /\ Tear(m, date, editing[w].mark)
          /\ UNCHANGED <<now, scans, reminded>>
    BY <1>7, Written
  <2>2. editing[w].mark <= now
    BY DEF PastRead
  <2>3. QED
    BY <1>types, <2>1, <2>2 DEF Past
<1>edit. ASSUME NEW w \in Editors, NEW m \in Memories, StartEdit(w, m)
         PROVE  Past'
  BY <1>edit, <1>same DEF StartEdit, memoryVars, history
<1>8. CASE Tick
  <2>1. now' = now + 1 /\ UNCHANGED <<notified, reminded>>
    BY <1>8 DEF Tick, memoryVars, history
  <2>2. ASSUME NEW m \in Memories
        PROVE  notified[m] <= now' /\ reminded[m] <= now'
    <3>1. notified[m] \in Int /\ reminded[m] \in Int
      <4>1. notified[m] \in 0..MaxTime \cup {Never} /\ reminded[m] \in Dates \cup {Never}
        BY <1>types
      <4>2. QED
        BY <4>1, FollowUpsAssumption DEF Never, Dates
    <3>2. QED
      BY <1>types, <2>1, <3>1 DEF Past
  <2>3. QED
    BY <2>1, <2>2 DEF Past
<1>9. CASE Die
  BY <1>9, <1>same DEF Die, memoryVars
<1>10. CASE UNCHANGED vars
  BY <1>10, <1>same DEF vars, memoryVars, history
<1>11. QED
  BY <1>1, <1>2, <1>3, <1>4, <1>5, <1>6, <1>7, <1>8, <1>9, <1>10,
     <1>edit, Limits DEF Next, ScanStep

LEMMA StepPastRead == Shape /\ Past /\ PastRead /\ [Next]_vars => PastRead'
<1> SUFFICES ASSUME Shape, Past, PastRead, [Next]_vars PROVE PastRead'
  OBVIOUS
<1>types. /\ editing \in [Editors -> Edit] /\ now \in Nat
  BY DEF Shape, Scanned, EditShape, Types
<1>1. ASSUME NEW w \in Editors, NEW m \in Memories, StartEdit(w, m)
      PROVE  PastRead'
  <2>1. /\ now' = now /\ \A v \in Editors \ {w} : editing'[v] = editing[v]
        /\ editing'[w].mark \in {Never, notified[m]}
    BY <1>1, <1>types DEF StartEdit, NoEdit
  <2>2. Never <= now /\ notified[m] <= now
    BY <1>types, Limits DEF Past
  <2>3. QED
    BY <2>1, <2>2 DEF PastRead
<1>2. ASSUME NEW w \in Editors, FinishEdit(w)
      PROVE  PastRead'
  <2>1. /\ now' = now /\ \A v \in Editors \ {w} : editing'[v] = editing[v]
        /\ editing'[w].mark = Never
    BY <1>2, <1>types DEF FinishEdit, NoEdit
  <2>2. Never <= now
    BY <1>types, Limits
  <2>3. QED
    BY <2>1, <2>2 DEF PastRead
<1>3. CASE Tick
  <2>1. editing' = editing /\ now' = now + 1
    BY <1>3 DEF Tick, owner
  <2>2. ASSUME NEW w \in Editors
        PROVE  editing[w].mark <= now + 1
    <3>1. editing[w].mark \in 0..MaxTime \cup {Never} /\ editing[w].mark <= now
      BY <1>types DEF PastRead, Edit
    <3>2. QED
      BY <1>types, <3>1, Limits
  <2>3. QED
    BY <2>1, <2>2 DEF PastRead
<1>4. CASE UNCHANGED <<now, owner>>
  BY <1>4 DEF owner, PastRead
<1>5. QED
  BY <1>1, <1>2, <1>3, <1>4, Limits DEF Next, ScanStep, StartScan, QueryNotified, EndScan,
     EmitReminder, Mark, MarkFails, Count, Bus, Die, vars, owner

\* A step that only changes one scan keeps the rest; what it has then must agree.
LEMMA DatedBesides ==
  ASSUME Dated, UNCHANGED <<due, reminded>>, torn'.never = torn.never, NEW s \in Scans,
         \A t \in Scans \ {s} : scans'[t] = scans[t], scans'[s].phase # "mark",
         \A m \in (scans'[s].todo \cup scans'[s].at) \ torn.never : scans'[s].dates[m] = due[m]
  PROVE  Dated'
BY DEF Dated, Pending, In

LEMMA StepDated == Shape /\ Dated /\ [Next]_vars => Dated'
<1> SUFFICES ASSUME Shape, Dated, [Next]_vars PROVE Dated'
  OBVIOUS
<1>types. /\ Types /\ scans \in [Scans -> Scan]
          /\ reminded \in [Memories -> Dates \cup {Never}]
          /\ due \in [Memories -> Dates \cup {Never}]
  BY DEF Shape, Scanned, Types
<1>empty. ASSUME NEW s \in Scans, scans' = [scans EXCEPT ![s] = IdleScan],
                 UNCHANGED <<due, reminded, torn>>
          PROVE  Dated'
  BY <1>types, <1>empty, Emptied, DatedBesides
<1>1. ASSUME NEW s \in Scans, StartScan(s) \/ QueryNotified(s)
      PROVE  Dated'
  <2>1. UNCHANGED <<due, reminded>>
    BY <1>1, Querying DEF memoryVars
  <2>2. ASSUME NEW query \in {"first", "second"}, NEW time \in 0..MaxTime, Query(s, query, time)
        PROVE  Dated'
    <3>1. /\ scans'[s].phase = "emit" /\ scans'[s].at = {} /\ torn'.never = torn.never
          /\ \A t \in Scans \ {s} : scans'[t] = scans[t]
          /\ \A m \in scans'[s].todo : scans'[s].dates[m] = due[m]
      BY <1>types, <2>2, Queried
    <3>2. QED
      BY <2>1, <3>1, DatedBesides
  <2>3. QED
    BY <1>1, <1>empty, <2>1, <2>2, Querying
<1>2. ASSUME NEW s \in Scans, EndScan(s)
      PROVE  Dated'
  BY <1>2, <1>empty, Ending DEF memoryVars
<1>3. ASSUME NEW s \in Scans, EmitReminder(s)
      PROVE  Dated'
  <2>1. PICK m \in scans[s].todo :
          /\ m \in Memories
          /\ scans'[s].at = {m} /\ scans'[s].todo = scans[s].todo \ {m}
          /\ scans'[s].dates = scans[s].dates
          /\ \/ /\ scans'[s].phase = "mark"
                /\ reminded' = [reminded EXCEPT ![m] = scans[s].dates[m]]
             \/ scans'[s].phase = "count" /\ UNCHANGED reminded
    BY <1>3, <1>types, TakenUp
  <2>2. \A t \in Scans \ {s} : scans'[t] = scans[t]
    BY <1>3, <1>types, TakenUp
  <2>3. UNCHANGED <<due, torn>>
    BY <1>3 DEF EmitReminder, memoryVars
  <2>4. \A n \in scans[s].todo \ torn.never : scans[s].dates[n] = due[n]
    BY DEF Dated, Pending
  <2>5. CASE scans'[s].phase = "count" /\ UNCHANGED reminded
    BY <2>1, <2>2, <2>3, <2>4, <2>5, DatedBesides
  <2>6. CASE /\ scans'[s].phase = "mark"
             /\ reminded' = [reminded EXCEPT ![m] = scans[s].dates[m]]
    <3>1. /\ reminded'[m] = scans[s].dates[m]
          /\ \A n \in Memories \ {m} : reminded'[n] = reminded[n]
      BY <1>types, <2>1, <2>6
    <3>2. m \notin torn.never => reminded'[m] = due[m]
      BY <2>1, <2>4, <3>1
    <3>3. ASSUME NEW t \in Scans, NEW n \in Pending(t)' \ torn'.never
          PROVE  /\ scans'[t].dates[n] = due'[n]
                 /\ In(t, "mark")' /\ n \in scans'[t].at => reminded'[n] = due'[n]
      <4>1. CASE t = s
        BY <2>1, <2>3, <2>4, <3>2, <3>3, <4>1 DEF Pending
      <4>2. CASE t # s
        <5>1. scans'[t] = scans[t] /\ n \in Pending(t) \ torn.never
          BY <2>2, <2>3, <3>3, <4>2 DEF Pending
        <5>2. n \in Memories
          BY <1>types, <5>1 DEF Pending, Scan
        <5>3. /\ scans[t].dates[n] = due[n]
              /\ In(t, "mark") /\ n \in scans[t].at => reminded[n] = due[n]
          BY <5>1 DEF Dated
        <5>4. QED
          BY <2>3, <3>1, <3>2, <5>1, <5>2, <5>3 DEF In
      <4>3. QED
        BY <4>1, <4>2
    <3>4. QED
      BY <3>3 DEF Dated
  <2>7. QED
    BY <2>1, <2>5, <2>6
<1>4. ASSUME NEW s \in Scans, Mark(s) \/ Count(s)
      PROVE  Dated'
  <2>1. Proceed(s) /\ UNCHANGED <<due, reminded, torn>>
    BY <1>4 DEF Mark, Count, history
  <2>2. /\ scans'[s].phase = "emit" /\ scans'[s].at = {} /\ scans'[s].todo = scans[s].todo
        /\ \A m \in scans[s].todo : scans'[s].dates[m] = scans[s].dates[m]
        /\ \A t \in Scans \ {s} : scans'[t] = scans[t]
    BY <1>types, <2>1, WentOn
  <2>3. \A m \in scans[s].todo \ torn.never : scans[s].dates[m] = due[m]
    BY DEF Dated, Pending
  <2>4. QED
    BY <2>1, <2>2, <2>3, DatedBesides
<1>5. ASSUME NEW s \in Scans, MarkFails(s)
      PROVE  Dated'
  <2>1. /\ scans'[s].phase = "count" /\ scans'[s].at = scans[s].at
        /\ scans'[s].todo = scans[s].todo /\ scans'[s].dates = scans[s].dates
        /\ torn'.never = torn.never /\ \A t \in Scans \ {s} : scans'[t] = scans[t]
    BY <1>5, <1>types, Unmarked
  <2>2. UNCHANGED <<due, reminded>>
    BY <1>5 DEF MarkFails, memoryVars
  <2>3. \A m \in (scans[s].todo \cup scans[s].at) \ torn.never : scans[s].dates[m] = due[m]
    BY DEF Dated, Pending
  <2>4. QED
    BY <2>1, <2>2, <2>3, DatedBesides
<1>same. ASSUME UNCHANGED <<due, reminded, torn, scans>>
         PROVE  Dated'
  BY <1>same DEF Dated, Pending, In
<1>6. CASE Bus
  BY <1>6, <1>same DEF Bus, memoryVars, history
<1>7. ASSUME NEW w \in Editors, FinishEdit(w)
      PROVE  Dated'
  <2>1. PICK m \in Memories, date \in Dates \cup {Never} :
          /\ due' = [due EXCEPT ![m] = date]
          /\ notified' = [notified EXCEPT ![m] = editing[w].mark]
          /\ editing[w].mark \in 0..MaxTime \cup {Never}
          /\ Tear(m, date, editing[w].mark)
          /\ UNCHANGED <<now, scans, reminded>>
    BY <1>7, Written
  <2>2. /\ \A n \in Memories \ {m} : due'[n] = due[n]
        /\ due'[m] = date /\ torn.never \ {m} \subseteq torn'.never
        /\ \A s \in Scans : m \in Pending(s) =>
             torn.never \subseteq torn'.never /\ (date # due[m] => m \in torn'.never)
    BY <1>types, <2>1, Torn
  <2>3. ASSUME NEW t \in Scans, NEW n \in Pending(t) \ torn'.never
        PROVE  n \in Pending(t) \ torn.never /\ due'[n] = due[n]
    <3>1. n \in Memories
      BY <1>types, <2>3 DEF Pending, Scan
    <3>2. CASE n = m
      BY <2>2, <2>3, <3>2
    <3>3. CASE n # m
      BY <2>2, <2>3, <3>1, <3>3
    <3>4. QED
      BY <3>2, <3>3
  <2>4. \A t \in Scans : Pending(t)' = Pending(t)
    BY <2>1 DEF Pending
  <2>5. QED
    BY <2>1, <2>3, <2>4 DEF Dated, In
<1>edit. ASSUME NEW w \in Editors, NEW m \in Memories, StartEdit(w, m)
         PROVE  Dated'
  BY <1>edit, <1>same DEF StartEdit, memoryVars, history
<1>8. CASE Tick
  BY <1>8, <1>same DEF Tick, memoryVars, history
<1>9. CASE Die
  <2>1. \A t \in Scans : Pending(t)' = {}
    BY <1>9, IdleType DEF Die, Pending
  <2>2. QED
    BY <2>1 DEF Dated
<1>10. CASE UNCHANGED vars
  BY <1>10, <1>same DEF vars, memoryVars, history
<1>11. QED
  BY <1>1, <1>2, <1>3, <1>4, <1>5, <1>6, <1>7, <1>8, <1>9, <1>10,
     <1>edit, Limits DEF Next, ScanStep

LEMMA StepSilence ==
  Shape /\ Past /\ Dated /\ NeverSilenced /\ [Next]_vars => NeverSilenced'
<1> SUFFICES ASSUME Shape, Past, Dated, NeverSilenced, [Next]_vars PROVE NeverSilenced'
  OBVIOUS
<1>types. /\ Types /\ now \in Nat /\ scans \in [Scans -> Scan]
          /\ notified \in [Memories -> 0..MaxTime \cup {Never}]
          /\ due \in [Memories -> Dates \cup {Never}]
          /\ reminded \in [Memories -> Dates \cup {Never}]
  BY DEF Shape, Scanned, Types
<1>same. ASSUME UNCHANGED <<due, notified, reminded>>, torn'.never = torn.never
         PROVE  NeverSilenced'
  BY <1>same DEF NeverSilenced
<1>1. ASSUME NEW s \in Scans, StartScan(s) \/ QueryNotified(s)
      PROVE  NeverSilenced'
  BY <1>1, <1>types, <1>same, Querying, Queried DEF memoryVars
<1>2. ASSUME NEW s \in Scans, EndScan(s)
      PROVE  NeverSilenced'
  BY <1>2, <1>same, Ending DEF memoryVars
<1>3. ASSUME NEW s \in Scans, EmitReminder(s)
      PROVE  NeverSilenced'
  <2>1. UNCHANGED <<due, notified, torn>>
    BY <1>3 DEF EmitReminder, memoryVars
  <2>2. PICK m \in scans[s].todo :
          m \in Memories /\ (\/ reminded' = [reminded EXCEPT ![m] = scans[s].dates[m]]
                             \/ UNCHANGED reminded)
    BY <1>3, <1>types, TakenUp
  <2>3. m \notin torn.never => scans[s].dates[m] = due[m]
    BY DEF Dated, Pending
  <2>4. QED
    BY <1>types, <2>1, <2>2, <2>3 DEF NeverSilenced
<1>4. ASSUME NEW s \in Scans, Mark(s)
      PROVE  NeverSilenced'
  <2>1. PICK m \in scans[s].at : notified' = [notified EXCEPT ![m] = now]
    BY <1>4 DEF Mark
  <2>2. UNCHANGED <<due, reminded, torn>> /\ In(s, "mark")
    BY <1>4 DEF Mark, history
  <2>3. m \notin torn.never => reminded[m] = due[m]
    BY <2>2 DEF Dated, Pending
  <2>4. QED
    BY <1>types, <2>1, <2>2, <2>3 DEF NeverSilenced
<1>5. ASSUME NEW s \in Scans, MarkFails(s)
      PROVE  NeverSilenced'
  <2>1. torn'.never = torn.never
    BY <1>5, <1>types, Unmarked
  <2>2. QED
    BY <1>5, <1>same, <2>1 DEF MarkFails, memoryVars
<1>6. ASSUME NEW s \in Scans, Count(s)
      PROVE  NeverSilenced'
  BY <1>6, <1>same DEF Count, history
<1>7. CASE Bus
  BY <1>7, <1>same DEF Bus, memoryVars, history
<1>8. ASSUME NEW w \in Editors, FinishEdit(w)
      PROVE  NeverSilenced'
  <2>1. PICK m \in Memories, date \in Dates \cup {Never} :
          /\ due' = [due EXCEPT ![m] = date]
          /\ notified' = [notified EXCEPT ![m] = editing[w].mark]
          /\ editing[w].mark \in 0..MaxTime \cup {Never}
          /\ Tear(m, date, editing[w].mark)
          /\ UNCHANGED <<now, scans, reminded>>
    BY <1>8, Written
  <2>2. /\ due'[m] = date /\ \A n \in Memories \ {m} : due'[n] = due[n]
        /\ notified'[m] = editing[w].mark /\ \A n \in Memories \ {m} : notified'[n] = notified[n]
        /\ torn.never \ {m} \subseteq torn'.never
        /\ (reminded[m] # date /\ date # Never /\ date <= editing[w].mark) => m \in torn'.never
    BY <1>types, <2>1, Torn
  <2>3. QED
    BY <2>1, <2>2 DEF NeverSilenced
<1>edit. ASSUME NEW w \in Editors, NEW m \in Memories, StartEdit(w, m)
         PROVE  NeverSilenced'
  BY <1>edit, <1>same DEF StartEdit, memoryVars, history
<1>9. CASE Tick
  BY <1>9, <1>same DEF Tick, memoryVars, history
<1>10. CASE Die
  <2>1. torn'.never = torn.never
    BY <1>10, <1>types DEF Die, Types
  <2>2. QED
    BY <1>10, <1>same, <2>1 DEF Die, memoryVars
<1>11. CASE UNCHANGED vars
  BY <1>11, <1>same DEF vars, memoryVars, history
<1>12. QED
  BY <1>1, <1>2, <1>3, <1>4, <1>5, <1>6, <1>7, <1>8, <1>9, <1>10, <1>11,
     <1>edit, Limits DEF Next, ScanStep

\* Silence: a mark never stands for a reminder that was not given.
THEOREM NeverKeptSilent == Spec => []NeverSilenced
<1>1. Init => Shape /\ Past /\ PastRead /\ Dated /\ NeverSilenced
  BY InitShape, InitPast
<1>2. Shape /\ Past /\ PastRead /\ Dated /\ NeverSilenced /\ [Next]_vars
        => (Shape /\ Past /\ PastRead /\ Dated /\ NeverSilenced)'
  BY StepShape, StepPast, StepPastRead, StepDated, StepSilence
<1>3. QED
  BY <1>1, <1>2, PTL DEF Spec

-----------------------------------------------------------------------------
(* No reminder twice.                                                      *)

LEMMA StepMet == Shape /\ Met /\ [Next]_vars => Met'
<1> SUFFICES ASSUME Shape, Met, [Next]_vars PROVE Met'
  OBVIOUS
<1>types. /\ Types /\ scans \in [Scans -> Scan]
          /\ torn \in [twice : SUBSET Memories, never : SUBSET Memories]
  BY DEF Shape, Scanned, Types
\* A scan that works off its list meets no other.
<1>less. ASSUME NEW s \in Scans, \A t \in Scans \ {s} : scans'[t] = scans[t],
                scans'[s].todo \cup scans'[s].at \subseteq Pending(s),
                torn.twice \subseteq torn'.twice
         PROVE  Met'
  <2>1. \A t \in Scans : Pending(t)' \subseteq Pending(t)
    BY <1>less DEF Pending
  <2>2. QED
    BY <1>less, <2>1 DEF Met
<1>same. ASSUME UNCHANGED <<scans, torn>>
         PROVE  Met'
  BY <1>same DEF Met, Pending
<1>empty. ASSUME NEW s \in Scans, scans' = [scans EXCEPT ![s] = IdleScan], UNCHANGED torn
          PROVE  Met'
  BY <1>types, <1>empty, <1>less, Emptied
<1>1. ASSUME NEW s \in Scans, StartScan(s) \/ QueryNotified(s)
      PROVE  Met'
  <2>1. ASSUME NEW query \in {"first", "second"}, NEW time \in 0..MaxTime, Query(s, query, time)
        PROVE  Met'
    <3>1. /\ \A t \in Scans \ {s} : scans'[t] = scans[t]
          /\ scans'[s].at = {} /\ torn.twice \subseteq torn'.twice
          /\ \A t \in Scans \ {s} : scans'[s].todo \cap Pending(t) \subseteq torn'.twice
      BY <1>types, <2>1, Queried
    <3>2. /\ \A t \in Scans \ {s} : Pending(t)' = Pending(t)
          /\ Pending(s)' = scans'[s].todo
      BY <3>1 DEF Pending
    <3>3. QED
      BY <3>1, <3>2 DEF Met
  <2>2. QED
    BY <1>1, <1>empty, <2>1, Querying
<1>2. ASSUME NEW s \in Scans, EndScan(s)
      PROVE  Met'
  BY <1>2, <1>empty, Ending
<1>3. ASSUME NEW s \in Scans, EmitReminder(s)
      PROVE  Met'
  <2>1. torn' = torn
    BY <1>3 DEF EmitReminder
  <2>2. scans'[s].todo \cup scans'[s].at \subseteq Pending(s)
        /\ \A t \in Scans \ {s} : scans'[t] = scans[t]
    BY <1>3, <1>types, TakenUp DEF Pending
  <2>3. QED
    BY <1>less, <2>1, <2>2
<1>4. ASSUME NEW s \in Scans, Mark(s) \/ Count(s)
      PROVE  Met'
  <2>1. Proceed(s) /\ torn' = torn
    BY <1>4 DEF Mark, Count, history
  <2>2. scans'[s].todo \cup scans'[s].at \subseteq Pending(s)
        /\ \A t \in Scans \ {s} : scans'[t] = scans[t]
    BY <1>types, <2>1, WentOn DEF Pending
  <2>3. QED
    BY <1>less, <2>1, <2>2
<1>5. ASSUME NEW s \in Scans, MarkFails(s)
      PROVE  Met'
  <2>1. /\ scans'[s].todo \cup scans'[s].at \subseteq Pending(s)
        /\ \A t \in Scans \ {s} : scans'[t] = scans[t]
        /\ torn.twice \subseteq torn'.twice
    BY <1>5, <1>types, Unmarked DEF Pending
  <2>2. QED
    BY <1>less, <2>1
<1>6. CASE Bus
  BY <1>6, <1>same DEF Bus, history
<1>7. ASSUME NEW w \in Editors, FinishEdit(w)
      PROVE  Met'
  <2>1. PICK m \in Memories, date \in Dates \cup {Never} :
          /\ due' = [due EXCEPT ![m] = date]
          /\ notified' = [notified EXCEPT ![m] = editing[w].mark]
          /\ editing[w].mark \in 0..MaxTime \cup {Never}
          /\ Tear(m, date, editing[w].mark)
          /\ UNCHANGED <<now, scans, reminded>>
    BY <1>7, Written
  <2>2. \A t \in Scans : Pending(t)' = Pending(t)
    BY <2>1 DEF Pending
  <2>3. /\ torn.twice \ {m} \subseteq torn'.twice
        /\ \A s \in Scans : m \in Pending(s) => torn.twice \subseteq torn'.twice
    BY <1>types, <2>1, Torn
  <2>4. QED
    BY <2>2, <2>3 DEF Met
<1>edit. ASSUME NEW w \in Editors, NEW m \in Memories, StartEdit(w, m)
         PROVE  Met'
  BY <1>edit, <1>same DEF StartEdit, memoryVars, history
<1>8. CASE Tick
  BY <1>8, <1>same DEF Tick, history
<1>9. CASE Die
  <2>1. \A t \in Scans : Pending(t)' = {}
    BY <1>9, IdleType DEF Die, Pending
  <2>2. QED
    BY <2>1 DEF Met
<1>10. CASE UNCHANGED vars
  BY <1>10, <1>same DEF vars, history
<1>11. QED
  BY <1>1, <1>2, <1>3, <1>4, <1>5, <1>6, <1>7, <1>8, <1>9, <1>10,
     <1>edit, Limits DEF Next, ScanStep

LEMMA StepRemembered ==
  Shape /\ Past /\ Remembered /\ [Next]_vars => Remembered'
<1> SUFFICES ASSUME Shape, Past, Remembered, [Next]_vars PROVE Remembered'
  OBVIOUS
<1>types. /\ Types /\ now \in Nat /\ scans \in [Scans -> Scan]
          /\ notified \in [Memories -> 0..MaxTime \cup {Never}]
          /\ due \in [Memories -> Dates \cup {Never}]
          /\ reminded \in [Memories -> Dates \cup {Never}]
          /\ torn \in [twice : SUBSET Memories, never : SUBSET Memories]
  BY DEF Shape, Scanned, Types
\* A scan that marks nothing is no reason to remember a reminder.
<1>quiet. ASSUME UNCHANGED <<due, notified, reminded>>, NEW s \in Scans,
                 \A t \in Scans \ {s} : scans'[t] = scans[t],
                 scans[s].phase = "mark" => scans[s].at \subseteq torn'.twice,
                 torn.twice \subseteq torn'.twice
          PROVE  Remembered'
  <2>1. ASSUME NEW m \in Memories \ torn'.twice, NEW t \in Scans, In(t, "mark"),
               m \in scans[t].at
        PROVE  In(t, "mark")' /\ m \in scans'[t].at
    BY <1>quiet, <2>1 DEF In
  <2>2. QED
    BY <1>quiet, <2>1 DEF Remembered
<1>same. ASSUME UNCHANGED <<due, notified, reminded, scans, torn>>
         PROVE  Remembered'
  BY <1>same DEF Remembered, In
<1>empty. ASSUME NEW s \in Scans, scans[s].phase # "mark", scans' = [scans EXCEPT ![s] = IdleScan],
                 UNCHANGED <<memoryVars, reminded, torn>>
          PROVE  Remembered'
  BY <1>types, <1>empty, <1>quiet, Emptied DEF memoryVars
<1>1. ASSUME NEW s \in Scans, StartScan(s) \/ QueryNotified(s)
      PROVE  Remembered'
  <2>1. scans[s].phase # "mark" /\ UNCHANGED <<memoryVars, reminded>>
    BY <1>1, Querying
  <2>2. ASSUME NEW query \in {"first", "second"}, NEW time \in 0..MaxTime, Query(s, query, time)
        PROVE  Remembered'
    BY <1>types, <1>quiet, <2>1, <2>2, Queried DEF memoryVars
  <2>3. QED
    BY <1>1, <1>empty, <2>1, <2>2, Querying
<1>2. ASSUME NEW s \in Scans, EndScan(s)
      PROVE  Remembered'
  BY <1>2, <1>empty, Ending
<1>3. ASSUME NEW s \in Scans, EmitReminder(s)
      PROVE  Remembered'
  <2>1. PICK m \in scans[s].todo :
          /\ m \in Memories /\ scans'[s].at = {m}
          /\ \/ /\ scans'[s].phase = "mark"
                /\ reminded' = [reminded EXCEPT ![m] = scans[s].dates[m]]
             \/ scans'[s].phase = "count" /\ UNCHANGED reminded
    BY <1>3, <1>types, TakenUp
  <2>2. scans[s].phase = "emit" /\ \A t \in Scans \ {s} : scans'[t] = scans[t]
    BY <1>3, <1>types, TakenUp
  <2>3. UNCHANGED <<due, notified, torn>>
    BY <1>3 DEF EmitReminder, memoryVars
  <2>4. CASE UNCHANGED reminded
    BY <1>quiet, <2>2, <2>3, <2>4
  <2>5. CASE /\ scans'[s].phase = "mark"
             /\ reminded' = [reminded EXCEPT ![m] = scans[s].dates[m]]
    <3>1. \A n \in Memories \ {m} : reminded'[n] = reminded[n]
      BY <1>types, <2>1, <2>5
    <3>2. \A t \in Scans : In(t, "mark") => t # s /\ In(t, "mark")' /\ scans'[t] = scans[t]
      BY <2>2 DEF In
    <3>3. In(s, "mark")' /\ m \in scans'[s].at
      BY <2>1, <2>5 DEF In
    <3>4. QED
      BY <2>3, <3>1, <3>2, <3>3 DEF Remembered
  <2>6. QED
    BY <2>1, <2>4, <2>5
<1>4. ASSUME NEW s \in Scans, Mark(s)
      PROVE  Remembered'
  <2>1. PICK m \in scans[s].at : notified' = [notified EXCEPT ![m] = now]
    BY <1>4 DEF Mark
  <2>2. UNCHANGED <<due, reminded, torn>> /\ Proceed(s) /\ In(s, "mark")
    BY <1>4 DEF Mark, history
  <2>3. scans[s].at = {m} /\ m \in Memories
    BY <2>1, <2>2 DEF Shape, Scanned, ReadOnce, In
  <2>4. \A t \in Scans \ {s} : scans'[t] = scans[t]
    BY <1>types, <2>2, WentOn
  <2>5. notified'[m] = now /\ \A n \in Memories \ {m} : notified'[n] = notified[n]
    BY <1>types, <2>1, <2>3
  <2>6. ASSUME NEW n \in Memories \ torn.twice, reminded[n] # Never, reminded[n] = due[n]
        PROVE  notified'[n] >= due[n] \/ \E t \in Scans : In(t, "mark")' /\ n \in scans'[t].at
    <3>1. CASE n = m
      <4>1. due[n] <= now /\ due[n] \in Nat
        BY <1>types, <2>6, Limits DEF Past
      <4>2. QED
        BY <1>types, <2>5, <3>1, <4>1
    <3>2. CASE n # m
      <4>1. notified[n] >= due[n] \/ \E t \in Scans : In(t, "mark") /\ n \in scans[t].at
        BY <2>6 DEF Remembered
      <4>2. \A t \in Scans : In(t, "mark") /\ n \in scans[t].at
                               => In(t, "mark")' /\ n \in scans'[t].at
        BY <2>3, <2>4, <3>2 DEF In
      <4>3. QED
        BY <2>5, <3>2, <4>1, <4>2
    <3>3. QED
      BY <3>1, <3>2
  <2>7. QED
    BY <2>2, <2>6 DEF Remembered
<1>5. ASSUME NEW s \in Scans, MarkFails(s)
      PROVE  Remembered'
  <2>1. /\ \A t \in Scans \ {s} : scans'[t] = scans[t]
        /\ torn'.twice = torn.twice \cup scans[s].at
    BY <1>5, <1>types, Unmarked
  <2>2. UNCHANGED <<due, notified, reminded>>
    BY <1>5 DEF MarkFails, memoryVars
  <2>3. QED
    BY <1>quiet, <2>1, <2>2
<1>6. ASSUME NEW s \in Scans, Count(s)
      PROVE  Remembered'
  <2>1. Proceed(s) /\ UNCHANGED <<due, notified, reminded, torn>> /\ scans[s].phase = "count"
    BY <1>6 DEF Count, history, In
  <2>2. \A t \in Scans \ {s} : scans'[t] = scans[t]
    BY <1>types, <2>1, WentOn
  <2>3. QED
    BY <1>quiet, <2>1, <2>2
<1>7. CASE Bus
  BY <1>7, <1>same DEF Bus, memoryVars, history
<1>8. ASSUME NEW w \in Editors, FinishEdit(w)
      PROVE  Remembered'
  <2>1. PICK m \in Memories, date \in Dates \cup {Never} :
          /\ due' = [due EXCEPT ![m] = date]
          /\ notified' = [notified EXCEPT ![m] = editing[w].mark]
          /\ editing[w].mark \in 0..MaxTime \cup {Never}
          /\ Tear(m, date, editing[w].mark)
          /\ UNCHANGED <<now, scans, reminded>>
    BY <1>8, Written
  <2>2. /\ due'[m] = date /\ \A n \in Memories \ {m} : due'[n] = due[n]
        /\ notified'[m] = editing[w].mark /\ \A n \in Memories \ {m} : notified'[n] = notified[n]
        /\ torn.twice \ {m} \subseteq torn'.twice
        /\ (reminded[m] = date /\ editing[w].mark < date) =>
             m \in torn'.twice \/ \E s \in Scans : In(s, "mark") /\ m \in scans[s].at
    BY <1>types, <2>1, Torn
  <2>3. editing[w].mark < date \/ editing[w].mark >= date
    BY <2>1, Limits
  <2>4. QED
    BY <2>1, <2>2, <2>3 DEF Remembered, In
<1>edit. ASSUME NEW w \in Editors, NEW m \in Memories, StartEdit(w, m)
         PROVE  Remembered'
  BY <1>edit, <1>same DEF StartEdit, memoryVars, history
<1>9. CASE Tick
  BY <1>9, <1>same DEF Tick, memoryVars, history
<1>10. CASE Die
  <2>1. UNCHANGED <<due, notified, reminded>>
    BY <1>10 DEF Die, memoryVars
  <2>2. torn'.twice = torn.twice \cup UNION {scans[s].at : s \in Scans}
    BY <1>10, <1>types DEF Die
  <2>3. \A s \in Scans : scans[s].at \subseteq torn'.twice
    BY <2>2
  <2>4. QED
    BY <2>1, <2>2, <2>3 DEF Remembered
<1>11. CASE UNCHANGED vars
  BY <1>11, <1>same DEF vars, memoryVars, history
<1>12. QED
  BY <1>1, <1>2, <1>3, <1>4, <1>5, <1>6, <1>7, <1>8, <1>9, <1>10, <1>11,
     <1>edit, Limits DEF Next, ScanStep

LEMMA StepUnsaid ==
  Shape /\ Met /\ Remembered /\ Unsaid /\ [Next]_vars => Unsaid'
<1> SUFFICES ASSUME Shape, Met, Remembered, Unsaid, [Next]_vars PROVE Unsaid'
  OBVIOUS
<1>types. /\ Types /\ now \in Nat /\ scans \in [Scans -> Scan]
          /\ notified \in [Memories -> 0..MaxTime \cup {Never}]
          /\ due \in [Memories -> Dates \cup {Never}]
          /\ reminded \in [Memories -> Dates \cup {Never}]
          /\ torn \in [twice : SUBSET Memories, never : SUBSET Memories]
  BY DEF Shape, Scanned, Types
\* What is left of a list is as new as before.
<1>less. ASSUME UNCHANGED reminded, NEW s \in Scans, \A t \in Scans \ {s} : scans'[t] = scans[t],
                scans'[s].todo \subseteq scans[s].todo,
                \A m \in scans'[s].todo : scans'[s].dates[m] = scans[s].dates[m],
                torn.twice \subseteq torn'.twice
         PROVE  Unsaid'
  BY <1>less DEF Unsaid
<1>same. ASSUME UNCHANGED <<reminded, scans, torn>>
         PROVE  Unsaid'
  BY <1>same DEF Unsaid
<1>empty. ASSUME NEW s \in Scans, scans' = [scans EXCEPT ![s] = IdleScan],
                 UNCHANGED <<reminded, torn>>
          PROVE  Unsaid'
  BY <1>types, <1>empty, <1>less, Emptied
<1>1. ASSUME NEW s \in Scans, StartScan(s) \/ QueryNotified(s)
      PROVE  Unsaid'
  <2>1. scans[s].phase # "mark" /\ scans[s].at = {} /\ UNCHANGED <<memoryVars, reminded>>
    BY <1>1, Querying
  <2>2. ASSUME NEW query \in {"first", "second"}, NEW time \in 0..MaxTime, Query(s, query, time)
        PROVE  Unsaid'
    <3>1. /\ \A t \in Scans \ {s} : scans'[t] = scans[t]
          /\ scans'[s].todo \subseteq Memories
          /\ \A m \in scans'[s].todo :
               /\ due[m] \in Dates /\ (notified[m] = Never \/ due[m] > notified[m])
               /\ scans'[s].dates[m] = due[m]
          /\ torn.twice \subseteq torn'.twice
          /\ \A t \in Scans \ {s} : scans'[s].todo \cap Pending(t) \subseteq torn'.twice
      BY <1>types, <2>2, Queried
    <3>2. ASSUME NEW m \in scans'[s].todo \ torn'.twice
          PROVE  reminded[m] # due[m]
      <4>1. m \in Memories \ torn.twice /\ due[m] \in Dates
        BY <3>1, <3>2
      <4>2. ~(\E t \in Scans : In(t, "mark") /\ m \in scans[t].at)
        BY <2>1, <3>1, <3>2 DEF Pending, In
      <4>3. ~(notified[m] >= due[m])
        <5>1. due[m] \in Nat /\ due[m] > 0 /\ due[m] # Never
          BY <4>1, FollowUpsAssumption DEF Never, Dates
        <5>2. notified[m] \in 0..MaxTime \cup {Never}
          BY <1>types, <4>1
        <5>3. notified[m] = Never \/ due[m] > notified[m]
          BY <3>1, <3>2
        <5>4. QED
          BY <5>1, <5>2, <5>3, Limits
      <4>4. QED
        BY <4>1, <4>2, <4>3, Limits DEF Remembered
    <3>3. QED
      BY <2>1, <3>1, <3>2 DEF Unsaid
  <2>3. QED
    BY <1>1, <1>empty, <2>1, <2>2, Querying
<1>2. ASSUME NEW s \in Scans, EndScan(s)
      PROVE  Unsaid'
  BY <1>2, <1>empty, Ending
<1>3. ASSUME NEW s \in Scans, EmitReminder(s)
      PROVE  Unsaid'
  <2>1. PICK m \in scans[s].todo :
          /\ m \in Memories /\ scans'[s].todo = scans[s].todo \ {m}
          /\ scans'[s].dates = scans[s].dates
          /\ \/ reminded' = [reminded EXCEPT ![m] = scans[s].dates[m]]
             \/ UNCHANGED reminded
    BY <1>3, <1>types, TakenUp
  <2>2. torn' = torn /\ \A t \in Scans \ {s} : scans'[t] = scans[t]
    BY <1>3, <1>types, TakenUp DEF EmitReminder
  <2>3. \A n \in Memories \ {m} : reminded'[n] = reminded[n]
    BY <1>types, <2>1
  <2>4. ASSUME NEW t \in Scans, NEW n \in scans'[t].todo \ torn.twice
        PROVE  reminded'[n] # scans'[t].dates[n]
    <3>1. /\ n \in scans[t].todo /\ scans'[t].dates = scans[t].dates
          /\ reminded[n] # scans[t].dates[n] /\ n \in Memories
      BY <1>types, <2>1, <2>2, <2>4 DEF Unsaid, Scan
    <3>2. n # m
      BY <2>1, <2>4, <3>1 DEF Met, Pending
    <3>3. QED
      BY <2>3, <3>1, <3>2
  <2>5. QED
    BY <2>2, <2>4 DEF Unsaid
<1>4. ASSUME NEW s \in Scans, Mark(s) \/ Count(s)
      PROVE  Unsaid'
  <2>1. Proceed(s) /\ UNCHANGED <<reminded, torn>>
    BY <1>4 DEF Mark, Count, history
  <2>2. QED
    BY <1>types, <1>less, <2>1, WentOn
<1>5. ASSUME NEW s \in Scans, MarkFails(s)
      PROVE  Unsaid'
  <2>1. reminded' = reminded
    BY <1>5 DEF MarkFails
  <2>2. QED
    BY <1>5, <1>types, <1>less, <2>1, Unmarked
<1>6. CASE Bus
  BY <1>6, <1>same DEF Bus, history
<1>7. ASSUME NEW w \in Editors, FinishEdit(w)
      PROVE  Unsaid'
  <2>1. PICK m \in Memories, date \in Dates \cup {Never} :
          /\ due' = [due EXCEPT ![m] = date]
          /\ notified' = [notified EXCEPT ![m] = editing[w].mark]
          /\ editing[w].mark \in 0..MaxTime \cup {Never}
          /\ Tear(m, date, editing[w].mark)
          /\ UNCHANGED <<now, scans, reminded>>
    BY <1>7, Written
  <2>2. /\ torn.twice \ {m} \subseteq torn'.twice
        /\ \A s \in Scans : m \in Pending(s) => torn.twice \subseteq torn'.twice
    BY <1>types, <2>1, Torn
  <2>3. QED
    BY <2>1, <2>2 DEF Unsaid, Pending
<1>edit. ASSUME NEW w \in Editors, NEW m \in Memories, StartEdit(w, m)
         PROVE  Unsaid'
  BY <1>edit, <1>same DEF StartEdit, memoryVars, history
<1>8. CASE Tick
  BY <1>8, <1>same DEF Tick, history
<1>9. CASE Die
  <2>1. \A t \in Scans : scans'[t].todo = {}
    BY <1>9, IdleType DEF Die
  <2>2. QED
    BY <2>1 DEF Unsaid
<1>10. CASE UNCHANGED vars
  BY <1>10, <1>same DEF vars, history
<1>11. QED
  BY <1>1, <1>2, <1>3, <1>4, <1>5, <1>6, <1>7, <1>8, <1>9, <1>10,
     <1>edit, Limits DEF Next, ScanStep

\* Repetition: no date is reminded of twice but where the record says why.
THEOREM NoDateTwice == Spec => OncePerDate
<1> DEFINE Inv == Shape /\ Past /\ PastRead /\ Met /\ Remembered /\ Unsaid
           Once == \A s \in Scans : (In(s, "emit") /\ scans'[s].phase = "mark") =>
                     \A m \in scans'[s].at : reminded[m] # scans[s].dates[m] \/ m \in torn.twice
<1>1. Init => Inv
  BY InitShape, InitPast
<1>2. Inv /\ [Next]_vars => Inv'
  BY StepShape, StepPast, StepPastRead, StepMet, StepRemembered, StepUnsaid
<1>3. Inv /\ [Next]_vars => [Once]_vars
  <2> SUFFICES ASSUME Inv, Next, NEW s \in Scans, In(s, "emit"), scans'[s].phase = "mark"
               PROVE  \A m \in scans'[s].at : reminded[m] # scans[s].dates[m] \/ m \in torn.twice
    OBVIOUS
  <2>types. Types /\ scans \in [Scans -> Scan]
    BY DEF Shape, Scanned, Types
  <2>at. ASSUME scans'[s].at \subseteq scans[s].todo
         PROVE  \A m \in scans'[s].at : reminded[m] # scans[s].dates[m] \/ m \in torn.twice
    BY <2>at DEF Unsaid
  <2>stays. scans'[s].phase # scans[s].phase
    BY DEF In
  \* Another scan, the bus, the owner and the clock leave this scan in its phase.
  <2>1. ASSUME NEW t \in Scans, ScanStep(t)
        PROVE  t = s /\ EmitReminder(s)
    <3>1. CASE StartScan(t) \/ QueryNotified(t)
      BY <2>types, <2>stays, <3>1, Querying, Queried, Emptied
    <3>2. CASE EndScan(t)
      BY <2>types, <2>stays, <3>2, Ending, Emptied
    <3>3. CASE EmitReminder(t)
      BY <2>types, <2>stays, <3>3, TakenUp
    <3>4. CASE Mark(t) \/ Count(t)
      BY <2>types, <2>stays, <3>4, WentOn DEF Mark, Count
    <3>5. CASE MarkFails(t)
      BY <2>types, <2>stays, <3>5, Unmarked
    <3>6. QED
      BY <2>1, <3>1, <3>2, <3>3, <3>4, <3>5 DEF ScanStep
  <2>2. CASE \/ Bus \/ Tick
             \/ \E w \in Editors : FinishEdit(w) \/ \E m \in Edited : StartEdit(w, m)
    BY <2>2, <2>stays DEF Bus, Tick, FinishEdit, StartEdit
  <2>3. CASE Die
    BY <2>3, IdleType DEF Die
  <2>4. CASE \E t \in Scans : ScanStep(t)
    <3>1. EmitReminder(s)
      BY <2>1, <2>4
    <3>2. scans'[s].at \subseteq scans[s].todo
      BY <2>types, <3>1, TakenUp
    <3>3. QED
      BY <2>at, <3>2
  <2>5. QED
    BY <2>2, <2>3, <2>4 DEF Next
<1>4. Spec => [][Once]_vars
  BY <1>1, <1>2, <1>3, PTL DEF Spec
<1>5. QED
  BY <1>4 DEF OncePerDate

-----------------------------------------------------------------------------
(* Every event is in one place.                                            *)

LEMMA SameSize ==
  ASSUME NEW S, NEW T, IsFiniteSet(S), NEW f \in [S -> T],
         \A x, y \in S : f[x] = f[y] => x = y, \A y \in T : \E x \in S : f[x] = y
  PROVE  IsFiniteSet(T) /\ Cardinality(T) = Cardinality(S)
<1>1. f \in Bijection(S, T)
  BY DEF Bijection, Injection, Surjection, IsInjective
<1>2. QED  BY <1>1, FS_Bijection DEF ExistsBijection

\* A set put in order holds each of its elements once.
LEMMA InOrder ==
  ASSUME NEW S, IsFiniteSet(S)
  PROVE  LET q == SetToSeq(S) IN
         /\ q \in Seq(S) /\ DOMAIN q = 1..Cardinality(S) /\ Len(q) = Cardinality(S)
         /\ \A i, j \in DOMAIN q : q[i] = q[j] => i = j
         /\ \A x \in S : \E i \in DOMAIN q : q[i] = x
<1> DEFINE q == SetToSeq(S)
           n == Cardinality(S)
<1>1. n \in Nat /\ \E f : f \in Bijection(1..n, S)
  BY FS_CardinalityType DEF ExistsBijection
<1>2. PICK f \in [1..n -> S] : \A i, j \in 1..n : f[i] = f[j] => i = j
  BY <1>1 DEF Bijection, Injection, IsInjective
<1>3. IsInjective(f)
  BY <1>2 DEF IsInjective
<1>4. q \in [1..n -> S] /\ IsInjective(q)
  BY <1>3 DEF SetToSeq
<1> HIDE DEF q
<1>5. \A i, j \in 1..n : q[i] = q[j] => i = j
  BY <1>4 DEF IsInjective
<1>6. q \in Injection(1..n, S)
  BY <1>4, <1>5 DEF Injection, IsInjective
<1>7. Cardinality(1..n) = n
  BY <1>1, FS_Interval
<1>8. q \in Surjection(1..n, S)
  BY <1>6, <1>7, FS_Injection
<1>9. q \in Seq(S) /\ Len(q) = n
  BY <1>1, <1>4
<1>10. \A x \in S : \E i \in 1..n : q[i] = x
  BY <1>8 DEF Surjection
<1>11. QED  BY <1>4, <1>5, <1>9, <1>10 DEF q

LEMMA PlacesFinite ==
  ASSUME NEW e, NEW s \in Seq(Events)
  PROVE  IsFiniteSet(Places(e, s)) /\ Times(e, s) \in Nat
<1>1. Places(e, s) \in SUBSET (1..Len(s)) /\ Len(s) \in Nat
  BY DEF Places
<1>2. IsFiniteSet(1..Len(s))
  BY <1>1, FS_Interval
<1>3. IsFiniteSet(Places(e, s))
  BY <1>1, <1>2, FS_Subset
<1>4. QED  BY <1>3, FS_CardinalityType DEF Times

LEMMA TimesEmpty == ASSUME NEW e PROVE Times(e, <<>>) = 0
<1>1. Places(e, <<>>) = {}
  BY DEF Places
<1>2. QED  BY <1>1, FS_EmptySet DEF Times

LEMMA TimesAppend ==
  ASSUME NEW e, NEW s \in Seq(Events), NEW x \in Events
  PROVE  Times(e, Append(s, x)) = Times(e, s) + IF x = e THEN 1 ELSE 0
<1> DEFINE long == Append(s, x)
           n == Len(s)
<1>1. /\ n \in Nat /\ DOMAIN s = 1..n /\ DOMAIN long = 1..(n + 1)
      /\ \A i \in 1..n : long[i] = s[i]
      /\ long[n + 1] = x
  BY AppendProperties
<1> HIDE DEF long, n
<1>2. Places(e, long) = Places(e, s) \cup (IF x = e THEN {n + 1} ELSE {})
  BY <1>1 DEF Places
<1>3. n + 1 \notin Places(e, s)
  BY <1>1 DEF Places
<1>4. IsFiniteSet(Places(e, s)) /\ Times(e, s) \in Nat
  BY PlacesFinite
<1>5. CASE x = e
  <2>1. Places(e, long) = Places(e, s) \cup {n + 1}
    BY <1>2, <1>5
  <2>2. Cardinality(Places(e, long)) = Cardinality(Places(e, s)) + 1
    BY <1>3, <1>4, <2>1, FS_AddElement
  <2>3. QED  BY <1>5, <2>2 DEF Times, long
<1>6. CASE x # e
  <2>1. Places(e, long) = Places(e, s)
    BY <1>2, <1>6
  <2>2. QED  BY <1>4, <1>6, <2>1 DEF Times, long
<1>7. QED  BY <1>5, <1>6

LEMMA SentIs ==
  ASSUME NEW e, NEW u, NEW q
  PROVE  \A p : p \in Sent(e, u, q) <=>
           \E i \in DOMAIN q : q[i].url = u /\ \E k \in Places(e, q[i].events) : p = <<i, k>>
  BY DEF Sent

LEMMA SentFinite ==
  ASSUME NEW e, NEW u, NEW q \in Seq(Batch)
  PROVE  IsFiniteSet(Sent(e, u, q)) /\ Cardinality(Sent(e, u, q)) \in Nat
<1> DEFINE at == {j \in DOMAIN q : q[j].url = u}
           of == {{i} \X Places(e, q[i].events) : i \in at}
           f == [i \in at |-> {i} \X Places(e, q[i].events)]
<1>1. DOMAIN q = 1..Len(q) /\ Len(q) \in Nat /\ \A i \in DOMAIN q : q[i] \in Batch
  OBVIOUS
<1>2. at \in SUBSET (1..Len(q)) /\ IsFiniteSet(1..Len(q))
  BY <1>1, FS_Interval
<1>3. IsFiniteSet(at)
  BY <1>2, FS_Subset
<1>4. f \in Surjection(at, of)
  BY DEF Surjection
<1>5. IsFiniteSet(of)
  <2> HIDE DEF at, of, f
  <2>1. QED  BY <1>3, <1>4, FS_Surjection
<1>6. ASSUME NEW i \in at PROVE IsFiniteSet({i} \X Places(e, q[i].events))
  <2>1. q[i].events \in Seq(Events)
    BY <1>1 DEF Batch
  <2>2. IsFiniteSet(Places(e, q[i].events)) /\ IsFiniteSet({i})
    BY <2>1, PlacesFinite, FS_Singleton
  <2>3. QED  BY <2>2, FS_Product
<1>7. \A T \in of : IsFiniteSet(T)
  BY <1>6
<1>8. IsFiniteSet(UNION of)
  <2> HIDE DEF of
  <2>1. QED  BY <1>5, <1>7, FS_UNION
<1>9. IsFiniteSet(Sent(e, u, q))
  BY <1>8 DEF Sent
<1>10. QED  BY <1>9, FS_CardinalityType

\* The batches of q are in r, each in its place by f; what else r has.
Moves(f, q, r) ==
  /\ q \in Seq(Batch) /\ r \in Seq(Batch) /\ f \in [DOMAIN q -> DOMAIN r]
  /\ \A i, j \in DOMAIN q : f[i] = f[j] => i = j
  /\ \A i \in DOMAIN q : r[f[i]] = q[i]

Besides(f, q, r) == {n \in DOMAIN r : \A i \in DOMAIN q : f[i] # n}

\* Batches that are moved to other places, and one that is added, hold what they held.
LEMMA SentMoved ==
  ASSUME NEW e, NEW u, NEW q, NEW r, NEW f, Moves(f, q, r)
  PROVE  /\ (\A n \in Besides(f, q, r) : r[n].url # u) =>
              Cardinality(Sent(e, u, r)) = Cardinality(Sent(e, u, q))
         /\ \A n \in Besides(f, q, r) :
              (r[n].url = u /\ \A m \in Besides(f, q, r) : m = n \/ r[m].url # u) =>
              Cardinality(Sent(e, u, r)) = Cardinality(Sent(e, u, q)) + Times(e, r[n].events)
<1> DEFINE old == Sent(e, u, q)
           g == [p \in old |-> <<f[p[1]], p[2]>>]
           moved == {<<f[p[1]], p[2]>> : p \in old}
<1> USE DEF Moves, Besides
<1>1. \A p \in old : p = <<p[1], p[2]>> /\ p[1] \in DOMAIN q /\ q[p[1]].url = u
                     /\ p[2] \in Places(e, q[p[1]].events)
  BY SentIs
<1>2. IsFiniteSet(old) /\ Cardinality(old) \in Nat
  BY SentFinite
<1>3. g \in [old -> moved] /\ \A y \in moved : \E x \in old : g[x] = y
  OBVIOUS
<1>4. ASSUME NEW x \in old, NEW y \in old, g[x] = g[y] PROVE x = y
  <2>1. f[x[1]] = f[y[1]] /\ x[2] = y[2]
    BY <1>4
  <2>2. x[1] = y[1]
    BY <1>1, <2>1
  <2>3. x = <<x[1], x[2]>> /\ y = <<y[1], y[2]>>
    BY <1>1
  <2> HIDE DEF g, moved, old, Moves, Besides
  <2>4. QED  BY <2>1, <2>2, <2>3
<1>5. IsFiniteSet(moved) /\ Cardinality(moved) = Cardinality(old)
  <2>1. \A x, y \in old : g[x] = g[y] => x = y
    BY <1>4
  <2> HIDE DEF g, moved, old, Moves, Besides
  <2>2. QED  BY <1>2, <1>3, <2>1, SameSize
<1>6. \A p \in moved : \E i \in DOMAIN q : p[1] = f[i]
  BY <1>1
<1>7. moved \subseteq Sent(e, u, r)
  <2> SUFFICES ASSUME NEW p \in old PROVE <<f[p[1]], p[2]>> \in Sent(e, u, r)
    OBVIOUS
  <2>1. f[p[1]] \in DOMAIN r /\ r[f[p[1]]] = q[p[1]]
    BY <1>1
  <2>2. QED  BY <1>1, <2>1, SentIs
<1>8. ASSUME NEW i \in DOMAIN q, r[f[i]].url = u, NEW k \in Places(e, r[f[i]].events)
      PROVE  <<f[i], k>> \in moved
  <2>1. q[i].url = u /\ k \in Places(e, q[i].events)
    BY <1>8
  <2> DEFINE p == <<i, k>>
  <2>2. p \in old /\ p[1] = i /\ p[2] = k
    BY <2>1, SentIs
  <2> HIDE DEF p, old
  <2>3. QED  BY <2>2
<1> HIDE DEF moved, g
<1>9. ASSUME \A n \in DOMAIN r : (\A i \in DOMAIN q : f[i] # n) => r[n].url # u
      PROVE  Cardinality(Sent(e, u, r)) = Cardinality(old)
  <2>1. Sent(e, u, r) \subseteq moved
    <3> SUFFICES ASSUME NEW p \in Sent(e, u, r) PROVE p \in moved
      OBVIOUS
    <3>1. PICK n \in DOMAIN r : r[n].url = u /\ \E k \in Places(e, r[n].events) : p = <<n, k>>
      BY SentIs
    <3>2. PICK i \in DOMAIN q : f[i] = n
      BY <1>9, <3>1
    <3>3. QED  BY <1>8, <3>1, <3>2
  <2>2. Sent(e, u, r) = moved
    BY <1>7, <2>1
  <2>3. QED  BY <1>5, <2>2
<1>10. ASSUME NEW n \in DOMAIN r, \A i \in DOMAIN q : f[i] # n, r[n].url = u,
              \A m \in DOMAIN r : (\A i \in DOMAIN q : f[i] # m) => (m = n \/ r[m].url # u)
       PROVE  Cardinality(Sent(e, u, r)) = Cardinality(old) + Times(e, r[n].events)
  <2> DEFINE places == Places(e, r[n].events)
             new == {n} \X places
  <2>1. Sent(e, u, r) = moved \cup new
    <3>1. ASSUME NEW p \in Sent(e, u, r) PROVE p \in moved \cup new
      <4>1. PICK m \in DOMAIN r : r[m].url = u /\ \E k \in Places(e, r[m].events) : p = <<m, k>>
        BY <3>1, SentIs
      <4>2. CASE m = n
        BY <4>1, <4>2
      <4>3. CASE m # n
        <5>1. PICK i \in DOMAIN q : f[i] = m
          BY <1>10, <4>1, <4>3
        <5>2. QED  BY <1>8, <4>1, <5>1
      <4>4. QED  BY <4>2, <4>3
    <3>2. new \subseteq Sent(e, u, r)
      BY <1>10, SentIs
    <3>3. QED  BY <1>7, <3>1, <3>2
  <2>2. moved \cap new = {}
    BY <1>6, <1>10
  <2>3. r[n].events \in Seq(Events)
    <3>1. r[n] \in Batch
      BY <1>10
    <3>2. QED  BY <3>1 DEF Batch
  <2>4. IsFiniteSet(places) /\ Cardinality(places) = Times(e, r[n].events) /\ Times(e, r[n].events) \in Nat
    BY <2>3, PlacesFinite DEF Times
  <2>5. IsFiniteSet({n}) /\ Cardinality({n}) = 1
    BY FS_Singleton
  <2> HIDE DEF places
  <2>6. IsFiniteSet(new) /\ Cardinality(new) = Times(e, r[n].events)
    BY <2>4, <2>5, FS_Product
  <2> HIDE DEF new
  <2>7. Cardinality(moved \cup new) = Cardinality(moved) + Cardinality(new) - Cardinality({})
    BY <1>5, <2>2, <2>6, FS_Union
  <2>8. QED  BY <1>2, <1>5, <2>1, <2>4, <2>6, <2>7, FS_EmptySet
<1>11. QED  BY <1>9, <1>10

\* What the steps of the bus do to what is under way.
LeftByFlush(urls, from) ==
  /\ sending' \in Seq(Batch)
  /\ buffers' = [u \in Urls |-> IF u \in urls THEN <<>> ELSE from[u]]
  /\ \A u \in Urls, e \in Events :
       Cardinality(Sent(e, u, sending')) =
         Cardinality(Sent(e, u, sending)) + IF u \in urls THEN Times(e, from[u]) ELSE 0

LEMMA Flushed ==
  ASSUME BusTypeOK, NEW urls \in SUBSET Urls, NEW from \in [Urls -> Seq(Events)],
         NEW who \in Emitters \cup {"none"}, Flush(urls, from, who)
  PROVE  LeftByFlush(urls, from)
<1> DEFINE batch(u) == [url |-> u, events |-> from[u], for |-> who]
           S == {batch(u) : u \in urls}
           g == [u \in urls |-> batch(u)]
           b == SetToSeq(S)
           q == sending
           r == sending'
           n == Len(q)
           f == [i \in DOMAIN q |-> i]
<1>1. buffers' = [u \in Urls |-> IF u \in urls THEN <<>> ELSE from[u]] /\ r = q \o b
  BY DEF Flush
<1>2. IsFiniteSet(S)
  <2>1. IsFiniteSet(urls)
    BY WebhookAssumption, FS_Subset
  <2>2. g \in Surjection(urls, S)
    BY DEF Surjection
  <2> HIDE DEF S, g
  <2>3. QED  BY <2>1, <2>2, FS_Surjection
<1>3. S \subseteq Batch
  BY DEF Batch
<1>4. /\ b \in Seq(S) /\ \A i, j \in DOMAIN b : b[i] = b[j] => i = j
      /\ \A x \in S : \E i \in DOMAIN b : b[i] = x
  <2> HIDE DEF S
  <2>1. QED  BY <1>2, InOrder
<1> HIDE DEF b
<1>5. q \in Seq(Batch) /\ b \in Seq(Batch)
  BY <1>3, <1>4 DEF BusTypeOK
<1>6. /\ n \in Nat /\ DOMAIN q = 1..n /\ DOMAIN b = 1..Len(b) /\ Len(b) \in Nat
  BY <1>5
<1>7. /\ r \in Seq(Batch) /\ DOMAIN r = 1..(n + Len(b))
      /\ \A i \in 1..(n + Len(b)) : r[i] = IF i <= n THEN q[i] ELSE b[i - n]
  BY <1>1, <1>5, <1>6, ConcatProperties
<1>8. \A i \in DOMAIN b : n + i \in DOMAIN r /\ r[n + i] = b[i] /\ n + i \notin DOMAIN q
  BY <1>6, <1>7
<1>9. \A i \in DOMAIN r : i \notin DOMAIN q => i - n \in DOMAIN b /\ r[i] = b[i - n] /\ n + (i - n) = i
  BY <1>6, <1>7
<1>10. /\ f \in [DOMAIN q -> DOMAIN r]
       /\ \A i, j \in DOMAIN q : f[i] = f[j] => i = j
       /\ \A i \in DOMAIN q : r[f[i]] = q[i] /\ f[i] = i
  BY <1>6, <1>7
<1>11. \A i \in DOMAIN b : \E u \in urls : b[i] = batch(u)
  BY <1>4
<1> HIDE DEF f, n, S, q, r
<1> Moves(f, q, r)
  BY <1>5, <1>7, <1>10 DEF Moves
<1>12. ASSUME NEW u \in Urls, NEW e \in Events, u \notin urls
       PROVE  Cardinality(Sent(e, u, r)) = Cardinality(Sent(e, u, q))
  <2>1. \A i \in DOMAIN b : b[i].url # u
    BY <1>11, <1>12
  <2>2. \A m \in Besides(f, q, r) : r[m].url # u
    BY <1>9, <1>10, <2>1 DEF Besides
  <2>3. QED  BY <2>2, SentMoved
<1>13. ASSUME NEW u \in Urls, NEW e \in Events, u \in urls
       PROVE  Cardinality(Sent(e, u, r)) = Cardinality(Sent(e, u, q)) + Times(e, from[u])
  <2>1. PICK i \in DOMAIN b : b[i] = batch(u)
    BY <1>4, <1>13 DEF S
  <2>2. \A j \in DOMAIN b : b[j].url = u => b[j] = batch(u)
    BY <1>11
  <2>3. \A j \in DOMAIN b : b[j].url = u => j = i
    BY <1>4, <2>1, <2>2
  <2> DEFINE m == n + i
  <2>4. m \in Besides(f, q, r) /\ r[m] = batch(u)
    BY <1>8, <1>10, <2>1 DEF Besides
  <2>5. \A k \in Besides(f, q, r) : k = m \/ r[k].url # u
    BY <1>9, <1>10, <2>3 DEF Besides
  <2>6. r[m].url = u /\ r[m].events = from[u]
    BY <2>4
  <2> HIDE DEF m
  <2>7. Cardinality(Sent(e, u, r)) = Cardinality(Sent(e, u, q)) + Times(e, r[m].events)
    BY <2>4, <2>5, <2>6, SentMoved
  <2>8. QED  BY <2>6, <2>7
<1>14. \A u \in Urls, e \in Events : Cardinality(Sent(e, u, q)) \in Nat
  BY <1>5, SentFinite
<1>15. QED  BY <1>1, <1>7, <1>12, <1>13, <1>14 DEF q, r, LeftByFlush

LEMMA TakenOut ==
  ASSUME NEW q \in Seq(Batch), NEW n \in DOMAIN q
  PROVE  LET r == RemoveAt(q, n) IN
         /\ r \in Seq(Batch) /\ Len(r) = Len(q) - 1
         /\ \A i \in 1..(Len(q) - 1) : r[i] = IF i < n THEN q[i] ELSE q[i + 1]
<1> DEFINE low == SubSeq(q, 1, n - 1)
           high == SubSeq(q, n + 1, Len(q))
           r == RemoveAt(q, n)
           len == Len(q)
<1>1. len \in Nat /\ DOMAIN q = 1..len /\ n \in 1..len /\ \A i \in 1..len : q[i] \in Batch
  OBVIOUS
<1>2. low \in Seq(Batch) /\ Len(low) = n - 1 /\ \A i \in 1..(n - 1) : low[i] = q[i]
  <2>1. 1 \in Int /\ n - 1 \in Int /\ \A i \in 1..(n - 1) : q[i] \in Batch
    BY <1>1
  <2>2. /\ low \in Seq(Batch) /\ Len(low) = (IF 1 <= n - 1 THEN n - 1 - 1 + 1 ELSE 0)
        /\ \A i \in 1..(n - 1 - 1 + 1) : low[i] = q[1 + i - 1]
    BY <2>1, SubSeqProperties
  <2>3. n - 1 - 1 + 1 = n - 1 /\ (n - 1 < 1 => n - 1 = 0) /\ \A i \in 1..(n - 1) : 1 + i - 1 = i
    BY <1>1
  <2> HIDE DEF low
  <2>4. QED  BY <1>1, <2>2, <2>3
<1>3. high \in Seq(Batch) /\ Len(high) = len - n /\ \A i \in 1..(len - n) : high[i] = q[n + i]
  <2>1. n + 1 \in Int /\ len \in Int /\ \A i \in (n + 1)..len : q[i] \in Batch
    BY <1>1
  <2>2. /\ high \in Seq(Batch) /\ Len(high) = (IF n + 1 <= len THEN len - (n + 1) + 1 ELSE 0)
        /\ \A i \in 1..(len - (n + 1) + 1) : high[i] = q[n + 1 + i - 1]
    BY <2>1, SubSeqProperties
  <2>3. /\ len - (n + 1) + 1 = len - n /\ (~ (n + 1 <= len) => len - n = 0)
        /\ \A i \in 1..(len - n) : n + 1 + i - 1 = n + i
    BY <1>1
  <2> HIDE DEF high, len
  <2>4. Len(high) = len - n
    BY <2>2, <2>3
  <2>5. \A i \in 1..(len - n) : high[i] = q[n + i]
    BY <2>2, <2>3
  <2>6. QED  BY <2>2, <2>4, <2>5
<1>4. r = low \o high
  BY DEF RemoveAt
<1> HIDE DEF low, high
<1>5. /\ r \in Seq(Batch) /\ Len(r) = len - 1
      /\ \A i \in 1..(len - 1) : r[i] = IF i < n THEN q[i] ELSE q[i + 1]
  <2>1. /\ low \o high \in Seq(Batch) /\ Len(low \o high) = Len(low) + Len(high)
        /\ \A i \in 1..(Len(low) + Len(high)) :
             (low \o high)[i] = IF i <= Len(low) THEN low[i] ELSE high[i - Len(low)]
    BY <1>2, <1>3, ConcatProperties
  <2>2. Len(low) + Len(high) = len - 1 /\ Len(low) = n - 1
    BY <1>1, <1>2, <1>3
  <2>3. ASSUME NEW i \in 1..(len - 1) PROVE r[i] = IF i < n THEN q[i] ELSE q[i + 1]
    <3>1. r[i] = IF i <= n - 1 THEN low[i] ELSE high[i - (n - 1)]
      BY <1>4, <2>1, <2>2, <2>3
    <3>2. CASE i < n
      <4>1. i \in 1..(n - 1)
        BY <1>1, <2>3, <3>2
      <4>2. QED  BY <1>2, <3>1, <3>2, <4>1
    <3>3. CASE ~ (i < n)
      <4>1. i - (n - 1) \in 1..(len - n) /\ n + (i - (n - 1)) = i + 1 /\ ~ (i <= n - 1)
        BY <1>1, <2>3, <3>3
      <4>2. QED  BY <1>3, <3>1, <3>3, <4>1
    <3>4. QED  BY <3>2, <3>3
  <2>4. QED  BY <1>4, <2>1, <2>2, <2>3
<1>6. QED  BY <1>5

LEMMA Answered ==
  ASSUME NEW q \in Seq(Batch), NEW n \in DOMAIN q, NEW u \in Urls, NEW e \in Events
  PROVE  Cardinality(Sent(e, u, q)) = Cardinality(Sent(e, u, RemoveAt(q, n)))
            + IF q[n].url = u THEN Times(e, q[n].events) ELSE 0
<1> DEFINE r == RemoveAt(q, n)
           f == [i \in DOMAIN r |-> IF i < n THEN i ELSE i + 1]
           len == Len(q)
<1>1. len \in Nat /\ DOMAIN q = 1..len /\ n \in 1..len /\ \A i \in 1..len : q[i] \in Batch
  OBVIOUS
<1>5. /\ r \in Seq(Batch) /\ Len(r) = len - 1
      /\ \A i \in 1..(len - 1) : r[i] = IF i < n THEN q[i] ELSE q[i + 1]
  BY TakenOut
<1> HIDE DEF r
<1>6. DOMAIN r = 1..(len - 1)
  BY <1>1, <1>5
<1>7. /\ f \in [DOMAIN r -> DOMAIN q]
      /\ \A i, j \in DOMAIN r : f[i] = f[j] => i = j
      /\ \A i \in DOMAIN r : q[f[i]] = r[i] /\ f[i] # n
  BY <1>1, <1>5, <1>6
<1>8. \A m \in DOMAIN q : m # n => \E i \in DOMAIN r : f[i] = m
  <2> SUFFICES ASSUME NEW m \in DOMAIN q, m # n PROVE \E i \in DOMAIN r : f[i] = m
    OBVIOUS
  <2>1. CASE m < n
    <3>1. m \in DOMAIN r /\ f[m] = m
      BY <1>1, <1>6, <2>1
    <3>2. QED  BY <3>1
  <2>2. CASE ~ (m < n)
    <3>1. m - 1 \in DOMAIN r /\ f[m - 1] = m
      BY <1>1, <1>6, <2>2
    <3>2. QED  BY <3>1
  <2>3. QED  BY <2>1, <2>2
<1> HIDE DEF f, len
<1> /\ Moves(f, r, q) /\ n \in Besides(f, r, q)
    /\ \A m \in Besides(f, r, q) : m = n
  BY <1>5, <1>7, <1>8 DEF Moves, Besides
<1>9. CASE q[n].url = u
  <2>1. \A m \in Besides(f, r, q) : m = n \/ q[m].url # u
    OBVIOUS
  <2>2. Cardinality(Sent(e, u, q)) = Cardinality(Sent(e, u, r)) + Times(e, q[n].events)
    BY <1>9, <2>1, SentMoved
  <2>3. QED  BY <1>1, <1>5, <1>9, <2>2 DEF r
<1>10. CASE q[n].url # u
  <2>1. \A m \in Besides(f, r, q) : q[m].url # u
    BY <1>10
  <2>2. Cardinality(Sent(e, u, q)) = Cardinality(Sent(e, u, r)) /\ Cardinality(Sent(e, u, r)) \in Nat
    BY <1>5, <2>1, SentMoved, SentFinite
  <2>3. QED  BY <1>1, <1>5, <1>10, <2>2 DEF r
<1>11. QED  BY <1>9, <1>10

\* A flush of what was buffered and, with an event, has come.
LEMMA FlushAccounts ==
  ASSUME BusTypeOK, BuffersAccount, NEW come \in SUBSET Urls, NEW e \in Events,
         NEW urls \in SUBSET Urls, NEW who \in Emitters \cup {"none"},
         NEW from, from = [u \in Urls |-> IF u \in come THEN Append(buffers[u], e) ELSE buffers[u]],
         Flush(urls, from, who),
         \A u \in Urls \ urls : Len(from[u]) < MaxBatchSize,
         timers' = (timers \cup come) \ urls,
         owed' = [u \in Urls |-> IF u \in come THEN [owed[u] EXCEPT ![e] = @ + 1] ELSE owed[u]]
  PROVE  BusTypeOK' /\ BuffersAccount'
<1>1. /\ buffers \in [Urls -> Seq(Events)] /\ timers \subseteq Urls
      /\ owed \in [Urls -> [Events -> Nat]] /\ MaxBatchSize \in Nat \ {0}
  BY WebhookAssumption DEF BusTypeOK
<1>2. from \in [Urls -> Seq(Events)]
  BY <1>1
<1>3. /\ sending' \in Seq(Batch)
      /\ buffers' = [u \in Urls |-> IF u \in urls THEN <<>> ELSE from[u]]
      /\ \A u \in Urls, x \in Events :
           Cardinality(Sent(x, u, sending')) =
             Cardinality(Sent(x, u, sending)) + IF u \in urls THEN Times(x, from[u]) ELSE 0
  <2>1. LeftByFlush(urls, from)
    BY <1>2, Flushed
  <2>2. QED  BY <2>1 DEF LeftByFlush
<1>4. BusTypeOK'
  <2>1. owed' \in [Urls -> [Events -> Nat]]
    BY <1>1
  <2>2. buffers' \in [Urls -> Seq(Events)]
    BY <1>2, <1>3
  <2>3. timers' \subseteq Urls
    BY <1>1
  <2>4. QED  BY <1>3, <2>1, <2>2, <2>3 DEF BusTypeOK
<1>5. ASSUME NEW u \in Urls
      PROVE  u \in timers' <=> buffers'[u] # <<>>
  <2>1. u \in timers <=> buffers[u] # <<>>
    BY DEF BuffersAccount
  <2>2. from[u] # <<>> <=> u \in come \/ buffers[u] # <<>>
    <3>1. Append(buffers[u], e) # <<>>
      BY <1>1, AppendProperties
    <3>2. QED  BY <3>1
  <2>3. buffers'[u] = IF u \in urls THEN <<>> ELSE from[u]
    BY <1>3
  <2>4. QED  BY <2>1, <2>2, <2>3
<1>6. ASSUME NEW u \in Urls
      PROVE  Len(buffers'[u]) < MaxBatchSize
  <2>1. CASE u \in urls
    BY <1>1, <1>3, <2>1
  <2>2. CASE u \notin urls
    BY <1>3, <2>2
  <2>3. QED  BY <2>1, <2>2
<1>7. ASSUME NEW u \in Urls, NEW x \in Events
      PROVE  owed'[u][x] = Times(x, buffers'[u]) + Cardinality(Sent(x, u, sending'))
  <2> DEFINE more == IF u \in come /\ x = e THEN 1 ELSE 0
             sent == Cardinality(Sent(x, u, sending))
             sentNow == Cardinality(Sent(x, u, sending'))
             old == Times(x, buffers[u])
             now1 == Times(x, from[u])
  <2>1. owed[u][x] = old + sent
    BY DEF BuffersAccount
  <2>2. old \in Nat /\ sent \in Nat /\ owed[u] \in [Events -> Nat]
    BY <1>1, PlacesFinite, SentFinite DEF BusTypeOK
  <2>3. now1 = old + more
    <3>1. CASE u \in come
      <4>1. from[u] = Append(buffers[u], e)
        BY <3>1
      <4>2. Times(x, Append(buffers[u], e)) = Times(x, buffers[u]) + IF e = x THEN 1 ELSE 0
        BY <1>1, TimesAppend
      <4>3. QED  BY <3>1, <4>1, <4>2
    <3>2. CASE u \notin come
      BY <2>2, <3>2
    <3>3. QED  BY <3>1, <3>2
  <2>4. owed'[u][x] = owed[u][x] + more
    <3>1. CASE u \in come
      <4>1. owed'[u] = [owed[u] EXCEPT ![e] = @ + 1]
        BY <3>1
      <4>2. QED  BY <2>2, <3>1, <4>1
    <3>2. CASE u \notin come
      BY <2>2, <3>2
    <3>3. QED  BY <3>1, <3>2
  <2>5. sentNow = sent + IF u \in urls THEN now1 ELSE 0
    BY <1>3
  <2>6. Times(x, buffers'[u]) = IF u \in urls THEN 0 ELSE now1
    BY <1>3, TimesEmpty
  <2>7. more \in Nat
    OBVIOUS
  <2>8. owed'[u][x] = Times(x, buffers'[u]) + sentNow
    <3> HIDE DEF more, sent, sentNow, old, now1
    <3>1. QED  BY <2>1, <2>2, <2>3, <2>4, <2>5, <2>6, <2>7
  <2>9. QED  BY <2>8
<1>8. QED  BY <1>4, <1>5, <1>6, <1>7 DEF BuffersAccount

LEMMA EmitAccounts ==
  ASSUME BusTypeOK, BuffersAccount, NEW e \in Events, NEW who \in Emitters, Emit(e, who)
  PROVE  BusTypeOK' /\ BuffersAccount'
<1> DEFINE pushed == [u \in Urls |-> IF u \in Endpoints[e] THEN Append(buffers[u], e) ELSE buffers[u]]
           full == {u \in Endpoints[e] : Len(pushed[u]) >= MaxBatchSize}
<1>1. /\ Flush(full, pushed, who) /\ timers' = (timers \cup Endpoints[e]) \ full
      /\ owed' = [u \in Urls |-> IF u \in Endpoints[e] THEN [owed[u] EXCEPT ![e] = @ + 1] ELSE owed[u]]
  BY DEF Emit
<1>2. Endpoints[e] \in SUBSET Urls /\ full \in SUBSET Urls /\ MaxBatchSize \in Nat
  BY WebhookAssumption
<1>3. \A u \in Urls \ full : Len(pushed[u]) < MaxBatchSize
  <2> SUFFICES ASSUME NEW u \in Urls \ full PROVE Len(pushed[u]) < MaxBatchSize
    OBVIOUS
  <2>1. CASE u \in Endpoints[e]
    <3>1. buffers[u] \in Seq(Events)
      BY DEF BusTypeOK
    <3>2. Append(buffers[u], e) \in Seq(Events)
      BY <3>1, AppendProperties
    <3>3. pushed[u] = Append(buffers[u], e) /\ ~ (Len(pushed[u]) >= MaxBatchSize)
      BY <2>1
    <3>4. Len(Append(buffers[u], e)) \in Nat
      BY <3>2, LenProperties
    <3>5. QED  BY <1>2, <3>3, <3>4
  <2>2. CASE u \notin Endpoints[e]
    BY <2>2 DEF BuffersAccount
  <2>3. QED  BY <2>1, <2>2
<1> HIDE DEF full
<1>4. \E from : from = pushed
  OBVIOUS
<1>5. PICK from : from = pushed
  BY <1>4
<1>6. Flush(full, from, who) /\ \A u \in Urls \ full : Len(from[u]) < MaxBatchSize
  BY <1>1, <1>3, <1>5
<1>7. QED  BY <1>1, <1>2, <1>5, <1>6, FlushAccounts

\* Without an event: a timer fires, or what is buffered is flushed.
LEMMA FlushedAccounts ==
  ASSUME BusTypeOK, BuffersAccount, NEW urls \in SUBSET Urls,
         Flush(urls, buffers, "none"), timers' = timers \ urls, owed' = owed
  PROVE  BusTypeOK' /\ BuffersAccount'
<1>1. /\ buffers \in [Urls -> Seq(Events)] /\ timers \subseteq Urls
      /\ owed \in [Urls -> [Events -> Nat]] /\ MaxBatchSize \in Nat \ {0}
  BY WebhookAssumption DEF BusTypeOK
<1>2. /\ sending' \in Seq(Batch)
      /\ buffers' = [u \in Urls |-> IF u \in urls THEN <<>> ELSE buffers[u]]
      /\ \A u \in Urls, x \in Events :
           Cardinality(Sent(x, u, sending')) =
             Cardinality(Sent(x, u, sending)) + IF u \in urls THEN Times(x, buffers[u]) ELSE 0
  <2>1. LeftByFlush(urls, buffers)
    BY <1>1, Flushed
  <2>2. QED  BY <2>1 DEF LeftByFlush
<1>3. BusTypeOK'
  BY <1>1, <1>2 DEF BusTypeOK
<1>4. ASSUME NEW u \in Urls
      PROVE  (u \in timers' <=> buffers'[u] # <<>>) /\ Len(buffers'[u]) < MaxBatchSize
  <2>1. (u \in timers <=> buffers[u] # <<>>) /\ Len(buffers[u]) < MaxBatchSize
    BY DEF BuffersAccount
  <2>2. buffers'[u] = IF u \in urls THEN <<>> ELSE buffers[u]
    BY <1>2
  <2>3. Len(<<>>) < MaxBatchSize
    BY <1>1
  <2>4. QED  BY <2>1, <2>2, <2>3
<1>5. ASSUME NEW u \in Urls, NEW x \in Events
      PROVE  owed'[u][x] = Times(x, buffers'[u]) + Cardinality(Sent(x, u, sending'))
  <2>1. owed[u][x] = Times(x, buffers[u]) + Cardinality(Sent(x, u, sending))
    BY DEF BuffersAccount
  <2>2. Times(x, buffers[u]) \in Nat /\ Cardinality(Sent(x, u, sending)) \in Nat
    BY <1>1, PlacesFinite, SentFinite DEF BusTypeOK
  <2>3. Times(x, buffers'[u]) = IF u \in urls THEN 0 ELSE Times(x, buffers[u])
    BY <1>2, TimesEmpty
  <2>4. Cardinality(Sent(x, u, sending')) =
          Cardinality(Sent(x, u, sending)) + IF u \in urls THEN Times(x, buffers[u]) ELSE 0
    BY <1>2
  <2>5. QED  BY <2>1, <2>2, <2>3, <2>4
<1>6. QED  BY <1>3, <1>4, <1>5 DEF BuffersAccount

LEMMA AnswerAccounts ==
  ASSUME BusTypeOK, BuffersAccount, Answer
  PROVE  BusTypeOK' /\ BuffersAccount'
<1>1. PICK n \in DOMAIN sending :
        /\ sending' = RemoveAt(sending, n)
        /\ owed' = [owed EXCEPT ![sending[n].url] =
             [e \in Events |-> @[e] - Times(e, sending[n].events)]]
        /\ buffers' = buffers /\ timers' = timers
  BY DEF Answer
<1>2. buffers \in [Urls -> Seq(Events)] /\ owed \in [Urls -> [Events -> Nat]] /\ sending \in Seq(Batch)
  BY DEF BusTypeOK
<1>3. \A u \in Urls, e \in Events :
        Cardinality(Sent(e, u, sending)) = Cardinality(Sent(e, u, sending'))
          + IF sending[n].url = u THEN Times(e, sending[n].events) ELSE 0
  BY <1>1, <1>2, Answered
<1>4. ASSUME NEW u \in Urls, NEW e \in Events
      PROVE  /\ owed'[u][e] = Times(e, buffers'[u]) + Cardinality(Sent(e, u, sending'))
             /\ owed'[u][e] \in Nat
  <2> DEFINE gone == IF sending[n].url = u THEN Times(e, sending[n].events) ELSE 0
  <2>1. owed[u][e] = Times(e, buffers[u]) + Cardinality(Sent(e, u, sending))
    BY DEF BuffersAccount
  <2>2. sending' \in Seq(Batch) /\ sending[n] \in Batch
    BY <1>1, <1>2, TakenOut
  <2>3. sending[n].events \in Seq(Events)
    BY <2>2 DEF Batch
  <2>4. Times(e, buffers[u]) \in Nat /\ Cardinality(Sent(e, u, sending')) \in Nat /\ gone \in Nat
    BY <1>2, <2>2, <2>3, PlacesFinite, SentFinite
  <2>5. owed'[u][e] = owed[u][e] - gone
    <3>1. CASE sending[n].url = u
      BY <1>1, <1>2, <3>1
    <3>2. CASE sending[n].url # u
      BY <1>1, <1>2, <3>2
    <3>3. QED  BY <3>1, <3>2
  <2>6. Cardinality(Sent(e, u, sending)) = Cardinality(Sent(e, u, sending')) + gone
    BY <1>3
  <2> HIDE DEF gone
  <2>7. QED  BY <1>1, <2>1, <2>4, <2>5, <2>6
<1>5. sending' \in Seq(Batch)
  BY <1>1, <1>2, TakenOut
<1>6. owed' \in [Urls -> [Events -> Nat]]
  <2>1. owed' = [u \in Urls |-> owed'[u]] /\ \A u \in Urls : owed'[u] = [e \in Events |-> owed'[u][e]]
    BY <1>1, <1>2
  <2>2. QED  BY <1>4, <2>1
<1>7. BusTypeOK'
  BY <1>1, <1>5, <1>6 DEF BusTypeOK
<1>8. QED  BY <1>1, <1>4, <1>7 DEF BuffersAccount

Empty ==
  /\ buffers = [u \in Urls |-> <<>>] /\ timers = {} /\ sending = <<>>
  /\ owed = [u \in Urls |-> [e \in Events |-> 0]]

LEMMA EmptyAccounts == Empty => BusTypeOK /\ BuffersAccount
<1> SUFFICES ASSUME Empty PROVE BusTypeOK /\ BuffersAccount
  OBVIOUS
<1> USE DEF Empty
<1>1. MaxBatchSize \in Nat \ {0}
  BY WebhookAssumption
<1>2. BusTypeOK
  BY DEF BusTypeOK
<1>3. ASSUME NEW u \in Urls, NEW e \in Events
      PROVE  owed[u][e] = Times(e, buffers[u]) + Cardinality(Sent(e, u, sending))
  <2>1. Sent(e, u, sending) = {}
    BY DEF Sent
  <2>2. Times(e, buffers[u]) = 0 /\ Cardinality(Sent(e, u, sending)) = 0
    BY <2>1, TimesEmpty, FS_EmptySet
  <2>3. QED  BY <2>2
<1>4. \A u \in Urls : buffers[u] = <<>> /\ Len(buffers[u]) = 0
  OBVIOUS
<1>5. QED  BY <1>1, <1>2, <1>3, <1>4 DEF BuffersAccount

LEMMA BusAccounts ==
  ASSUME Types, BusTypeOK, BuffersAccount, [Next]_vars
  PROVE  BusTypeOK' /\ BuffersAccount'
<1>1. ASSUME UNCHANGED busVars PROVE BusTypeOK' /\ BuffersAccount'
  BY <1>1 DEF BusTypeOK, BuffersAccount, busVars
<1>2. ASSUME NEW s \in Scans, ScanStep(s) PROVE BusTypeOK' /\ BuffersAccount'
  <2>1. CASE EmitReminder(s)
    <3>1. (\E m \in scans[s].todo : Emit(m, s)) \/ UNCHANGED busVars
      BY <2>1 DEF EmitReminder
    <3>2. scans[s].todo \subseteq Events /\ s \in Emitters
      BY FollowUpsAssumption DEF Types, Scan, Memories
    <3>3. QED  BY <1>1, <3>1, <3>2, EmitAccounts
  <2>2. CASE ~ EmitReminder(s)
    BY <1>1, <1>2, <2>2 DEF ScanStep, StartScan, QueryNotified, EndScan, Mark, MarkFails, Count
  <2>3. QED  BY <2>1, <2>2
<1>3. CASE Bus
  <2>1. CASE \E u \in Urls : Fire(u)
    <3>1. PICK u \in Urls : Flush({u}, buffers, "none") /\ timers' = timers \ {u} /\ owed' = owed
      BY <2>1 DEF Fire
    <3>2. {u} \in SUBSET Urls
      OBVIOUS
    <3>3. QED  BY <3>1, <3>2, FlushedAccounts
  <2>2. CASE Answer
    BY <2>2, AnswerAccounts
  <2>3. CASE Dispose
    <3> DEFINE urls == {u \in Urls : buffers[u] # <<>>}
    <3>1. Flush(urls, buffers, "none") /\ timers' = timers \ urls /\ owed' = owed
      BY <2>3 DEF Dispose
    <3>2. urls \in SUBSET Urls
      OBVIOUS
    <3> HIDE DEF urls
    <3>3. QED  BY <3>1, <3>2, FlushedAccounts
  <2>4. QED  BY <1>3, <2>1, <2>2, <2>3 DEF Bus, BusStep
<1>4. CASE \E w \in Editors : FinishEdit(w) \/ \E m \in Edited : StartEdit(w, m)
  BY <1>1, <1>4 DEF FinishEdit, StartEdit
<1>5. CASE Tick
  BY <1>1, <1>5 DEF Tick
<1>6. CASE Die
  <2>1. Empty'
    BY <1>6 DEF Die, BusDies, Empty
  <2>2. QED  BY <2>1, EmptyAccounts, PTL
<1>7. CASE UNCHANGED vars
  BY <1>1, <1>7 DEF vars
<1>8. QED  BY <1>2, <1>3, <1>4, <1>5, <1>6, <1>7 DEF Next

\* Types: the scheduler, the buffers and the batches under way.
THEOREM TypeCorrect == Spec => []TypeOK
<1>1. Init => Shape /\ BusTypeOK /\ BuffersAccount
  <2>1. Init => Empty
    BY DEF Init, BusInit, Empty
  <2>2. QED  BY <2>1, EmptyAccounts, InitShape
<1>2. Shape /\ BusTypeOK /\ BuffersAccount /\ [Next]_vars => (Shape /\ BusTypeOK /\ BuffersAccount)'
  BY StepShape, BusAccounts DEF Shape, Scanned
<1>3. Shape /\ BusTypeOK => TypeOK
  BY DEF Shape, Scanned, EditShape, Types, TypeOK
<1>4. QED  BY <1>1, <1>2, <1>3, PTL DEF Spec

\* Account: whatever flushes a buffer, every event that came is in one place until it is
\* answered.
THEOREM BuffersAlwaysAccount == Spec => []BuffersAccount
<1>1. Init => Shape /\ BusTypeOK /\ BuffersAccount
  <2>1. Init => Empty
    BY DEF Init, BusInit, Empty
  <2>2. QED  BY <2>1, EmptyAccounts, InitShape
<1>2. Shape /\ BusTypeOK /\ BuffersAccount /\ [Next]_vars => (Shape /\ BusTypeOK /\ BuffersAccount)'
  BY StepShape, BusAccounts DEF Shape, Scanned
<1>3. QED  BY <1>1, <1>2, PTL DEF Spec

=============================================================================

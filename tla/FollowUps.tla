------------------------------ MODULE FollowUps ------------------------------
(***************************************************************************)
(* FollowUpSchedulerService over the batched webhooks: scans of a          *)
(* collection, which may overlap, emit a reminder for each memory that is  *)
(* due and then mark the memory as notified.  Errors of one memory are     *)
(* counted on it and swallowed.  Meanwhile owners edit their memories:     *)
(* MemoryService.update reads a memory and later replaces it whole.        *)
(***************************************************************************)
EXTENDS BatchedWebhook

CONSTANTS
  Rank,        \* the order in which the store lists the memories
  Scans,       \* the scans that may overlap
  Editors,     \* the edits that may overlap
  Edited,      \* the memories that their owners edit
  Page,        \* the limit of a query
  MaxCount,    \* MAX_FAILURE_COUNT
  MaxTime,     \* bound on the clock
  MaxEdits,    \* bound on the edits
  MaxFailures  \* bound on the calls that fail and the processes that die

Memories == Events

ASSUME FollowUpsAssumption ==
  /\ Rank \in [Events -> Nat]
  /\ Scans \subseteq Emitters /\ Edited \subseteq Memories
  /\ Page \in Nat /\ MaxCount \in Nat /\ MaxTime \in Nat \ {0}
  /\ MaxEdits \in Nat /\ MaxFailures \in Nat

Never == -1
Dates == 1..MaxTime

VARIABLES
  now,
  due,      \* follow_up_date of each memory, Never for none
  notified, \* follow_up_notified_at, Never for none
  counts,   \* follow_up_failure_count
  scans,    \* what each scan is doing
  editing,  \* what each edit has read of its memory
  edits,    \* how many edits were begun
  failures, \* how many calls failed
  reminded, \* history: the date of the last reminder of each memory
  torn      \* history: the memories for which a second reminder, or none, is to be expected

vars == <<busVars, now, due, notified, counts, scans, editing, edits, failures, reminded,
          torn>>

Phases == {"idle", "emit", "mark", "count"}
Scan == [phase : Phases, query : {"first", "second"}, started : 0..MaxTime,
         todo : SUBSET Memories, at : SUBSET Memories,
         dates : [Memories -> Dates \cup {Never}], counts : [Memories -> Nat]]
IdleScan == [phase |-> "idle", query |-> "first", started |-> 0, todo |-> {}, at |-> {},
             dates |-> [m \in Memories |-> Never], counts |-> [m \in Memories |-> 0]]

\* What an edit writes back besides the fields it was asked to change.
Edit == [at : SUBSET Memories, date : Dates \cup {Never}, mark : 0..MaxTime \cup {Never},
         count : 0..MaxCount]
NoEdit == [at |-> {}, date |-> Never, mark |-> Never, count |-> 0]

TypeOK ==
  /\ BusTypeOK
  /\ now \in 0..MaxTime
  /\ due \in [Memories -> Dates \cup {Never}]
  /\ notified \in [Memories -> 0..MaxTime \cup {Never}]
  /\ counts \in [Memories -> 0..MaxCount]
  /\ scans \in [Scans -> Scan]
  /\ editing \in [Editors -> Edit]
  /\ edits \in 0..MaxEdits
  /\ failures \in 0..MaxFailures
  /\ reminded \in [Memories -> Dates \cup {Never}]
  /\ torn \in [twice : SUBSET Memories, never : SUBSET Memories]

Init ==
  /\ BusInit
  /\ now = 0
  /\ due \in [Memories -> {1, Never}]
  /\ notified = [m \in Memories |-> Never]
  /\ counts = [m \in Memories |-> 0]
  /\ scans = [s \in Scans |-> IdleScan]
  /\ editing = [w \in Editors |-> NoEdit]
  /\ edits = 0
  /\ failures = 0
  /\ reminded = [m \in Memories |-> Never]
  /\ torn = [twice |-> {}, never |-> {}]

-----------------------------------------------------------------------------

memoryVars == <<due, notified, counts>>
owner == <<editing, edits>>
history == <<reminded, torn>>

In(s, phase) == scans[s].phase = phase
Pending(s) == scans[s].todo \cup scans[s].at
Fail == failures < MaxFailures /\ failures' = failures + 1

\* Only what is still to do is kept of what was read.
Keep(ms, f, none) == [m \in Memories |-> IF m \in ms THEN f[m] ELSE none]
Proceed(s) ==
  scans' = [scans EXCEPT ![s] = [@ EXCEPT
    !.phase = "emit", !.at = {},
    !.dates = Keep(scans[s].todo, scans[s].dates, Never),
    !.counts = Keep(scans[s].todo, scans[s].counts, 0)]]

\* The memories a query finds.  The second finds every memory that was notified once.
Matching(query, time) ==
  {m \in Memories :
    /\ due[m] # Never /\ due[m] <= time
    /\ counts[m] < MaxCount
    /\ (notified[m] = Never) = (query = "first")}

FirstPage(ms) == {m \in ms : Cardinality({n \in ms : Rank[n] < Rank[m]}) < Page}

\* Slip: a memory is due again when its notification is not newer.
DueAgainSlip(m) == due[m] >= notified[m]

DueAgain(m) == due[m] > notified[m]

\* Slip: only those never notified are looked for.
FoundOnce(query, time) == {m \in FirstPage(Matching(query, time)) : query = "first"}

Found(query, time) ==
  {m \in FirstPage(Matching(query, time)) : query = "first" \/ DueAgain(m)}

\* What a query finds is worked off as it was read.
Query(s, query, time) ==
  LET found == Found(query, time) IN
  /\ scans' = [scans EXCEPT ![s] =
       [phase |-> "emit", query |-> query, started |-> time, todo |-> found, at |-> {},
        dates |-> Keep(found, due, Never), counts |-> Keep(found, counts, 0)]]
  /\ torn' = [torn EXCEPT !.twice = @ \cup (found \cap UNION {Pending(t) : t \in Scans \ {s}})]
  /\ UNCHANGED failures

\* A query that fails ends the scan of the collection.
QueryFails(s) == Fail /\ scans' = [scans EXCEPT ![s] = IdleScan] /\ UNCHANGED torn

StartScan(s) ==
  /\ In(s, "idle")
  /\ Query(s, "first", now) \/ QueryFails(s)
  /\ UNCHANGED <<busVars, now, memoryVars, reminded, owner>>

QueryNotified(s) ==
  /\ In(s, "emit") /\ scans[s].query = "first" /\ scans[s].todo = {}
  /\ Query(s, "second", scans[s].started) \/ QueryFails(s)
  /\ UNCHANGED <<busVars, now, memoryVars, reminded, owner>>

EndScan(s) ==
  /\ In(s, "emit") /\ scans[s].query = "second" /\ scans[s].todo = {}
  /\ scans' = [scans EXCEPT ![s] = IdleScan]
  /\ UNCHANGED <<busVars, now, memoryVars, failures, history, owner>>

\* Slip: a reminder that fails is marked like the others.
EmitReminderSwallowing(s) ==
  /\ In(s, "emit")
  /\ \E m \in scans[s].todo :
       LET working(phase) == [scans EXCEPT ![s].phase = phase, ![s].at = {m}, ![s].todo = @ \ {m}] IN
       \/ /\ Emit(m, s)
          /\ scans' = working("mark")
          /\ reminded' = [reminded EXCEPT ![m] = scans[s].dates[m]]
          /\ UNCHANGED failures
       \/ Fail /\ scans' = working("mark") /\ UNCHANGED <<busVars, reminded>>
  /\ UNCHANGED <<now, memoryVars, torn, owner>>

\* emit resolves when the event is buffered, unless it fills a batch; it rejects only when
\* the endpoints cannot be resolved or a callback throws, before or after the event is out.
EmitReminder(s) ==
  /\ In(s, "emit")
  /\ \E m \in scans[s].todo :
       LET working(phase) == [scans EXCEPT ![s].phase = phase, ![s].at = {m}, ![s].todo = @ \ {m}] IN
       \/ /\ Emit(m, s)
          /\ scans' = working("mark")
          /\ reminded' = [reminded EXCEPT ![m] = scans[s].dates[m]]
          /\ UNCHANGED failures
       \/ Fail /\ scans' = working("count") /\ UNCHANGED <<busVars, reminded>>
  /\ UNCHANGED <<now, memoryVars, torn, owner>>

\* The mark carries the time at which it is written.
Mark(s) ==
  /\ In(s, "mark") /\ Emitted(s)
  /\ \E m \in scans[s].at :
       /\ notified' = [notified EXCEPT ![m] = now]
       /\ counts' = [counts EXCEPT ![m] = 0]
  /\ Proceed(s)
  /\ UNCHANGED <<busVars, now, due, failures, history, owner>>

\* A callback throws or the mark fails: the reminder counts as failed although it is out.
MarkFails(s) ==
  /\ In(s, "mark") /\ Emitted(s)
  /\ Fail
  /\ scans' = [scans EXCEPT ![s].phase = "count"]
  /\ torn' = [torn EXCEPT !.twice = @ \cup scans[s].at]
  /\ UNCHANGED <<busVars, now, memoryVars, reminded, owner>>

\* The count read by the query is counted up and written; a failing write is swallowed.
Count(s) ==
  /\ In(s, "count")
  /\ \/ /\ \E m \in scans[s].at : counts' = [counts EXCEPT ![m] = scans[s].counts[m] + 1]
        /\ UNCHANGED failures
     \/ Fail /\ UNCHANGED counts
  /\ Proceed(s)
  /\ UNCHANGED <<busVars, now, due, notified, history, owner>>

\* MemoryService.update reads the memory.  The properties it asks for do not include those
\* of a reminder: they are read only when that query fails and it falls back to all.
StartEdit(w, m) ==
  /\ editing[w].at = {} /\ edits < MaxEdits
  /\ edits' = edits + 1
  /\ \/ editing' = [editing EXCEPT ![w] = [NoEdit EXCEPT !.at = {m}]]
     \/ editing' = [editing EXCEPT ![w] =
          [at |-> {m}, date |-> due[m], mark |-> notified[m], count |-> counts[m]]]
  /\ UNCHANGED <<busVars, now, memoryVars, scans, failures, history>>

\* An edit can leave a date that was given without its mark, to be given again; and one that
\* was not given behind a mark, its own or that of a scan at work on the date before.
Tear(m, date, mark) ==
  LET busy == \E s \in Scans : m \in Pending(s)
      marking == \E s \in Scans : In(s, "mark") /\ m \in scans[s].at
      given == reminded[m] = date
      Clear(ms) == IF busy THEN ms ELSE ms \ {m} IN
  torn' = [twice |-> IF given /\ mark < date /\ ~marking THEN torn.twice \cup {m}
                     ELSE Clear(torn.twice),
           never |-> IF \/ ~given /\ date # Never /\ date <= mark
                        \/ busy /\ date # due[m]
                     THEN torn.never \cup {m} ELSE Clear(torn.never)]

\* It then replaces the memory by what it read and the fields it changes, of which the date
\* may be one, whatever time it names.
FinishEdit(w) ==
  \E m \in editing[w].at, date \in Dates \cup {Never, editing[w].date} :
    /\ due' = [due EXCEPT ![m] = date]
    /\ notified' = [notified EXCEPT ![m] = editing[w].mark]
    /\ counts' = [counts EXCEPT ![m] = editing[w].count]
    /\ Tear(m, date, editing[w].mark)
    /\ editing' = [editing EXCEPT ![w] = NoEdit]
    /\ UNCHANGED <<busVars, now, scans, edits, failures, reminded>>

Tick ==
  /\ now < MaxTime
  /\ now' = now + 1
  /\ UNCHANGED <<busVars, memoryVars, scans, failures, history, owner>>

\* The process dies and is started again.
Die ==
  /\ Fail
  /\ BusDies
  /\ scans' = [s \in Scans |-> IdleScan]
  /\ torn' = [torn EXCEPT !.twice = @ \cup UNION {scans[s].at : s \in Scans}]
  /\ UNCHANGED <<now, memoryVars, reminded, owner>>

ScanStep(s) ==
  \/ StartScan(s) \/ QueryNotified(s) \/ EndScan(s)
  \/ EmitReminder(s) \/ Mark(s) \/ MarkFails(s) \/ Count(s)

Bus == (BusStep \/ Dispose) /\ UNCHANGED <<now, memoryVars, scans, failures, history, owner>>

Next ==
  \/ \E s \in Scans : ScanStep(s)
  \/ Bus
  \/ \E w \in Editors : FinishEdit(w) \/ \E m \in Edited : StartEdit(w, m)
  \/ Tick \/ Die

\* The scheduler calls a scan every minute, so some scan always goes on, whatever becomes of
\* the others; timers fire and batches are answered or time out.
Spec ==
  /\ Init /\ [][Next]_vars
  /\ WF_vars(\E s \in Scans : ScanStep(s))
  /\ WF_vars(BusStep /\ UNCHANGED <<now, memoryVars, scans, failures, history, owner>>)

-----------------------------------------------------------------------------
(* Properties.                                                             *)

\* No date is reminded of twice, unless two scans met on the memory, its mark failed, the
\* process died before it, or an edit took the mark away and left the date.
OncePerDate ==
  [][\A s \in Scans : (In(s, "emit") /\ scans'[s].phase = "mark") =>
       \A m \in scans'[s].at : reminded[m] # scans[s].dates[m] \/ m \in torn.twice]_vars

\* A memory that its mark keeps from being reminded of was reminded of the date it is due,
\* unless an edit changed the date while a scan was at work on it, or wrote a date and a mark
\* that is not before it.
NeverSilenced ==
  \A m \in Memories \ torn.never :
    (notified[m] # Never /\ due[m] # Never /\ due[m] <= notified[m]) => reminded[m] = due[m]

\* The second query lists other memories before this one that fill its page.
Crowded(m) ==
  /\ notified[m] # Never
  /\ Cardinality({n \in Matching("second", now) : Rank[n] < Rank[m]}) >= Page

\* Every date that comes is reminded of, unless it is moved or dropped before, has failed as
\* often as the limit says, or an edit put it behind a mark; or, of a memory that was
\* notified before, for ever others fill the page that it is looked for on.
Reminded ==
  \A m \in Memories :
    \/ (due[m] # Never /\ due[m] <= now) ~>
         (reminded[m] = due[m] \/ due[m] = Never \/ due[m] > now \/ counts[m] >= MaxCount
          \/ m \in torn.never)
    \/ <>[]Crowded(m)

=============================================================================

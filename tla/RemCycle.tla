------------------------------- MODULE RemCycle -------------------------------
(***************************************************************************)
(* The REM cycle of one collection (RemService.runCycle): score the        *)
(* memories nobody scored, classify, update the ghost's mood, look for     *)
(* relationships, prune what matters least, reconcile tensions.  Each      *)
(* phase works on the oldest or lowest few memories and swallows its own   *)
(* failures; meanwhile the user creates, updates and deletes memories.     *)
(* What the language model answers is arbitrary.  Relationships are the    *)
(* business of module Relationships; abstraction and curation leave what   *)
(* is described here alone; a threshold memory of the mood is one more     *)
(* memory that is created.                                                 *)
(***************************************************************************)
EXTENDS Integers, FiniteSets

CONSTANTS
  MaxMemories,     \* bound: memories 1..MaxMemories, in the order of their creation
  Answers,         \* what scoring may find of a memory, a subset of Scores
  Contradictions,  \* whether classification may find contradictions: {FALSE} or BOOLEAN
  MinSize,         \* min_collection_size
  ScoringBatch,    \* scoring_batch_size
  CostCap,         \* scoring_cost_cap, in memories whose scoring it pays for
  ClassifyBatch,   \* CLASSIFICATION_BATCH_SIZE
  PruneLimit,      \* DEFAULT_MAX_PRUNE_CANDIDATES
  Ceiling,         \* SIGNIFICANCE_CEILING, in steps of significance
  DecayThreshold,  \* DECAY_THRESHOLD, in steps of decay
  Life,            \* the mood updates until a pressure has faded
  MaxEdits,        \* bound: updates and deletions by the user
  MaxFaults        \* bound: failing calls and crashes

Memories == 1..MaxMemories

\* Dimensions that could not be scored are null.
NoScore == -1

Scores == [sig : {NoScore} \cup 0..Ceiling, tense : BOOLEAN, stirs : BOOLEAN]

ASSUME RemCycleAssumption ==
  /\ {MaxMemories, MinSize, ScoringBatch, CostCap, ClassifyBatch, PruneLimit,
      Ceiling, DecayThreshold, Life} \subseteq Nat \ {0}
  /\ MaxEdits \in Nat
  /\ MaxFaults \in Nat
  /\ Answers \subseteq Scores
  /\ Contradictions \subseteq BOOLEAN

VARIABLES
  count,      \* the memories created so far are 1..count
  mem,        \* the properties of each memory that the phases read and write
  index,      \* the memories with a genre in the classification index
  mood,       \* the ghost's mood: how far each pressure drifted it, and the pressures
  cycle,      \* the cycle that runs: its phase, what is left of its batch, the
              \* scorings it paid for, the decays it will write and the
              \* pressures it read
  edit,       \* the user's update or deletion under way
  torn,       \* history: pressures whose bookkeeping a failure or an edit tore
  owed,       \* history: pressures that scoring and classification found
  edits,      \* edits so far
  faults      \* faults so far

vars == <<count, mem, index, mood, cycle, edit, torn, owed, edits, faults>>

Memory == [touched : BOOLEAN, sig : {NoScore} \cup 0..Ceiling, tense : BOOLEAN,
           decay : 0..DecayThreshold, deleted : BOOLEAN]

\* What a pressure is known by: the memory it comes from and the phase that saw it.
Causes == Memories \X {"scored", "contradicted"}

Phases == {"idle", "score", "press", "classify", "mood", "settle", "discover",
           "prune", "reconcile"}

Fresh == [touched |-> FALSE, sig |-> NoScore, tense |-> FALSE, decay |-> 0,
          deleted |-> FALSE]

Resting == [phase |-> "idle", back |-> "idle", todo |-> {}, paid |-> 0, cause |-> <<1, "scored">>,
            read |-> [m \in Memories |-> 0], felt |-> {}]

TypeOK ==
  /\ count \in 0..MaxMemories
  /\ mem \in [Memories -> Memory]
  /\ index \subseteq Memories
  /\ mood.drift \in [Causes -> Nat]
  /\ mood.pressures \subseteq [cause : Causes, magnitude : 1..Life]
  /\ cycle.phase \in Phases
  /\ cycle.todo \subseteq Memories
  /\ edit \in [busy : BOOLEAN, m : Memories, kind : {"update", "delete"}, snap : Memory]
  /\ torn \subseteq Causes
  /\ owed \subseteq Causes
  /\ edits \in 0..MaxEdits
  /\ faults \in 0..MaxFaults

Init ==
  /\ count = 0
  /\ mem = [m \in Memories |-> Fresh]
  /\ index = {}
  /\ mood = [drift |-> [c \in Causes |-> 0], pressures |-> {}]
  /\ cycle = Resting
  /\ edit = [busy |-> FALSE, m |-> 1, kind |-> "update", snap |-> Fresh]
  /\ torn = {}
  /\ owed = {}
  /\ edits = 0
  /\ faults = 0

-----------------------------------------------------------------------------
(* What a phase works on. *)

\* The k oldest of S: a query sorted by created_at, with a limit.
Oldest(S, k) == {m \in S : Cardinality({n \in S : n < m}) < k}

First(S) == CHOOSE m \in S : \A n \in S : m <= n

\* selectMemoriesForScoring: the oldest that REM never touched, deleted or not.
Unscored == Oldest({m \in 1..count : ~ mem[m].touched}, ScoringBatch)

\* selectUnclassifiedMemories: the oldest are fetched, then filtered.
Unclassified == Oldest(Oldest(1..count, 2 * ClassifyBatch) \ index, ClassifyBatch)

\* Memories with a significance below the ceiling; an unscored one has none.
Low(m) == m <= count /\ mem[m].sig \in 0..(Ceiling - 1)

\* The order of a query sorted by total_significance.
Before(n, m) == mem[n].sig < mem[m].sig \/ (mem[n].sig = mem[m].sig /\ n < m)

\* Slip: the query leaves out the filter on deleted_at.
PruningCandidatesWithDeleted ==
  LET kept == {m \in Memories : Low(m)}
  IN  {m \in kept : Cardinality({n \in kept : Before(n, m)}) < PruneLimit}

\* selectPruningCandidates: the least significant that are not deleted.  What REM
\* itself writes is inserted as touched and never scored, so it has no significance.
PruningCandidates ==
  LET kept == {m \in Memories : Low(m) /\ ~ mem[m].deleted}
  IN  {m \in kept : Cardinality({n \in kept : Before(n, m)}) < PruneLimit}

\* computeDecayIncrement: the less significant decay faster, the tense not at all.
DecayIncrement(m) == IF mem[m].tense THEN 0 ELSE Ceiling - mem[m].sig

\* The decay a candidate gets.
NextDecay(m) ==
  LET sum == mem[m].decay + DecayIncrement(m)
  IN  IF sum > DecayThreshold THEN DecayThreshold ELSE sum

-----------------------------------------------------------------------------
(* The ghost's mood. *)

\* Slip: the pressure replaces the list.
PressuresWithOnly(c) == {[cause |-> c, magnitude |-> Life]}

\* addPressure: append one pressure to the list that was just read.
PressuresWith(c) == mood.pressures \cup {[cause |-> c, magnitude |-> Life]}

\* decayPressures: weaken every pressure and drop those below the threshold.
Decayed(ps) ==
  {[p EXCEPT !.magnitude = @ - 1] : p \in {q \in ps : q.magnitude > 1}}

\* driftMoodState: every pressure of the list moves its dimension.
Drifted(drift, ps) ==
  [c \in Causes |-> drift[c] + Cardinality({p \in ps : p.cause = c})]

-----------------------------------------------------------------------------
(* The cycle, one phase after the other. *)

To(phase) == [cycle EXCEPT !.phase = phase, !.todo = {}, !.paid = 0]

Affordable == cycle.paid < CostCap

\* Too small a collection is left alone.
Begin ==
  /\ cycle.phase = "idle"
  /\ count >= MinSize
  /\ cycle' = [Resting EXCEPT !.phase = "score", !.todo = Unscored]
  /\ UNCHANGED <<count, mem, index, mood, edit, torn, owed, edits, faults>>

\* Phase 0 scores a memory and marks it as touched, whatever was scored.  It is
\* paid for once its pressures are added; one pressure stands for all it stirs.
Score ==
  /\ cycle.phase = "score" /\ cycle.todo # {} /\ Affordable
  /\ LET m == First(cycle.todo)
     IN  \E a \in Answers :
           /\ mem' = [mem EXCEPT ![m].touched = TRUE,
                                 ![m].sig = IF a.sig = NoScore THEN @ ELSE a.sig,
                                 ![m].tense = IF a.sig = NoScore THEN @ ELSE a.tense]
           /\ owed' = IF a.stirs THEN owed \cup {<<m, "scored">>} ELSE owed
           /\ cycle' = [cycle EXCEPT !.phase = IF a.stirs THEN "press" ELSE @,
                                     !.back = "score", !.todo = @ \ {m},
                                     !.paid = IF a.stirs THEN @ ELSE @ + 1,
                                     !.cause = IF a.stirs THEN <<m, "scored">> ELSE @]
  /\ UNCHANGED <<count, index, mood, edit, torn, edits, faults>>

\* moodService.addPressure, called by scoring and by classification.
AddPressure ==
  /\ cycle.phase = "press"
  /\ mood' = [mood EXCEPT !.pressures = PressuresWith(cycle.cause)]
  /\ cycle' = [cycle EXCEPT !.phase = cycle.back,
                            !.paid = IF cycle.back = "score" THEN @ + 1 ELSE @]
  /\ UNCHANGED <<count, mem, index, edit, torn, owed, edits, faults>>

StartClassification ==
  /\ cycle.phase = "score" /\ (cycle.todo = {} \/ ~ Affordable)
  /\ cycle' = [To("classify") EXCEPT !.todo = Unclassified]
  /\ UNCHANGED <<count, mem, index, mood, edit, torn, owed, edits, faults>>

\* A memory gets its genre; contradictions with its neighbours press on the mood.
Classify ==
  /\ cycle.phase = "classify" /\ cycle.todo # {}
  /\ LET m == First(cycle.todo)
     IN  \E contradicted \in Contradictions :
           /\ index' = index \cup {m}
           /\ owed' = IF contradicted THEN owed \cup {<<m, "contradicted">>} ELSE owed
           /\ cycle' = [cycle EXCEPT !.phase = IF contradicted THEN "press" ELSE @,
                                     !.back = "classify", !.todo = @ \ {m},
                                     !.cause = IF contradicted
                                               THEN <<m, "contradicted">> ELSE @]
  /\ UNCHANGED <<count, mem, mood, edit, torn, edits, faults>>

\* runMoodUpdate reads the mood.
ReadMood ==
  /\ cycle.phase = "classify" /\ cycle.todo = {}
  /\ cycle' = [To("mood") EXCEPT !.felt = mood.pressures]
  /\ UNCHANGED <<count, mem, index, mood, edit, torn, owed, edits, faults>>

\* It saves the dimensions the pressures moved ...
DriftMood ==
  /\ cycle.phase = "mood"
  /\ mood' = [mood EXCEPT !.drift = Drifted(@, cycle.felt)]
  /\ cycle' = To("settle")
  /\ UNCHANGED <<count, mem, index, edit, torn, owed, edits, faults>>

\* ... then the weakened pressures.
SettlePressures ==
  /\ cycle.phase = "settle"
  /\ mood' = [mood EXCEPT !.pressures = Decayed(cycle.felt)]
  /\ cycle' = [To("discover") EXCEPT !.felt = {}]
  /\ UNCHANGED <<count, mem, index, edit, torn, owed, edits, faults>>

\* Without candidates or clusters the cycle ends here.
FindNothing ==
  /\ cycle.phase = "discover"
  /\ cycle' = Resting
  /\ UNCHANGED <<count, mem, index, mood, edit, torn, owed, edits, faults>>

\* With clusters it goes on to pruning, which reads its candidates and skips the
\* exempt ones.
StartPruning ==
  /\ cycle.phase = "discover"
  /\ cycle' = [To("prune") EXCEPT
       !.todo = {m \in PruningCandidates : DecayIncrement(m) # 0},
       !.read = [m \in Memories |-> IF m \in PruningCandidates THEN NextDecay(m) ELSE 0]]
  /\ UNCHANGED <<count, mem, index, mood, edit, torn, owed, edits, faults>>

\* A candidate decays from what was read of it, and is deleted at the threshold.
Prune ==
  /\ cycle.phase = "prune" /\ cycle.todo # {}
  /\ LET m == First(cycle.todo)
     IN  /\ mem' = [mem EXCEPT ![m].decay = cycle.read[m], ![m].touched = TRUE,
                               ![m].deleted = @ \/ cycle.read[m] = DecayThreshold]
         /\ cycle' = [cycle EXCEPT !.todo = @ \ {m}]
  /\ UNCHANGED <<count, index, mood, edit, torn, owed, edits, faults>>

StartReconciliation ==
  /\ cycle.phase = "prune" /\ cycle.todo = {}
  /\ cycle' = [To("reconcile") EXCEPT !.read = Resting.read]
  /\ UNCHANGED <<count, mem, index, mood, edit, torn, owed, edits, faults>>

\* A note on a tense memory and one that conflicts with it touches both, each in
\* an update that may fail on its own.
Reconcile ==
  /\ cycle.phase = "reconcile" /\ count > 1
  /\ \E a, m \in 1..count :
       /\ mem[a].tense /\ ~ mem[a].deleted
       /\ mem' = [mem EXCEPT ![m].touched = TRUE]
  /\ UNCHANGED <<count, index, mood, cycle, edit, torn, owed, edits, faults>>

EndCycle ==
  /\ cycle.phase = "reconcile"
  /\ cycle' = Resting
  /\ UNCHANGED <<count, mem, index, mood, edit, torn, owed, edits, faults>>

-----------------------------------------------------------------------------
(* Failures. *)

Fault == faults < MaxFaults /\ faults' = faults + 1

\* The causes whose bookkeeping is half done in this phase.
HalfDone ==
  CASE cycle.phase = "press" -> {cycle.cause}
    [] cycle.phase = "settle" -> {p.cause : p \in cycle.felt}
    [] OTHER -> {}

\* A failing call is swallowed by the loop or the phase it belongs to.
CallFails ==
  /\ Fault
  /\ torn' = torn \cup HalfDone
  /\ \/ /\ cycle.phase \in {"score", "classify", "prune"} /\ cycle.todo # {}
        /\ cycle.phase = "score" => Affordable
        /\ cycle' = [cycle EXCEPT !.todo = @ \ {First(@)}]
     \/ /\ cycle.phase = "press"
        /\ cycle' = [cycle EXCEPT !.phase = cycle.back]
     \/ /\ cycle.phase \in {"mood", "settle"}
        /\ cycle' = [To("discover") EXCEPT !.felt = {}]
  /\ UNCHANGED <<count, mem, index, mood, edit, owed, edits>>

\* The process dies, or a call outside every phase fails: the cycle is over.
Crash ==
  /\ Fault
  /\ cycle.phase # "idle"
  /\ torn' = torn \cup HalfDone
  /\ cycle' = Resting
  /\ UNCHANGED <<count, mem, index, mood, edit, owed, edits>>

-----------------------------------------------------------------------------
(* The user. *)

Create ==
  /\ count < MaxMemories
  /\ count' = count + 1
  /\ UNCHANGED <<mem, index, mood, cycle, edit, torn, owed, edits, faults>>

\* MemoryService.update and delete read the whole memory, which must not be deleted.
StartEdit(m, kind) ==
  /\ ~ edit.busy /\ edits < MaxEdits
  /\ m <= count /\ ~ mem[m].deleted
  /\ edit' = [busy |-> TRUE, m |-> m, kind |-> kind, snap |-> mem[m]]
  /\ edits' = edits + 1
  /\ UNCHANGED <<count, mem, index, mood, cycle, torn, owed, faults>>

\* ... and replace it: what REM wrote in between is gone.
FinishEdit ==
  /\ edit.busy
  /\ mem' = [mem EXCEPT ![edit.m] =
               [edit.snap EXCEPT !.deleted = (edit.kind = "delete")]]
  /\ edit' = [busy |-> FALSE, m |-> 1, kind |-> "update", snap |-> Fresh]
  /\ torn' = IF mem[edit.m].touched /\ ~ edit.snap.touched
             THEN torn \cup {<<edit.m, "scored">>} ELSE torn
  /\ UNCHANGED <<count, index, mood, cycle, owed, edits, faults>>

-----------------------------------------------------------------------------

CycleStep ==
  \/ Begin \/ Score \/ AddPressure
  \/ StartClassification \/ Classify
  \/ ReadMood \/ DriftMood \/ SettlePressures
  \/ FindNothing \/ StartPruning \/ Prune
  \/ StartReconciliation \/ Reconcile \/ EndCycle

Next ==
  \/ CycleStep \/ CallFails \/ Crash
  \/ Create \/ FinishEdit
  \/ \E m \in Memories, kind \in {"update", "delete"} : StartEdit(m, kind)

\* The scheduler starts a cycle every day, and the worker that runs it goes on.
Fairness == WF_vars(CycleStep) /\ WF_vars(FinishEdit)

Spec == Init /\ [][Next]_vars /\ Fairness

-----------------------------------------------------------------------------

\* A pressure moves the mood once per update until it has faded: none is lost
\* or felt twice over the phases, the batches and the cycles, unless a failure
\* or an edit that makes REM score its memory again tore its bookkeeping.
PressuresFelt ==
  \A c \in owed \ (torn \cup HalfDone) :
    LET left == {p \in mood.pressures : p.cause = c}
    IN  \/ left = {} /\ mood.drift[c] = Life
        \/ \E p \in left : left = {p} /\ mood.drift[c] = Life - p.magnitude

\* A memory that pruning may reach: insignificant, calm, there, and not behind
\* so many tense ones, which stay where they are, that they fill the query.
InReach(m) ==
  /\ Low(m) /\ ~ mem[m].tense /\ ~ mem[m].deleted
  /\ Cardinality({n \in Memories : /\ Low(n) /\ mem[n].tense
                                   /\ ~ mem[n].deleted /\ Before(n, m)}) < PruneLimit

\* If cycles get as far as pruning again and again, an insignificant memory in
\* reach is deleted in the end: those before it make room.
PrunedInTurn ==
  \A m \in Memories : []<>(cycle.phase = "prune") => ~ <>[]InReach(m)

\* If cycles get as far as classification again and again, every memory is
\* classified in the end.
EventuallyClassified ==
  \A m \in Memories : []<>(cycle.phase = "classify") => ~ <>[](m <= count /\ m \notin index)

=============================================================================

--------------------------- MODULE RemCycle_proofs ---------------------------
(***************************************************************************)
(* Proofs about RemCycle, for any number of memories, edits and faults,    *)
(* any sizes of batches and any answers of the language model.             *)
(***************************************************************************)
EXTENDS RemCycle, FiniteSetTheorems, WellFoundedInduction, TLAPS

-----------------------------------------------------------------------------
(* Types.                                                                  *)

Pressure == [cause : Causes, magnitude : 1..Life]
Mood == [drift : [Causes -> Nat], pressures : SUBSET Pressure]
Cycle == [phase : Phases, back : {"idle", "score", "classify"}, todo : SUBSET Memories,
          paid : Nat, cause : Causes, read : [Memories -> 0..DecayThreshold], felt : SUBSET Pressure]
Edit == [busy : BOOLEAN, m : Memories, kind : {"update", "delete"}, snap : Memory]

Types ==
  /\ count \in 0..MaxMemories
  /\ mem \in [Memories -> Memory]
  /\ index \subseteq Memories
  /\ mood \in Mood /\ IsFiniteSet(mood.pressures)
  /\ cycle \in Cycle /\ IsFiniteSet(cycle.felt)
  /\ edit \in Edit
  /\ torn \subseteq Causes
  /\ owed \subseteq Causes
  /\ edits \in 0..MaxEdits
  /\ faults \in 0..MaxFaults
  /\ cycle.phase = "press" => cycle.back \in {"score", "classify"}
  /\ cycle.phase = "prune" =>
       \A m \in cycle.todo : cycle.read[m] \in 0..DecayThreshold

LEMMA Bounds ==
  /\ MaxMemories \in Nat /\ MaxMemories > 0 /\ Ceiling \in Nat /\ DecayThreshold \in Nat
  /\ Life \in Nat /\ Life > 0 /\ MaxEdits \in Nat /\ MaxFaults \in Nat
  /\ 1 \in Memories /\ Memories \subseteq Nat
BY RemCycleAssumption DEF Memories

LEMMA FirstIn == ASSUME NEW S \in SUBSET Memories, S # {} PROVE First(S) \in S
<1>1. S \in SUBSET Nat
  BY Bounds
<1>2. PICK n \in S : \A k \in S : n <= k
  <2> DEFINE R == {ss \in Nat \X Nat : ss[1] < ss[2]}
  <2>1. R = OpToRel(<, Nat)
    BY DEF OpToRel
  <2>2. IsWellFoundedOn(R, Nat)
    BY <2>1, NatLessThanWellFounded
  <2>3. PICK n \in S : \A k \in S : <<k, n>> \notin R
    BY <1>1, <2>2, WFMin
  <2>4. ASSUME NEW k \in S PROVE n <= k
    <3>1. k \in Nat /\ n \in Nat /\ <<k, n>> \notin R
      BY <1>1, <2>3
    <3>2. ~(k < n)
      BY <3>1
    <3>3. QED
      BY <3>1, <3>2
  <2>5. QED
    BY <2>4
<1>3. QED
  BY <1>2 DEF First

LEMMA FreshType ==
  /\ Fresh \in Memory /\ Fresh.touched = FALSE
  /\ Resting \in Cycle /\ Resting.phase = "idle" /\ Resting.felt = {} /\ Resting.todo = {}
<1>1. Fresh \in Memory /\ Fresh.touched = FALSE
  BY Bounds DEF Fresh, Memory
<1>2. [m \in Memories |-> 0] \in [Memories -> 0..DecayThreshold]
  BY Bounds
<1>3. <<1, "scored">> \in Causes
  BY Bounds DEF Causes
<1>4. QED
  BY <1>1, <1>2, <1>3 DEF Resting, Cycle, Phases

\* Weakening the pressures keeps them finite, and drops and weakens one by one.
LEMMA DecayedType ==
  ASSUME NEW ps \in SUBSET Pressure, IsFiniteSet(ps)
  PROVE  Decayed(ps) \in SUBSET Pressure /\ IsFiniteSet(Decayed(ps))
<1> DEFINE S == {q \in ps : q.magnitude > 1}
           f == [p \in S |-> [p EXCEPT !.magnitude = @ - 1]]
<1>1. IsFiniteSet(S)
  BY FS_Subset
<1>2. f \in Surjection(S, Decayed(ps))
  BY DEF Decayed, Surjection
<1>3. IsFiniteSet(Decayed(ps))
  BY <1>1, <1>2, FS_Surjection
<1>4. \A p \in S : [p EXCEPT !.magnitude = @ - 1] \in Pressure
  BY Bounds DEF Pressure
<1>5. QED
  BY <1>3, <1>4 DEF Decayed

LEMMA DriftedType ==
  ASSUME NEW drift \in [Causes -> Nat], NEW ps, IsFiniteSet(ps)
  PROVE  Drifted(drift, ps) \in [Causes -> Nat]
<1>1. ASSUME NEW c
      PROVE  Cardinality({p \in ps : p.cause = c}) \in Nat
  <2> DEFINE T == {p \in ps : p.cause = c}
  <2>1. T \in SUBSET ps
    OBVIOUS
  <2> HIDE DEF T
  <2>2. IsFiniteSet(T)
    BY <2>1, FS_Subset
  <2>3. Cardinality(T) \in Nat
    BY <2>2, FS_CardinalityType
  <2>4. QED
    BY <2>3 DEF T
<1> DEFINE card == [c \in Causes |-> Cardinality({p \in ps : p.cause = c})]
<1>2. card \in [Causes -> Nat]
  BY <1>1
<1>3. Drifted(drift, ps) = [c \in Causes |-> drift[c] + card[c]]
  BY DEF Drifted
<1> HIDE DEF card
<1>4. QED
  BY <1>2, <1>3

LEMMA InitTypes == Init => Types
<1> SUFFICES ASSUME Init PROVE Types
  OBVIOUS
<1>1. mood \in Mood /\ IsFiniteSet(mood.pressures)
  BY FS_EmptySet DEF Init, Mood
<1>2. cycle \in Cycle /\ IsFiniteSet(cycle.felt) /\ cycle.phase = "idle"
  BY FreshType, FS_EmptySet DEF Init
<1>3. edit \in Edit
  BY FreshType, Bounds DEF Init, Edit
<1>4. QED
  BY <1>1, <1>2, <1>3, FreshType, Bounds DEF Init, Types

\* The next phase of a cycle, with what it keeps.
LEMMA ToType ==
  ASSUME cycle \in Cycle, NEW phase \in Phases, NEW todo \in SUBSET Memories
  PROVE  /\ [To(phase) EXCEPT !.todo = todo] \in Cycle /\ To(phase) \in Cycle
         /\ [To(phase) EXCEPT !.todo = todo].phase = phase /\ To(phase).phase = phase
         /\ [To(phase) EXCEPT !.todo = todo].todo = todo /\ To(phase).todo = {}
         /\ [To(phase) EXCEPT !.todo = todo].felt = cycle.felt /\ To(phase).felt = cycle.felt
         /\ To(phase).read = cycle.read
BY DEF To, Cycle

LEMMA SelectionsType ==
  ASSUME Types
  PROVE  /\ Unscored \in SUBSET Memories /\ Unclassified \in SUBSET Memories
         /\ PruningCandidates \in SUBSET Memories
         /\ \A m \in Unscored : ~mem[m].touched
         /\ Unclassified \cap index = {}
         /\ \A m \in PruningCandidates : NextDecay(m) \in 0..DecayThreshold
<1>1. count \in Nat /\ count <= MaxMemories
  BY Bounds DEF Types
<1>2. 1..count \subseteq Memories
  BY <1>1, Bounds DEF Memories
<1>3. ASSUME NEW m \in PruningCandidates
      PROVE  NextDecay(m) \in 0..DecayThreshold
  <2>1. m \in Memories /\ mem[m].sig \in 0..(Ceiling - 1)
    BY <1>3 DEF PruningCandidates, Low
  <2>2. mem[m].decay \in 0..DecayThreshold
    BY <2>1 DEF Types, Memory
  <2>3. DecayIncrement(m) \in Nat
    BY <2>1, Bounds DEF DecayIncrement
  <2>4. QED
    BY <2>2, <2>3, Bounds DEF NextDecay
<1>4. QED
  BY <1>2, <1>3 DEF Unscored, Unclassified, Oldest, PruningCandidates

LEMMA StepTypes == Types /\ [Next]_vars => Types'
<1> SUFFICES ASSUME Types, [Next]_vars PROVE Types'
  OBVIOUS
<1>types. /\ count \in 0..MaxMemories /\ mem \in [Memories -> Memory] /\ index \subseteq Memories
          /\ mood \in Mood /\ IsFiniteSet(mood.pressures)
          /\ cycle \in Cycle /\ IsFiniteSet(cycle.felt) /\ edit \in Edit
          /\ torn \subseteq Causes /\ owed \subseteq Causes
          /\ edits \in 0..MaxEdits /\ faults \in 0..MaxFaults
  BY DEF Types
<1>first. cycle.todo # {} => First(cycle.todo) \in cycle.todo /\ First(cycle.todo) \in Memories
  BY <1>types, FirstIn DEF Cycle
<1>resting. Resting \in Cycle /\ Resting.phase = "idle" /\ IsFiniteSet(Resting.felt)
  BY FreshType, FS_EmptySet
<1>1. CASE Begin
  <2>1. cycle' = [Resting EXCEPT !.phase = "score", !.todo = Unscored]
    BY <1>1 DEF Begin
  <2>2. cycle' \in Cycle /\ cycle'.phase = "score" /\ cycle'.felt = Resting.felt
    BY <2>1, FreshType, SelectionsType DEF Cycle, Phases
  <2>3. QED
    BY <1>1, <1>types, <1>resting, <2>2 DEF Begin, Types
<1>2. CASE Score
  <2> DEFINE m == First(cycle.todo)
  <2>1. PICK a \in Answers :
          /\ mem' = [mem EXCEPT ![m].touched = TRUE,
                                ![m].sig = IF a.sig = NoScore THEN @ ELSE a.sig,
                                ![m].tense = IF a.sig = NoScore THEN @ ELSE a.tense]
          /\ owed' = IF a.stirs THEN owed \cup {<<m, "scored">>} ELSE owed
          /\ cycle' = [cycle EXCEPT !.phase = IF a.stirs THEN "press" ELSE @,
                                    !.back = "score", !.todo = @ \ {m},
                                    !.paid = IF a.stirs THEN @ ELSE @ + 1,
                                    !.cause = IF a.stirs THEN <<m, "scored">> ELSE @]
    BY <1>2 DEF Score
  <2>2. m \in Memories /\ <<m, "scored">> \in Causes
    BY <1>2, <1>first DEF Score, Causes
  <2>3. a.sig \in {NoScore} \cup 0..Ceiling /\ a.tense \in BOOLEAN
    BY RemCycleAssumption DEF Scores
  <2> HIDE DEF m
  <2>4. mem' \in [Memories -> Memory]
    <3> DEFINE new == [mem[m] EXCEPT !.touched = TRUE,
                                     !.sig = IF a.sig = NoScore THEN @ ELSE a.sig,
                                     !.tense = IF a.sig = NoScore THEN @ ELSE a.tense]
    <3>1. new \in Memory
      BY <1>types, <2>2, <2>3 DEF Memory
    <3>2. mem' = [mem EXCEPT ![m] = new]
      BY <1>types, <2>1, <2>2 DEF Memory
    <3> HIDE DEF new
    <3>3. QED
      BY <1>types, <3>1, <3>2
  <2>5. /\ cycle' \in Cycle /\ cycle'.felt = cycle.felt /\ cycle'.back = "score"
        /\ cycle'.phase \in {"score", "press"}
    <3> DEFINE phase == IF a.stirs THEN "press" ELSE cycle.phase
               paid == IF a.stirs THEN cycle.paid ELSE cycle.paid + 1
               cause == IF a.stirs THEN <<m, "scored">> ELSE cycle.cause
    <3>1. cycle.phase = "score" /\ cycle.paid \in Nat /\ cycle.cause \in Causes
      BY <1>2, <1>types DEF Score, Cycle
    <3>2. paid \in Nat
      BY <3>1
    <3>3. phase \in {"score", "press"} /\ phase \in Phases /\ cause \in Causes
      BY <2>2, <3>1 DEF Phases
    <3>4. cycle' = [cycle EXCEPT !.phase = phase, !.back = "score", !.todo = @ \ {m},
                                !.paid = paid, !.cause = cause]
      BY <2>1
    <3> HIDE DEF phase, paid, cause
    <3>5. QED
      BY <1>types, <3>2, <3>3, <3>4 DEF Cycle
  <2>6. QED
    BY <1>2, <1>types, <2>1, <2>2, <2>4, <2>5 DEF Score, Types
<1>3. CASE AddPressure
  <2>1. [cause |-> cycle.cause, magnitude |-> Life] \in Pressure
    BY <1>types, Bounds DEF Pressure, Cycle
  <2>2. PressuresWith(cycle.cause) \in SUBSET Pressure /\ IsFiniteSet(PressuresWith(cycle.cause))
    BY <1>types, <2>1, FS_AddElement DEF PressuresWith, Mood
  <2>3. mood' \in Mood /\ IsFiniteSet(mood'.pressures)
    BY <1>3, <1>types, <2>2 DEF AddPressure, Mood
  <2>4. /\ cycle' \in Cycle /\ cycle'.felt = cycle.felt /\ cycle'.phase \in {"score", "classify"}
    <3> DEFINE paid == IF cycle.back = "score" THEN cycle.paid + 1 ELSE cycle.paid
    <3>1. cycle.paid \in Nat /\ cycle.back \in {"score", "classify"}
      BY <1>3, <1>types DEF AddPressure, Types, Cycle
    <3>2. paid \in Nat
      BY <3>1
    <3>3. cycle' = [cycle EXCEPT !.phase = cycle.back, !.paid = paid]
      BY <1>3 DEF AddPressure
    <3> HIDE DEF paid
    <3>4. QED
      BY <1>types, <3>1, <3>2, <3>3 DEF Cycle, Phases
  <2>5. QED
    BY <1>3, <1>types, <2>3, <2>4 DEF AddPressure, Types
<1>4. CASE StartClassification
  <2>1. cycle' \in Cycle /\ cycle'.felt = cycle.felt /\ cycle'.phase = "classify"
    <3>1. Unclassified \in SUBSET Memories /\ "classify" \in Phases
      BY SelectionsType DEF Phases
    <3>2. cycle' = [To("classify") EXCEPT !.todo = Unclassified]
      BY <1>4 DEF StartClassification
    <3>3. QED
      BY <1>types, <3>1, <3>2, ToType
  <2>2. QED
    BY <1>4, <1>types, <2>1 DEF StartClassification, Types
<1>5. CASE Classify
  <2> DEFINE m == First(cycle.todo)
  <2>1. PICK contradicted \in Contradictions :
           /\ index' = index \cup {m}
           /\ owed' = IF contradicted THEN owed \cup {<<m, "contradicted">>} ELSE owed
           /\ cycle' = [cycle EXCEPT !.phase = IF contradicted THEN "press" ELSE @,
                                     !.back = "classify", !.todo = @ \ {m},
                                     !.cause = IF contradicted
                                               THEN <<m, "contradicted">> ELSE @]
    BY <1>5 DEF Classify
  <2>2. m \in Memories /\ <<m, "contradicted">> \in Causes
    BY <1>5, <1>first DEF Classify, Causes
  <2> HIDE DEF m
  <2>3. /\ cycle' \in Cycle /\ cycle'.felt = cycle.felt /\ cycle'.back = "classify"
        /\ cycle'.phase \in {"classify", "press"}
    BY <1>5, <1>types, <2>1, <2>2 DEF Classify, Cycle, Phases
  <2>4. QED
    BY <1>5, <1>types, <2>1, <2>2, <2>3 DEF Classify, Types
<1>6. CASE ReadMood
  <2>1. To("mood") \in Cycle /\ To("mood").phase = "mood"
    BY <1>types, ToType DEF Phases
  <2>2. cycle' \in Cycle /\ cycle'.felt = mood.pressures /\ cycle'.phase = "mood"
    BY <1>6, <1>types, <2>1 DEF ReadMood, Cycle, Mood
  <2>3. QED
    BY <1>6, <1>types, <2>2 DEF ReadMood, Types
<1>7. CASE DriftMood
  <2>1. Drifted(mood.drift, cycle.felt) \in [Causes -> Nat]
    BY <1>types, DriftedType DEF Mood
  <2>2. mood' \in Mood /\ mood'.pressures = mood.pressures
    BY <1>7, <1>types, <2>1 DEF DriftMood, Mood
  <2>3. cycle' \in Cycle /\ cycle'.felt = cycle.felt /\ cycle'.phase = "settle"
    BY <1>7, <1>types, ToType DEF DriftMood, Phases
  <2>4. QED
    BY <1>7, <1>types, <2>2, <2>3 DEF DriftMood, Types
<1>settled. ASSUME cycle' = [To("discover") EXCEPT !.felt = {}]
            PROVE  cycle' \in Cycle /\ cycle'.felt = {} /\ cycle'.phase = "discover"
  <2>1. To("discover") \in Cycle /\ To("discover").phase = "discover"
    BY <1>types, ToType DEF Phases
  <2>2. QED
    BY <1>settled, <2>1 DEF Cycle
<1>8. CASE SettlePressures
  <2>1. Decayed(cycle.felt) \in SUBSET Pressure /\ IsFiniteSet(Decayed(cycle.felt))
    BY <1>types, DecayedType DEF Cycle
  <2>2. mood' \in Mood /\ IsFiniteSet(mood'.pressures)
    BY <1>8, <1>types, <2>1 DEF SettlePressures, Mood
  <2>3. cycle' \in Cycle /\ cycle'.felt = {} /\ cycle'.phase = "discover"
    BY <1>8, <1>settled DEF SettlePressures
  <2>4. QED
    BY <1>8, <1>types, <2>2, <2>3, FS_EmptySet DEF SettlePressures, Types
<1>9. CASE FindNothing \/ EndCycle
  BY <1>9, <1>types, <1>resting DEF FindNothing, EndCycle, Types
<1>10. CASE StartPruning
  <2> DEFINE batch == {m \in PruningCandidates : DecayIncrement(m) # 0}
             decays == [m \in Memories |-> IF m \in PruningCandidates THEN NextDecay(m) ELSE 0]
  <2>1. batch \in SUBSET Memories /\ decays \in [Memories -> 0..DecayThreshold]
    BY SelectionsType, Bounds
  <2>2. To("prune") \in Cycle /\ To("prune").phase = "prune" /\ To("prune").felt = cycle.felt
    BY <1>types, ToType DEF Phases
  <2>3. cycle' = [To("prune") EXCEPT !.todo = batch, !.read = decays]
    BY <1>10 DEF StartPruning
  <2> HIDE DEF batch, decays
  <2>4. /\ cycle' \in Cycle /\ cycle'.felt = cycle.felt /\ cycle'.phase = "prune"
    BY <2>1, <2>2, <2>3 DEF Cycle
  <2>5. \A m \in cycle'.todo : cycle'.read[m] \in 0..DecayThreshold
    BY <2>4 DEF Cycle
  <2>6. QED
    BY <1>10, <1>types, <2>4, <2>5 DEF StartPruning, Types
<1>11. CASE Prune
  <2> DEFINE m == First(cycle.todo)
             new == [mem[m] EXCEPT !.decay = cycle.read[m], !.touched = TRUE,
                                   !.deleted = @ \/ cycle.read[m] = DecayThreshold]
  <2>1. m \in Memories /\ cycle.read[m] \in 0..DecayThreshold
    BY <1>11, <1>types, <1>first DEF Prune, Cycle
  <2>2. /\ mem' = [mem EXCEPT ![m].decay = cycle.read[m], ![m].touched = TRUE,
                              ![m].deleted = @ \/ cycle.read[m] = DecayThreshold]
        /\ cycle' = [cycle EXCEPT !.todo = @ \ {m}]
    BY <1>11 DEF Prune
  <2> HIDE DEF m
  <2>3. new \in Memory
    BY <1>types, <2>1 DEF Memory
  <2>4. mem' = [mem EXCEPT ![m] = new]
    BY <1>types, <2>1, <2>2 DEF Memory
  <2> HIDE DEF new
  <2>5. mem' \in [Memories -> Memory]
    BY <1>types, <2>1, <2>3, <2>4
  <2>6. cycle' \in Cycle /\ cycle'.felt = cycle.felt /\ cycle'.phase = "prune"
    BY <1>11, <1>types, <2>2 DEF Prune, Cycle
  <2>7. \A n \in cycle'.todo : cycle'.read[n] \in 0..DecayThreshold
    BY <2>6 DEF Cycle
  <2>8. QED
    BY <1>11, <1>types, <2>5, <2>6, <2>7 DEF Prune, Types
<1>12. CASE StartReconciliation
  <2>1. To("reconcile") \in Cycle /\ To("reconcile").phase = "reconcile"
        /\ To("reconcile").felt = cycle.felt
    BY <1>types, ToType DEF Phases
  <2>2. cycle' \in Cycle /\ cycle'.felt = cycle.felt /\ cycle'.phase = "reconcile"
    BY <1>12, <2>1, FreshType DEF StartReconciliation, Cycle
  <2>3. QED
    BY <1>12, <1>types, <2>2 DEF StartReconciliation, Types
<1>13. CASE Reconcile
  <2>1. mem' \in [Memories -> Memory]
    <3>1. PICK m \in 1..count : mem' = [mem EXCEPT ![m].touched = TRUE]
      BY <1>13 DEF Reconcile
    <3>2. m \in Memories
      BY <1>types, <3>1, Bounds DEF Memories
    <3>3. [mem[m] EXCEPT !.touched = TRUE] \in Memory
      BY <1>types, <3>2 DEF Memory
    <3>4. mem' = [mem EXCEPT ![m] = [mem[m] EXCEPT !.touched = TRUE]]
      BY <1>types, <3>1, <3>2
    <3>5. QED
      BY <1>types, <3>3, <3>4
  <2>2. QED
    BY <1>13, <1>types, <2>1 DEF Reconcile, Types
<1>fault. ASSUME Fault
          PROVE  faults' \in 0..MaxFaults
  BY <1>fault, <1>types, Bounds DEF Fault
<1>half. HalfDone \in SUBSET Causes
  BY <1>types DEF HalfDone, Cycle, Pressure
<1>14. CASE CallFails
  <2>1. torn' \in SUBSET Causes
    BY <1>14, <1>types, <1>half DEF CallFails
  <2>2. CASE /\ cycle.phase \in {"score", "classify", "prune"} /\ cycle.todo # {}
             /\ cycle' = [cycle EXCEPT !.todo = @ \ {First(@)}]
    <3>1. cycle' \in Cycle /\ cycle'.felt = cycle.felt /\ cycle'.phase = cycle.phase
      BY <1>types, <2>2 DEF Cycle
    <3>2. \A m \in cycle'.todo : cycle'.read[m] \in 0..DecayThreshold
      BY <3>1 DEF Cycle
    <3>3. QED
      BY <1>14, <1>types, <1>fault, <2>1, <2>2, <3>1, <3>2 DEF CallFails, Types
  <2>3. CASE /\ cycle.phase = "press"
             /\ cycle' = [cycle EXCEPT !.phase = cycle.back]
    <3>1. cycle' \in Cycle /\ cycle'.felt = cycle.felt /\ cycle'.phase \in {"score", "classify"}
      BY <1>types, <2>3 DEF Types, Cycle, Phases
    <3>2. QED
      BY <1>14, <1>types, <1>fault, <2>1, <3>1 DEF CallFails, Types
  <2>4. CASE cycle' = [To("discover") EXCEPT !.felt = {}]
    BY <1>14, <1>types, <1>fault, <1>settled, <2>1, <2>4, FS_EmptySet DEF CallFails, Types
  <2>5. QED
    BY <1>14, <2>2, <2>3, <2>4 DEF CallFails
<1>15. CASE Crash
  BY <1>15, <1>types, <1>resting, <1>fault, <1>half DEF Crash, Types
<1>16. CASE Create
  BY <1>16, <1>types, Bounds DEF Create, Types
<1>17. CASE FinishEdit
  <2>1. [edit.snap EXCEPT !.deleted = (edit.kind = "delete")] \in Memory /\ edit.m \in Memories
    BY <1>types DEF Edit, Memory
  <2>2. mem' \in [Memories -> Memory]
    BY <1>17, <1>types, <2>1 DEF FinishEdit
  <2>3. edit' \in Edit
    BY <1>17, FreshType, Bounds DEF FinishEdit, Edit
  <2>4. torn' \subseteq Causes
    BY <1>17, <1>types, <2>1 DEF FinishEdit, Causes
  <2>5. QED
    BY <1>17, <1>types, <2>2, <2>3, <2>4 DEF FinishEdit, Types
<1>18. ASSUME NEW m \in Memories, NEW kind \in {"update", "delete"}, StartEdit(m, kind)
       PROVE  Types'
  <2>1. edit' \in Edit
    BY <1>18, <1>types DEF StartEdit, Edit
  <2>2. edits' \in 0..MaxEdits
    BY <1>18, <1>types, Bounds DEF StartEdit
  <2>3. QED
    BY <1>18, <1>types, <2>1, <2>2 DEF StartEdit, Types
<1>19. CASE UNCHANGED vars
  BY <1>19 DEF vars, Types
<1>20. QED
  BY <1>1, <1>2, <1>3, <1>4, <1>5, <1>6, <1>7, <1>8, <1>9, <1>10, <1>11, <1>12, <1>13, <1>14,
     <1>15, <1>16, <1>17, <1>18, <1>19 DEF Next, CycleStep

\* Types: the memories, the mood and the place of the cycle stay what they are.
THEOREM TypeCorrect == Spec => []TypeOK
<1>1. Init => Types
  BY InitTypes
<1>2. Types /\ [Next]_vars => Types'
  BY StepTypes
<1>3. Types => TypeOK
  BY DEF Types, TypeOK, Mood, Cycle, Edit, Pressure
<1>4. QED
  BY <1>1, <1>2, <1>3, PTL DEF Spec

-----------------------------------------------------------------------------
(* Pressures.                                                              *)

Left(c) == {p \in mood.pressures : p.cause = c}
Clean(c) == mood.drift[c] = 0 /\ Left(c) = {}

\* What the list has of c, whose mood has drifted ahead of its weakening by lead.
Even(c, lead) ==
  \/ Left(c) = {} /\ mood.drift[c] = Life
  \/ \E p \in Left(c) : Left(c) = {p} /\ mood.drift[c] = lead + Life - p.magnitude

\* The bookkeeping of a pressure that was found.
Kept(c) ==
  CASE cycle.phase = "press" /\ c = cycle.cause -> Clean(c)
    [] ~(cycle.phase = "press" /\ c = cycle.cause) ->
         Even(c, IF cycle.phase = "settle" THEN 1 ELSE 0)

At(phase) == cycle.phase = phase \/ (cycle.phase = "press" /\ cycle.back = phase)

\* A memory is scored and classified once, unless an edit undoes the mark.
Once ==
  /\ At("score") => \A m \in cycle.todo : ~mem[m].touched
  /\ At("classify") => cycle.todo \cap index = {}
  /\ edit.busy /\ edit.snap.touched => mem[edit.m].touched
  /\ \A m \in Memories : <<m, "scored">> \in owed \ torn => mem[m].touched
  /\ \A m \in Memories : <<m, "contradicted">> \in owed => m \in index

Felt ==
  /\ \A c \in Causes \ owed : Clean(c)
  /\ cycle.phase \in {"mood", "settle"} => cycle.felt = mood.pressures
  /\ cycle.phase = "press" => cycle.cause \in owed
  /\ \A c \in owed \ torn : Kept(c)

LEMMA InitPressures == Init => Once /\ Felt
BY DEF Init, Once, Felt, Resting, At, Clean, Left, Fresh

\* A step that leaves the mood alone and is not between the two writes of it.
LEMMA FeltKept ==
  ASSUME Felt, Types, UNCHANGED <<mood, owed>>, torn \subseteq torn',
         cycle'.phase \notin {"press", "mood", "settle"},
         cycle.phase = "press" => cycle.cause \in torn',
         cycle.phase = "settle" => \A p \in cycle.felt : p.cause \in torn'
  PROVE  Felt'
<1>1. \A c : Left(c)' = Left(c) /\ Clean(c)' = Clean(c)
  BY DEF Left, Clean
<1>2. ASSUME NEW c \in owed' \ torn'
      PROVE  Kept(c)'
  <2>1. c \in owed \ torn /\ c \in Causes
    BY <1>2 DEF Types
  <2>2. ~(cycle.phase = "press" /\ c = cycle.cause)
    BY <1>2
  <2>3. Even(c, IF cycle.phase = "settle" THEN 1 ELSE 0)
    BY <2>1, <2>2 DEF Felt, Kept
  <2>4. Even(c, 0)
    <3>1. CASE cycle.phase = "settle"
      <4>1. cycle.felt = mood.pressures
        BY <3>1 DEF Felt
      <4>2. Left(c) = {}
        BY <1>2, <3>1, <4>1 DEF Left
      <4>3. QED
        BY <2>3, <4>2 DEF Even
    <3>2. CASE cycle.phase # "settle"
      BY <2>3, <3>2
    <3>3. QED
      BY <3>1, <3>2
  <2>5. Even(c, 0)'
    BY <1>1, <2>4 DEF Even
  <2>6. QED
    BY <2>5 DEF Kept
<1>3. QED
  BY <1>1, <1>2 DEF Felt

LEMMA StepOnce == Types /\ Once /\ [Next]_vars => Once'
<1> SUFFICES ASSUME Types, Once, [Next]_vars PROVE Once'
  OBVIOUS
<1>types. /\ mem \in [Memories -> Memory] /\ index \subseteq Memories /\ cycle \in Cycle
          /\ edit \in Edit
  BY DEF Types
<1>first. cycle.todo # {} => First(cycle.todo) \in cycle.todo /\ First(cycle.todo) \in Memories
  BY <1>types, FirstIn DEF Cycle
\* Steps that leave the marks alone and whose batch, if any, is what remains.
<1>quiet. ASSUME UNCHANGED <<mem, index, owed>>, torn \subseteq torn',
                 ~edit'.busy \/ edit' = edit,
                 At("score")' => At("score") /\ cycle'.todo \subseteq cycle.todo,
                 At("classify")' => At("classify") /\ cycle'.todo \subseteq cycle.todo
          PROVE  Once'
  BY <1>quiet DEF Once, At
<1>1. CASE Begin
  <2>1. cycle' = [Resting EXCEPT !.phase = "score", !.todo = Unscored]
    BY <1>1 DEF Begin
  <2>2. cycle'.phase = "score" /\ cycle'.todo = Unscored
    BY <2>1, FreshType DEF Cycle
  <2>3. \A m \in Unscored : ~mem[m].touched
    BY SelectionsType
  <2>4. QED
    BY <1>1, <2>2, <2>3 DEF Begin, Once, At
<1>2. CASE Score
  <2> DEFINE m == First(cycle.todo)
  <2>1. PICK a \in Answers :
          /\ mem' = [mem EXCEPT ![m].touched = TRUE,
                                ![m].sig = IF a.sig = NoScore THEN @ ELSE a.sig,
                                ![m].tense = IF a.sig = NoScore THEN @ ELSE a.tense]
          /\ owed' = IF a.stirs THEN owed \cup {<<m, "scored">>} ELSE owed
          /\ cycle' = [cycle EXCEPT !.phase = IF a.stirs THEN "press" ELSE @,
                                    !.back = "score", !.todo = @ \ {m},
                                    !.paid = IF a.stirs THEN @ ELSE @ + 1,
                                    !.cause = IF a.stirs THEN <<m, "scored">> ELSE @]
    BY <1>2 DEF Score
  <2>2. m \in Memories /\ cycle.phase = "score"
    BY <1>2, <1>first DEF Score
  <2> HIDE DEF m
  <2>3. /\ \A n \in Memories \ {m} : mem'[n] = mem[n]
        /\ mem'[m].touched = TRUE
    BY <1>types, <2>1, <2>2 DEF Memory
  <2>4. /\ cycle'.todo = cycle.todo \ {m} /\ cycle'.back = "score"
        /\ cycle'.phase \in {"score", "press"} /\ cycle.todo \subseteq Memories
    BY <1>types, <2>1, <2>2 DEF Cycle
  <2>5. UNCHANGED <<index, edit, torn>> /\ edit.m \in Memories
    BY <1>2, <1>types DEF Score, Edit
  <2>6. \A n \in cycle.todo : ~mem[n].touched
    BY <2>2 DEF Once, At
  <2>7. \A n \in cycle'.todo : ~mem'[n].touched
    BY <2>3, <2>4, <2>6
  <2>8. ~At("classify")'
    BY <2>4 DEF At
  <2>9. edit'.busy /\ edit'.snap.touched => mem'[edit'.m].touched
    BY <2>3, <2>5 DEF Once
  <2>10. \A n \in Memories : <<n, "scored">> \in owed' \ torn' => mem'[n].touched
    BY <2>1, <2>3, <2>5 DEF Once
  <2>11. \A n \in Memories : <<n, "contradicted">> \in owed' => n \in index'
    BY <2>1, <2>5 DEF Once
  <2>12. QED
    BY <2>7, <2>8, <2>9, <2>10, <2>11 DEF Once
<1>3. CASE AddPressure
  <2>1. /\ cycle' = [cycle EXCEPT !.phase = cycle.back,
                                  !.paid = IF cycle.back = "score" THEN @ + 1 ELSE @]
        /\ cycle.phase = "press"
    BY <1>3 DEF AddPressure
  <2>2. cycle'.phase = cycle.back /\ cycle'.todo = cycle.todo /\ cycle'.phase # "press"
    BY <1>types, <2>1 DEF Cycle
  <2>3. UNCHANGED <<mem, index, owed, torn, edit>>
    BY <1>3 DEF AddPressure
  <2>4. QED
    BY <1>quiet, <2>1, <2>2, <2>3 DEF At
<1>4. CASE StartClassification
  <2>1. cycle' = [To("classify") EXCEPT !.todo = Unclassified]
    BY <1>4 DEF StartClassification
  <2>2. cycle'.phase = "classify" /\ cycle'.todo = Unclassified
    <3>1. Unclassified \in SUBSET Memories /\ "classify" \in Phases
      BY SelectionsType DEF Phases
    <3>2. QED
      BY <1>types, <2>1, <3>1, ToType
  <2>3. Unclassified \cap index = {}
    BY SelectionsType
  <2>4. QED
    BY <1>4, <2>2, <2>3 DEF StartClassification, Once, At
<1>5. CASE Classify
  <2> DEFINE m == First(cycle.todo)
  <2>1. PICK contradicted \in Contradictions :
           /\ index' = index \cup {m}
           /\ owed' = IF contradicted THEN owed \cup {<<m, "contradicted">>} ELSE owed
           /\ cycle' = [cycle EXCEPT !.phase = IF contradicted THEN "press" ELSE @,
                                     !.back = "classify", !.todo = @ \ {m},
                                     !.cause = IF contradicted
                                               THEN <<m, "contradicted">> ELSE @]
    BY <1>5 DEF Classify
  <2>2. m \in Memories /\ cycle.phase = "classify"
    BY <1>5, <1>first DEF Classify
  <2> HIDE DEF m
  <2>3. /\ cycle'.todo = cycle.todo \ {m} /\ cycle'.back = "classify"
        /\ cycle'.phase \in {"classify", "press"}
    BY <1>types, <2>1, <2>2 DEF Cycle
  <2>4. UNCHANGED <<mem, edit, torn>>
    BY <1>5 DEF Classify
  <2>5. QED
    BY <2>1, <2>2, <2>3, <2>4 DEF Once, At
<1>6. CASE ReadMood \/ DriftMood \/ SettlePressures \/ FindNothing \/ EndCycle
           \/ StartPruning \/ StartReconciliation
  <2>1. cycle'.phase \in {"mood", "settle", "discover", "idle", "prune", "reconcile"}
    BY <1>6, <1>types, FreshType
       DEF ReadMood, DriftMood, SettlePressures, FindNothing, EndCycle, StartPruning,
           StartReconciliation, To, Cycle
  <2>2. UNCHANGED <<mem, index, owed, torn, edit>>
    BY <1>6 DEF ReadMood, DriftMood, SettlePressures, FindNothing, EndCycle, StartPruning,
                StartReconciliation
  <2>3. QED
    BY <1>quiet, <2>1, <2>2 DEF At
<1>touch. ASSUME UNCHANGED <<index, owed, torn, edit>>, ~At("score")', ~At("classify")',
                 \A n \in Memories : mem[n].touched => mem'[n].touched
          PROVE  Once'
  <2>1. edit.m \in Memories
    BY <1>types DEF Edit
  <2>2. QED
    BY <1>touch, <2>1 DEF Once
<1>7. CASE Prune
  <2> DEFINE m == First(cycle.todo)
  <2>1. /\ mem' = [mem EXCEPT ![m].decay = cycle.read[m], ![m].touched = TRUE,
                              ![m].deleted = @ \/ cycle.read[m] = DecayThreshold]
        /\ cycle'.phase = "prune" /\ m \in Memories
    BY <1>7, <1>types, <1>first DEF Prune, Cycle
  <2> HIDE DEF m
  <2>2. \A n \in Memories : mem[n].touched => mem'[n].touched
    BY <1>types, <2>1 DEF Memory
  <2>3. QED
    BY <1>7, <1>touch, <2>1, <2>2 DEF Prune, At
<1>8. CASE Reconcile
  <2>1. PICK m \in 1..count : mem' = [mem EXCEPT ![m].touched = TRUE]
    BY <1>8 DEF Reconcile
  <2>2. \A n \in Memories : mem[n].touched => mem'[n].touched
    BY <1>types, <2>1 DEF Memory
  <2>3. cycle'.phase = "reconcile"
    BY <1>8 DEF Reconcile
  <2>4. QED
    BY <1>8, <1>touch, <2>2, <2>3 DEF Reconcile, At
<1>9. CASE CallFails
  <2>1. UNCHANGED <<mem, index, owed, edit>> /\ torn \subseteq torn'
    BY <1>9 DEF CallFails
  <2>2. CASE cycle' = [cycle EXCEPT !.todo = @ \ {First(@)}]
    <3>1. cycle'.phase = cycle.phase /\ cycle'.back = cycle.back /\ cycle'.todo \subseteq cycle.todo
      BY <1>types, <2>2 DEF Cycle
    <3>2. QED
      BY <1>quiet, <2>1, <3>1 DEF At
  <2>3. CASE cycle.phase = "press" /\ cycle' = [cycle EXCEPT !.phase = cycle.back]
    <3>1. cycle'.phase = cycle.back /\ cycle'.todo = cycle.todo /\ cycle'.phase # "press"
      BY <1>types, <2>3 DEF Cycle
    <3>2. QED
      BY <1>quiet, <2>1, <2>3, <3>1 DEF At
  <2>4. CASE cycle' = [To("discover") EXCEPT !.felt = {}]
    <3>1. cycle'.phase = "discover"
      BY <1>types, <2>4 DEF To, Cycle
    <3>2. QED
      BY <1>quiet, <2>1, <3>1 DEF At
  <2>5. QED
    BY <1>9, <2>2, <2>3, <2>4 DEF CallFails
<1>10. CASE Crash
  BY <1>10, <1>quiet, FreshType DEF Crash, At
<1>11. CASE Create
  BY <1>11, <1>quiet DEF Create, At
<1>12. CASE FinishEdit
  <2> DEFINE new == [edit.snap EXCEPT !.deleted = (edit.kind = "delete")]
  <2>1. new.touched = edit.snap.touched /\ edit.m \in Memories
    BY <1>types DEF Edit, Memory
  <2>2. /\ mem' = [mem EXCEPT ![edit.m] = new] /\ edit.busy
        /\ UNCHANGED <<index, owed, cycle>>
        /\ torn' = IF mem[edit.m].touched /\ ~edit.snap.touched
                   THEN torn \cup {<<edit.m, "scored">>} ELSE torn
        /\ ~edit'.busy
    BY <1>12 DEF FinishEdit
  <2> HIDE DEF new
  <2>3. /\ \A n \in Memories \ {edit.m} : mem'[n] = mem[n]
        /\ mem'[edit.m].touched = edit.snap.touched
    BY <1>types, <2>1, <2>2
  <2>4. cycle.todo \subseteq Memories
    BY <1>types DEF Cycle
  <2>5. QED
    BY <2>1, <2>2, <2>3, <2>4 DEF Once, At
<1>13. ASSUME NEW m \in Memories, NEW kind \in {"update", "delete"}, StartEdit(m, kind)
       PROVE  Once'
  BY <1>13 DEF StartEdit, Once, At
<1>14. CASE UNCHANGED vars
  BY <1>14 DEF vars, Once, At
<1>15. QED
  BY <1>1, <1>2, <1>3, <1>4, <1>5, <1>6, <1>7, <1>8, <1>9, <1>10, <1>11, <1>12, <1>13, <1>14
     DEF Next, CycleStep

\* The cause of a new pressure is one the mood knows nothing of yet.
LEMMA NewCause ==
  ASSUME Felt, Types, NEW cc \in Causes, cc \notin owed \ torn,
         cycle.phase \notin {"press", "settle"}, UNCHANGED <<mood, torn>>,
         owed' = owed \cup {cc}, cycle'.phase = "press", cycle'.cause = cc
  PROVE  Felt'
<1>1. \A c : Left(c)' = Left(c) /\ Clean(c)' = Clean(c)
  BY DEF Left, Clean
<1>2. ASSUME NEW c \in owed' \ torn'
      PROVE  Kept(c)'
  <2>1. CASE c = cc
    <3>1. Clean(c)
      BY <1>2, <2>1 DEF Felt
    <3>2. QED
      BY <1>1, <2>1, <3>1 DEF Kept
  <2>2. CASE c # cc
    <3>1. Even(c, 0)
      BY <1>2, <2>2 DEF Felt, Kept
    <3>2. Even(c, 0)'
      BY <1>1, <3>1 DEF Even
    <3>3. QED
      BY <2>2, <3>2 DEF Kept
  <2>3. QED
    BY <2>1, <2>2
<1>3. QED
  BY <1>1, <1>2 DEF Felt

\* A step that leaves the cycle and the mood alone.
LEMMA FeltBesides ==
  ASSUME Felt, UNCHANGED <<mood, owed, cycle>>, torn \subseteq torn'
  PROVE  Felt'
<1>1. \A c : Left(c)' = Left(c) /\ Clean(c)' = Clean(c)
  BY DEF Left, Clean
<1>2. \A c : Kept(c)' = Kept(c)
  BY <1>1 DEF Kept, Even
<1>3. QED
  BY <1>1, <1>2 DEF Felt

\* The pressure that is appended is the only one of its cause.
LEMMA FeltAdded == Types /\ Felt /\ AddPressure => Felt'
<1> SUFFICES ASSUME Types, Felt, AddPressure PROVE Felt'
  OBVIOUS
<1> DEFINE c0 == cycle.cause
           new == [cause |-> c0, magnitude |-> Life]
<1>1. /\ cycle.phase = "press" /\ c0 \in owed
      /\ mood'.pressures = mood.pressures \cup {new} /\ mood'.drift = mood.drift
      /\ UNCHANGED <<torn, owed>>
  BY DEF AddPressure, PressuresWith, Types, Mood, Felt
<1>2. cycle'.phase \in {"score", "classify"}
  BY DEF AddPressure, Types, Cycle
<1>3. new.cause = c0 /\ new.magnitude = Life
  OBVIOUS
<1> HIDE DEF new, c0
<1>4. \A c : c # c0 => Left(c)' = Left(c)
  BY <1>1, <1>3 DEF Left
<1>5. ASSUME NEW c \in Causes \ owed'
      PROVE  Clean(c)'
  BY <1>1, <1>4, <1>5 DEF Felt, Clean
<1>6. ASSUME NEW c \in owed' \ torn'
      PROVE  Kept(c)'
  <2>1. CASE c = c0
    <3>1. Clean(c)
      BY <1>1, <1>6, <2>1 DEF Felt, Kept, c0
    <3>2. Left(c)' = {new}
      BY <1>1, <1>3, <2>1, <3>1 DEF Clean, Left
    <3>3. mood'.drift[c] = 0
      BY <1>1, <3>1 DEF Clean
    <3>4. Even(c, 0)'
      BY <1>3, <3>2, <3>3, Bounds DEF Even
    <3>5. QED
      BY <1>2, <3>4 DEF Kept
  <2>2. CASE c # c0
    <3>1. Even(c, 0)
      BY <1>1, <1>6, <2>2 DEF Felt, Kept, c0
    <3>2. Even(c, 0)'
      BY <1>1, <1>4, <2>2, <3>1 DEF Even
    <3>3. QED
      BY <1>2, <3>2 DEF Kept
  <2>3. QED
    BY <2>1, <2>2
<1>7. QED
  BY <1>2, <1>5, <1>6 DEF Felt

\* The drift of the mood counts the one pressure of a cause that is left.
LEMMA FeltDrifted == Types /\ Felt /\ DriftMood => Felt'
<1> SUFFICES ASSUME Types, Felt, DriftMood PROVE Felt'
  OBVIOUS
<1>1. /\ cycle.phase = "mood" /\ cycle.felt = mood.pressures
      /\ mood.drift \in [Causes -> Nat] /\ mood.pressures \subseteq Pressure
      /\ owed \subseteq Causes
  BY DEF DriftMood, Types, Mood, Felt
<1>2. /\ mood'.pressures = mood.pressures /\ mood'.drift = Drifted(mood.drift, cycle.felt)
      /\ UNCHANGED <<torn, owed>>
  BY DEF DriftMood, Types, Mood
<1>3. cycle'.phase = "settle" /\ cycle'.felt = cycle.felt
  BY ToType DEF DriftMood, Types, Phases
<1>4. \A c : Left(c)' = Left(c)
  BY <1>2 DEF Left
<1>5. ASSUME NEW c \in Causes
      PROVE  mood'.drift[c] = mood.drift[c] + Cardinality(Left(c))
  BY <1>1, <1>2 DEF Drifted, Left
<1>6. ASSUME NEW c \in Causes \ owed'
      PROVE  Clean(c)'
  <2>1. Clean(c) /\ Left(c) = {}
    BY <1>2, <1>6 DEF Felt, Clean
  <2>2. mood'.drift[c] = 0
    BY <1>5, <2>1, FS_EmptySet DEF Clean
  <2>3. QED
    BY <1>4, <2>1, <2>2 DEF Clean
<1>7. ASSUME NEW c \in owed' \ torn'
      PROVE  Kept(c)'
  <2>1. Even(c, 0) /\ c \in Causes /\ mood.drift[c] \in Nat
    BY <1>1, <1>2, <1>7 DEF Felt, Kept
  <2>2. CASE Left(c) = {} /\ mood.drift[c] = Life
    <3>1. Cardinality(Left(c)) = 0
      BY <2>2, FS_EmptySet, Zenon
    <3>2. mood'.drift[c] = mood.drift[c] + 0
      BY <1>5, <2>1, <3>1
    <3>3. mood'.drift[c] = Life
      BY <2>1, <2>2, <3>2
    <3>4. QED
      BY <1>3, <1>4, <2>2, <3>3 DEF Kept, Even
  <2>3. ASSUME NEW p \in Left(c), Left(c) = {p}, mood.drift[c] = 0 + Life - p.magnitude
        PROVE  Kept(c)'
    <3>1. Cardinality(Left(c)) = 1
      BY <2>3, FS_Singleton
    <3>2. p.magnitude \in Nat
      BY <1>1, <2>3, Bounds DEF Left, Pressure
    <3>3. mood'.drift[c] = mood.drift[c] + 1
      BY <1>5, <2>1, <3>1
    <3>4. mood'.drift[c] = 1 + Life - p.magnitude
      BY <2>3, <3>2, <3>3, Bounds
    <3>5. QED
      BY <1>3, <1>4, <2>3, <3>4 DEF Kept, Even
  <2>4. QED
    BY <2>1, <2>2, <2>3 DEF Even
<1>8. QED
  BY <1>1, <1>2, <1>3, <1>6, <1>7 DEF Felt

\* Weakening makes up for the drift: the pressure is weaker by one, or faded.
LEMMA FeltSettled == Types /\ Felt /\ SettlePressures => Felt'
<1> SUFFICES ASSUME Types, Felt, SettlePressures PROVE Felt'
  OBVIOUS
<1>1. /\ cycle.phase = "settle" /\ cycle.felt = mood.pressures
      /\ mood.drift \in [Causes -> Nat] /\ mood.pressures \subseteq Pressure
      /\ owed \subseteq Causes
  BY DEF SettlePressures, Types, Mood, Felt
<1>2. /\ mood'.pressures = Decayed(mood.pressures) /\ mood'.drift = mood.drift
      /\ UNCHANGED <<torn, owed>>
  BY <1>1 DEF SettlePressures, Types, Mood
<1>3. cycle'.phase = "discover"
  BY ToType DEF SettlePressures, Types, Phases, Cycle
<1>weak. ASSUME NEW p \in Pressure
         PROVE  /\ [p EXCEPT !.magnitude = @ - 1].cause = p.cause
                /\ [p EXCEPT !.magnitude = @ - 1].magnitude = p.magnitude - 1
  BY DEF Pressure
<1>4. ASSUME NEW c
      PROVE  Left(c)' = {[p EXCEPT !.magnitude = @ - 1] : p \in {q \in Left(c) : q.magnitude > 1}}
  <2>1. ASSUME NEW x \in Left(c)'
        PROVE  \E p \in {q \in Left(c) : q.magnitude > 1} : x = [p EXCEPT !.magnitude = @ - 1]
    <3>1. x \in Decayed(mood.pressures) /\ x.cause = c
      BY <1>2, <2>1 DEF Left
    <3>2. PICK p \in mood.pressures : p.magnitude > 1 /\ x = [p EXCEPT !.magnitude = @ - 1]
      BY <3>1 DEF Decayed
    <3>3. p.cause = c
      BY <1>1, <1>weak, <3>1, <3>2
    <3>4. QED
      BY <3>2, <3>3 DEF Left
  <2>2. ASSUME NEW p \in Left(c), p.magnitude > 1
        PROVE  [p EXCEPT !.magnitude = @ - 1] \in Left(c)'
    <3> DEFINE x == [p EXCEPT !.magnitude = @ - 1]
    <3>1. p \in mood.pressures /\ p.cause = c
      BY <2>2 DEF Left
    <3>2. x \in Decayed(mood.pressures)
      BY <2>2, <3>1 DEF Decayed
    <3>3. x.cause = c
      BY <1>1, <1>weak, <3>1
    <3> HIDE DEF x
    <3>4. x \in Left(c)'
      BY <1>2, <3>2, <3>3 DEF Left
    <3>5. QED
      BY <3>4 DEF x
  <2>3. QED
    BY <2>1, <2>2
<1>5. ASSUME NEW c \in Causes \ owed'
      PROVE  Clean(c)'
  <2>1. Left(c) = {} /\ mood.drift[c] = 0
    BY <1>2, <1>5 DEF Felt, Clean
  <2>2. QED
    BY <1>2, <1>4, <2>1 DEF Clean
<1>6. ASSUME NEW c \in owed' \ torn'
      PROVE  Kept(c)'
  <2>1. Even(c, 1)
    BY <1>1, <1>2, <1>6 DEF Felt, Kept
  <2>2. CASE Left(c) = {} /\ mood.drift[c] = Life
    <3>1. Left(c)' = {}
      BY <1>4, <2>2
    <3>2. QED
      BY <1>2, <1>3, <2>2, <3>1 DEF Kept, Even
  <2>3. ASSUME NEW p \in Left(c), Left(c) = {p}, mood.drift[c] = 1 + Life - p.magnitude
        PROVE  Kept(c)'
    <3> DEFINE weaker == [p EXCEPT !.magnitude = @ - 1]
    <3>1. p \in Pressure /\ p.magnitude \in 1..Life
      BY <1>1, <2>3 DEF Left, Pressure
    <3>2. weaker.magnitude = p.magnitude - 1
      BY <1>weak, <3>1
    <3>3. CASE p.magnitude > 1
      <4>1. Left(c)' = {weaker}
        BY <1>4, <2>3, <3>3
      <4> HIDE DEF weaker
      <4>2. mood'.drift[c] = 0 + Life - weaker.magnitude
        BY <1>2, <2>3, <3>1, <3>2, Bounds
      <4>3. Even(c, 0)'
        BY <4>1, <4>2 DEF Even
      <4>4. QED
        BY <1>3, <4>3 DEF Kept
    <3>4. CASE ~(p.magnitude > 1)
      <4>1. Left(c)' = {}
        BY <1>4, <2>3, <3>4
      <4>2. mood'.drift[c] = Life
        BY <1>2, <2>3, <3>1, <3>4, Bounds
      <4>3. QED
        BY <1>3, <4>1, <4>2 DEF Kept, Even
    <3>5. QED
      BY <3>3, <3>4
  <2>4. QED
    BY <2>1, <2>2, <2>3 DEF Even
<1>7. QED
  BY <1>3, <1>5, <1>6 DEF Felt

LEMMA StepFelt == Types /\ Once /\ Felt /\ [Next]_vars => Felt'
<1> SUFFICES ASSUME Types, Once, Felt, [Next]_vars PROVE Felt'
  OBVIOUS
<1>types. cycle \in Cycle /\ cycle.todo \subseteq Memories
  BY DEF Types, Cycle
<1>first. cycle.todo # {} => First(cycle.todo) \in cycle.todo /\ First(cycle.todo) \in Memories
  BY <1>types, FirstIn
<1>1. CASE Begin
  <2>1. cycle'.phase = "score"
    BY <1>1, FreshType DEF Begin, Cycle
  <2>2. QED
    BY <1>1, <2>1, FeltKept DEF Begin
<1>2. CASE Score
  <2> DEFINE m == First(cycle.todo)
  <2>1. PICK a \in Answers :
          /\ owed' = IF a.stirs THEN owed \cup {<<m, "scored">>} ELSE owed
          /\ cycle' = [cycle EXCEPT !.phase = IF a.stirs THEN "press" ELSE @,
                                    !.back = "score", !.todo = @ \ {m},
                                    !.paid = IF a.stirs THEN @ ELSE @ + 1,
                                    !.cause = IF a.stirs THEN <<m, "scored">> ELSE @]
    BY <1>2 DEF Score
  <2>2. m \in Memories /\ m \in cycle.todo /\ cycle.phase = "score" /\ UNCHANGED <<mood, torn>>
    BY <1>2, <1>first DEF Score
  <2>3. <<m, "scored">> \in Causes /\ <<m, "scored">> \notin owed \ torn
    BY <2>2 DEF Once, At, Causes
  <2> HIDE DEF m
  <2>4. CASE a.stirs
    <3>1. cycle'.phase = "press" /\ cycle'.cause = <<m, "scored">>
      BY <1>types, <2>1, <2>4 DEF Cycle
    <3>2. owed' = owed \cup {<<m, "scored">>}
      BY <2>1, <2>4
    <3>3. QED
      BY <2>2, <2>3, <3>1, <3>2, NewCause
  <2>5. CASE ~a.stirs
    <3>1. cycle'.phase = "score"
      BY <1>types, <2>1, <2>2, <2>5 DEF Cycle
    <3>2. QED
      BY <2>1, <2>2, <2>5, <3>1, FeltKept
  <2>6. QED
    BY <2>4, <2>5
<1>3. CASE Classify
  <2> DEFINE m == First(cycle.todo)
  <2>1. PICK contradicted \in Contradictions :
           /\ owed' = IF contradicted THEN owed \cup {<<m, "contradicted">>} ELSE owed
           /\ cycle' = [cycle EXCEPT !.phase = IF contradicted THEN "press" ELSE @,
                                     !.back = "classify", !.todo = @ \ {m},
                                     !.cause = IF contradicted
                                               THEN <<m, "contradicted">> ELSE @]
    BY <1>3 DEF Classify
  <2>2. m \in Memories /\ m \in cycle.todo /\ cycle.phase = "classify"
        /\ UNCHANGED <<mood, torn>>
    BY <1>3, <1>first DEF Classify
  <2>3. <<m, "contradicted">> \in Causes /\ <<m, "contradicted">> \notin owed \ torn
    BY <2>2 DEF Once, At, Causes
  <2> HIDE DEF m
  <2>4. CASE contradicted
    <3>1. cycle'.phase = "press" /\ cycle'.cause = <<m, "contradicted">>
      BY <1>types, <2>1, <2>4 DEF Cycle
    <3>2. owed' = owed \cup {<<m, "contradicted">>}
      BY <2>1, <2>4
    <3>3. QED
      BY <2>2, <2>3, <3>1, <3>2, NewCause
  <2>5. CASE ~contradicted
    <3>1. cycle'.phase = "classify"
      BY <1>types, <2>1, <2>2, <2>5 DEF Cycle
    <3>2. QED
      BY <2>1, <2>2, <2>5, <3>1, FeltKept
  <2>6. QED
    BY <2>4, <2>5
<1>4. CASE AddPressure
  BY <1>4, FeltAdded
<1>5. CASE ReadMood
  <2>1. cycle'.phase = "mood" /\ cycle'.felt = mood.pressures
    <3>1. To("mood") \in Cycle /\ To("mood").phase = "mood"
      BY <1>types, ToType DEF Phases
    <3>2. cycle' = [To("mood") EXCEPT !.felt = mood.pressures]
      BY <1>5 DEF ReadMood
    <3>3. QED
      BY <3>1, <3>2 DEF Cycle
  <2>2. cycle.phase = "classify" /\ UNCHANGED <<mood, owed, torn>>
    BY <1>5 DEF ReadMood
  <2>3. \A c : Left(c)' = Left(c) /\ Clean(c)' = Clean(c)
    BY <2>2 DEF Left, Clean
  <2>4. \A c : Kept(c)' = Kept(c)
    BY <2>1, <2>2, <2>3 DEF Kept, Even
  <2>5. QED
    BY <2>1, <2>2, <2>3, <2>4 DEF Felt
<1>6. CASE DriftMood
  BY <1>6, FeltDrifted
<1>7. CASE SettlePressures
  BY <1>7, FeltSettled
<1>8. CASE StartClassification \/ FindNothing \/ StartPruning \/ Prune \/ StartReconciliation
           \/ Reconcile \/ EndCycle
  <2>1. cycle'.phase \in {"classify", "idle", "prune", "reconcile"}
    BY <1>8, <1>types, FreshType
       DEF StartClassification, FindNothing, StartPruning, Prune, StartReconciliation, Reconcile,
           EndCycle, To, Cycle
  <2>2. UNCHANGED <<mood, owed, torn>> /\ cycle.phase \in {"score", "discover", "prune", "reconcile"}
    BY <1>8 DEF StartClassification, FindNothing, StartPruning, Prune, StartReconciliation,
                Reconcile, EndCycle
  <2>3. QED
    BY <2>1, <2>2, FeltKept
<1>half. /\ cycle.phase = "press" => cycle.cause \in HalfDone
         /\ cycle.phase = "settle" => \A p \in cycle.felt : p.cause \in HalfDone
  BY DEF HalfDone
<1>9. CASE CallFails
  <2>1. UNCHANGED <<mood, owed>> /\ torn' = torn \cup HalfDone
    BY <1>9 DEF CallFails
  <2>2. cycle'.phase \notin {"press", "mood", "settle"}
    BY <1>9, <1>types DEF CallFails, Types, To, Cycle
  <2>3. QED
    BY <1>half, <2>1, <2>2, FeltKept
<1>10. CASE Crash
  <2>1. UNCHANGED <<mood, owed>> /\ torn' = torn \cup HalfDone /\ cycle'.phase = "idle"
    BY <1>10, FreshType DEF Crash
  <2>2. QED
    BY <1>half, <2>1, FeltKept
<1>11. CASE Create
  BY <1>11, FeltBesides DEF Create
<1>12. CASE FinishEdit
  BY <1>12, FeltBesides DEF FinishEdit
<1>13. ASSUME NEW m \in Memories, NEW kind \in {"update", "delete"}, StartEdit(m, kind)
       PROVE  Felt'
  BY <1>13, FeltBesides DEF StartEdit
<1>14. CASE UNCHANGED vars
  BY <1>14, FeltBesides DEF vars
<1>15. QED
  BY <1>1, <1>2, <1>3, <1>4, <1>5, <1>6, <1>7, <1>8, <1>9, <1>10, <1>11, <1>12, <1>13, <1>14
     DEF Next, CycleStep

\* Pressures: each one moves the mood once per update until it has faded, over
\* the batches, the phases and the cycles, whatever the user does meanwhile.
THEOREM PressuresAreFelt == Spec => []PressuresFelt
<1>1. Init => Types /\ Once /\ Felt
  BY InitTypes, InitPressures
<1>2. Types /\ Once /\ Felt /\ [Next]_vars => (Types /\ Once /\ Felt)'
  BY StepTypes, StepOnce, StepFelt
<1>3. ASSUME Types, Felt
      PROVE  PressuresFelt
  <2> SUFFICES ASSUME NEW c \in owed \ (torn \cup HalfDone)
               PROVE  \/ Left(c) = {} /\ mood.drift[c] = Life
                      \/ \E p \in Left(c) : Left(c) = {p} /\ mood.drift[c] = Life - p.magnitude
    BY DEF PressuresFelt, Left
  <2>1. ~(cycle.phase = "press" /\ c = cycle.cause)
    BY DEF HalfDone
  <2>2. Even(c, IF cycle.phase = "settle" THEN 1 ELSE 0)
    <3>1. c \in owed \ torn
      OBVIOUS
    <3>2. QED
      BY <1>3, <2>1, <3>1 DEF Felt, Kept
  <2>3. cycle.phase = "settle" => Left(c) = {}
    BY <1>3 DEF Felt, HalfDone, Left
  <2>4. \A p \in Left(c) : p.magnitude \in Nat /\ 0 + Life - p.magnitude = Life - p.magnitude
    BY <1>3, Bounds DEF Left, Types, Mood, Pressure
  <2>5. QED
    BY <2>2, <2>3, <2>4 DEF Even
<1>4. QED
  BY <1>1, <1>2, <1>3, PTL DEF Spec

=============================================================================

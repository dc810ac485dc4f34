------------------------------ MODULE Jobs_proofs ------------------------------
(***************************************************************************)
(* Proofs about Jobs, for any number of items, chunks and steps and for    *)
(* any set of calls that may fail.                                         *)
(***************************************************************************)
EXTENDS Jobs, TLAPS

-----------------------------------------------------------------------------
(* What TypeOK needs to be inductive: the worker stands at one of its      *)
(* steps.                                                                  *)

AtStep == {"register", "create", "settle", "fail", "check", "mark", "read", "write"}

Position ==
  /\ Chunked => worker.size \in 0..MaxChunks
  /\ (worker.phase \in AtStep) => worker.step \in 0..worker.size
  /\ (worker.phase \in {"register", "create", "settle", "fail"}) => worker.step > 0
  /\ (worker.phase \in {"check", "mark"} /\ Chunked) => worker.step > 0
  /\ (worker.phase \in {"read", "write"} /\ Chunked) => worker.step > 0
  /\ (worker.phase \in AtStep /\ ~Chunked) => worker.size = NumSteps
  /\ (worker.phase \in {"create", "fail", "prepare", "parent", "link"}) => Chunked
  /\ (worker.phase = "work") => ~Chunked /\ worker.size = NumSteps

IInv == TypeOK /\ Position

LEMMA Bounds ==
  /\ MaxSteps \in Nat /\ MaxChunks \in Nat /\ NumSteps \in Nat /\ NumSteps > 0
  /\ MaxChunks <= MaxSteps /\ NumSteps <= MaxSteps
BY ConstantsAssumption DEF MaxSteps

LEMMA InitIInv == Init => IInv
<1> SUFFICES ASSUME Init PROVE IInv
    OBVIOUS
<1>1. job \in Job
  <2>1. [s \in Steps |-> "none"] \in [Steps -> StepStatuses]
    BY DEF StepStatuses
  <2>2. {"pending"} \subseteq Statuses /\ {FALSE} \subseteq BOOLEAN
    BY DEF Statuses
  <2>3. QED
    BY <2>1, <2>2 DEF Init, Job
<1>2. worker \in Worker
    BY Bounds DEF Init, Worker, Phases, Statuses, Terminal
<1>3. /\ worker.phase = "absent" /\ worker.size = 0 /\ request = "none"
      /\ memories = {} /\ parents = {} /\ links = {} /\ worked = FALSE /\ late = {}
      /\ undone \in Statuses
    BY DEF Init, Statuses
<1>4. TypeOK
    BY <1>1, <1>2, <1>3 DEF TypeOK
<1>5. Position
    BY <1>3, Bounds DEF Position, AtStep
<1>6. QED
    BY <1>4, <1>5 DEF IInv

\* Writing the status of a step, or of the job, changes nothing else of the job.
LEMMA SetStepJob ==
  ASSUME job \in Job, NEW s \in Steps, NEW status \in StepStatuses, SetStep(s, status)
  PROVE  /\ job' \in Job
         /\ job'.exists = job.exists /\ job'.type = job.type /\ job'.status = job.status
         /\ job'.steps = [job.steps EXCEPT ![s] = status]
BY DEF SetStep, Job

LEMMA SetStatusJob ==
  ASSUME job \in Job, NEW status \in Statuses, job' = [job EXCEPT !.status = status]
  PROVE  /\ job' \in Job
         /\ job'.exists = job.exists /\ job'.type = job.type /\ job'.steps = job.steps
         /\ job'.status = status
BY DEF Job

\* The three ways the worker moves on leave its other variables alone.
Kept(w) ==
  /\ w.size = worker.size /\ w.succeeded = worker.succeeded /\ w.failed = worker.failed
  /\ w.stored = worker.stored /\ w.seen = worker.seen

LEMMA GotoWorker ==
  ASSUME worker \in Worker, NEW p \in Phases, Goto(p)
  PROVE  /\ worker' \in Worker /\ Kept(worker')
         /\ worker'.phase = p /\ worker'.step = worker.step
         /\ worker'.verdict = worker.verdict
BY DEF Goto, Worker, Kept

LEMMA GotoStepWorker ==
  ASSUME worker \in Worker, NEW p \in Phases, NEW s \in 0..MaxSteps, GotoStep(p, s)
  PROVE  /\ worker' \in Worker /\ Kept(worker')
         /\ worker'.phase = p /\ worker'.step = s /\ worker'.verdict = worker.verdict
BY DEF GotoStep, Worker, Kept

LEMMA ConcludeWorker ==
  ASSUME worker \in Worker, NEW v \in Terminal, Conclude(v)
  PROVE  /\ worker' \in Worker /\ Kept(worker')
         /\ worker'.phase = "complete" /\ worker'.step = worker.step
         /\ worker'.verdict = v
BY DEF Conclude, Worker, Kept, Phases

LEMMA StepIInv == IInv /\ [Next]_vars => IInv'
<1> USE Bounds DEF Steps, Chunks, effects
<1> SUFFICES ASSUME IInv, [Next]_vars PROVE IInv'
    OBVIOUS
<1> USE DEF IInv, TypeOK, Position, AtStep, Chunked, Kept
<1>S. Terminal \subseteq Statuses /\ "running" \in Statuses /\ job.status \in Statuses
      /\ {"completed", "failed", "cancelled", "completed_with_errors"} \subseteq Terminal
      /\ {"pending", "running", "completed", "failed"} \subseteq StepStatuses
      /\ "pending" \in Statuses
    BY DEF Statuses, Terminal, StepStatuses, Job
<1>P. Phases =
        {"absent", "queued", "prepare", "register", "mark", "check", "create", "settle",
         "fail", "read", "write", "parent", "link", "work", "complete", "emit", "done",
         "aborted"}
    BY DEF Phases
<1>W. /\ worker.phase \in Phases /\ worker.size \in 0..MaxSteps
      /\ worker.step \in 0..MaxSteps /\ worker.verdict \in Terminal
      /\ worker.succeeded \in SUBSET Chunks /\ worker.failed \in SUBSET Chunks
      /\ worker.stored \in SUBSET Chunks /\ worker.seen \in Statuses
    BY DEF Worker
<1>B. /\ 1 \in Steps /\ 1 \in 0..MaxSteps /\ NumSteps \in 0..MaxSteps
      /\ \A n \in Chunks : n \in 0..MaxSteps
    OBVIOUS
<1>A. /\ (worker.phase \in {"register", "settle", "fail"}) => worker.step \in Steps
      /\ (worker.phase = "mark" /\ Chunked) => worker.step \in Steps
    BY <1>W
<1>1. CASE CreateJob
  <2>1. job' \in Job /\ job'.type = job.type
    BY <1>1 DEF CreateJob, Job
  <2>2. QED
    BY <1>1, <2>1, <1>P, GotoWorker DEF CreateJob
<1>2. CASE Begin
  <2>1. worker' \in Worker
    BY <1>2, <1>P, <1>B, <1>W DEF Begin, Worker
  <2>2. \/ Chunked /\ worker'.phase = "prepare" /\ worker'.size = worker.size
        \/ /\ ~Chunked /\ worker'.phase = "register"
           /\ worker'.size = NumSteps /\ worker'.step = 1
    BY <1>2 DEF Begin, Worker
  <2>3. QED
    BY <1>2, <2>1, <2>2 DEF Begin
<1>3. CASE Prepare
  <2>1. CASE Conclude("failed") \/ Conclude("completed")
    BY <1>3, <2>1, <1>P, <1>S, ConcludeWorker DEF Prepare
  <2>2. ASSUME NEW n \in Chunks,
               worker' = [worker EXCEPT !.phase = "register", !.size = n, !.step = 1]
        PROVE  IInv'
    <3>1. worker' \in Worker
      BY <2>2, <1>P, <1>B, <1>W DEF Worker
    <3>2. worker'.phase = "register" /\ worker'.size = n /\ worker'.step = 1
      BY <2>2 DEF Worker
    <3>3. /\ Chunked /\ n \in 1..MaxChunks
          /\ UNCHANGED <<job, memories, parents, links, worked, late, undone, request>>
      BY <1>3, <2>2 DEF Prepare
    <3>4. Position'
      BY <3>2, <3>3
    <3>5. QED
      BY <3>1, <3>3, <3>4
  <2>3. QED
    BY <1>3, <2>1, <2>2 DEF Prepare
<1>4. CASE AddStep
  <2>1. job' \in Job /\ job'.type = job.type
    BY <1>4, <1>S, <1>A, SetStepJob DEF AddStep
  <2>2. /\ worker' \in Worker /\ worker'.size = worker.size
        /\ \/ worker'.phase = "register" /\ worker'.step = worker.step + 1
              /\ worker.step < worker.size
           \/ worker'.phase = "check" /\ Chunked /\ worker'.step = 1
           \/ worker'.phase = "mark" /\ ~Chunked /\ worker'.step = 0
    BY <1>4, <1>P, <1>W, GotoStepWorker DEF AddStep
  <2>3. QED
    BY <1>4, <1>W, <2>1, <2>2 DEF AddStep
<1>5. CASE MarkRunning
  <2>1. job' \in Job /\ job'.type = job.type
    BY <1>5, <1>S, <1>A, <1>B, SetStepJob DEF MarkRunning
  <2>2. /\ worker' \in Worker /\ worker'.size = worker.size /\ worker'.step = worker.step
        /\ worker'.phase = IF Chunked THEN "create" ELSE "read"
    BY <1>5, <1>P, <1>W, GotoWorker DEF MarkRunning
  <2>3. QED
    BY <1>5, <1>W, <2>1, <2>2 DEF MarkRunning
<1>6. CASE IsCancelled
  <2>1. CASE Conclude("cancelled")
    BY <1>6, <2>1, <1>S, <1>W, ConcludeWorker DEF IsCancelled
  <2>2. CASE Goto(IF Chunked THEN "mark" ELSE "work")
    <3>1. /\ worker' \in Worker /\ worker'.size = worker.size /\ worker'.step = worker.step
          /\ worker'.phase = IF Chunked THEN "mark" ELSE "work"
      BY <2>2, <1>P, GotoWorker
    <3>2. QED
      BY <1>6, <3>1, <1>W DEF IsCancelled
  <2>3. QED
    BY <1>6, <2>1, <2>2 DEF IsCancelled
<1>7. CASE CreateChunk
  <2>1. worker.step \in Chunks
    BY <1>7, <1>W DEF CreateChunk
  <2>2. worker' \in Worker
    BY <1>7, <2>1, <1>P DEF CreateChunk, Worker
  <2>3. worker'.phase = "settle" /\ worker'.size = worker.size /\ worker'.step = worker.step
    BY <1>7 DEF CreateChunk, Worker
  <2>4. QED
    BY <1>7, <2>1, <2>2, <2>3 DEF CreateChunk, Store
<1>8. CASE CreateChunkFails
  <2>1. worker.step \in Chunks
    BY <1>8, <1>W DEF CreateChunkFails
  <2>2. QED
    BY <1>8, <2>1, <1>P, GotoWorker DEF CreateChunkFails, Store
<1>9. CASE Work
  <2>1. CASE Conclude("failed")
    BY <1>9, <2>1, <1>S, <1>W, ConcludeWorker DEF Work
  <2>2. CASE \/ worker' = [worker EXCEPT !.phase = "settle", !.step = 1]
             \/ worker' = [worker EXCEPT !.phase = "settle", !.step = 1,
                                         !.verdict = "completed_with_errors"]
    <3>1. worker' \in Worker
      BY ZenonT(40), <2>2, <1>P, <1>S, <1>B, <1>W DEF Worker
    <3>2. worker'.phase = "settle" /\ worker'.size = worker.size /\ worker'.step = 1
      BY <2>2 DEF Worker
    <3>3. QED
      BY <1>9, <3>1, <3>2 DEF Work
  <2>3. QED
    BY <1>9, <2>1, <2>2 DEF Work
<1>10. CASE CompleteStep
  <2>1. job' \in Job /\ job'.type = job.type
    BY <1>10, <1>S, <1>A, SetStepJob DEF CompleteStep
  <2>2. Chunked => worker.step \in Chunks
    BY <1>10, <1>W DEF CompleteStep
  <2>3. worker' \in Worker
    BY <1>10, <2>2, <1>P DEF CompleteStep, Worker
  <2>4. worker'.phase = "read" /\ worker'.size = worker.size /\ worker'.step = worker.step
    BY <1>10 DEF CompleteStep, Worker
  <2>5. QED
    BY <1>10, <2>1, <2>3, <2>4 DEF CompleteStep
<1>11. CASE CompleteStepFails
    BY <1>11, <1>P, GotoWorker DEF CompleteStepFails
<1>12. CASE FailStep
  <2>1. worker.step \in Chunks
    BY <1>12, <1>W DEF FailStep
  <2>2. job' \in Job /\ job'.type = job.type
    BY <1>12, <1>S, <1>A, SetStepJob DEF FailStep
  <2>3. worker' \in Worker
    BY <1>12, <2>1, <1>P DEF FailStep, Worker
  <2>4. worker'.phase = "read" /\ worker'.size = worker.size /\ worker'.step = worker.step
    BY <1>12 DEF FailStep, Worker
  <2>5. QED
    BY <1>12, <2>2, <2>3, <2>4 DEF FailStep
<1>13. CASE ReadProgress
  <2>1. worker' \in Worker
    BY <1>13, <1>P, <1>S DEF ReadProgress, Worker
  <2>2. worker'.phase = "write" /\ worker'.size = worker.size /\ worker'.step = worker.step
    BY <1>13 DEF ReadProgress, Worker
  <2>3. QED
    BY <1>13, <2>1, <2>2 DEF ReadProgress
<1>14. CASE WriteProgress
  <2>1. ProgressStatus(worker.seen) \in Statuses
    BY <1>S, <1>W DEF ProgressStatus
  <2>2. job' \in Job /\ job'.type = job.type
    BY <1>14, <2>1, SetStatusJob DEF WriteProgress
  <2>3. /\ worker' \in Worker /\ worker'.size = worker.size
        /\ \/ /\ Chunked /\ worker.step < worker.size
              /\ worker'.phase = "check" /\ worker'.step = worker.step + 1
           \/ Chunked /\ worker'.phase = "parent"
           \/ ~Chunked /\ worker'.phase = "check" /\ worker'.step = 0
           \/ /\ ~Chunked /\ worker.step \in 1..(worker.size - 1)
              /\ worker'.phase = "settle" /\ worker'.step = worker.step + 1
           \/ ~Chunked /\ worker'.phase = "complete"
    BY <1>14, <1>P, <1>W, GotoWorker, GotoStepWorker DEF WriteProgress, AfterReport
  <2>4. QED
    BY <1>14, <2>2, <2>3, <1>W DEF WriteProgress
<1>15. CASE CreateParent
  <2>1. parents' \in SUBSET Items
    BY <1>15, <1>W, ConstantsAssumption DEF CreateParent, Unsummarised
  <2>2. QED
    BY <1>15, <2>1, <1>P, GotoWorker DEF CreateParent
<1>16. CASE LinkChunk
  <2>1. links' \in SUBSET Chunks
    BY <1>16, <1>W DEF LinkChunk, Unlinked
  <2>2. \E p \in {"parent", "link"} : Goto(p)
    BY <1>16 DEF LinkChunk
  <2>3. QED
    BY <1>16, <2>1, <2>2, <1>P, GotoWorker DEF LinkChunk
<1>17. CASE FinishImport
  <2>1. ImportVerdict \in Terminal
    BY <1>S DEF ImportVerdict
  <2>2. QED
    BY <1>17, <2>1, ConcludeWorker DEF FinishImport
<1>18. CASE Complete
  <2>1. job' \in Job /\ job'.type = job.type
    BY <1>18, <1>S, <1>W, SetStatusJob DEF Complete
  <2>2. \E p \in {"emit", "done"} : Goto(p)
    BY <1>18 DEF Complete
  <2>3. QED
    BY <1>18, <2>1, <2>2, <1>P, GotoWorker DEF Complete
<1>19. CASE Emit
    BY <1>19, <1>P, <1>S, GotoWorker, ConcludeWorker DEF Emit
<1>20. CASE Catch
    BY <1>20, <1>S, ConcludeWorker DEF Catch
<1>21. CASE Abort
    BY <1>21, <1>P, GotoWorker DEF Abort
<1>22. CASE SendCancel
    BY <1>22 DEF SendCancel
<1>23. CASE Cancel
  <2>1. job' \in Job /\ job'.type = job.type
    BY <1>23, <1>S, SetStatusJob DEF Cancel
  <2>2. QED
    BY <1>23, <1>S, <2>1 DEF Cancel
<1>24. CASE CleanupExpired
  <2>1. job' \in Job /\ job'.type = job.type
    BY <1>24 DEF CleanupExpired, Job
  <2>2. QED
    BY <1>24, <2>1 DEF CleanupExpired
<1>25. CASE UNCHANGED vars
    BY <1>25 DEF vars
<1>26. QED
    BY <1>1, <1>2, <1>3, <1>4, <1>5, <1>6, <1>7, <1>8, <1>9, <1>10, <1>11, <1>12, <1>13,
       <1>14, <1>15, <1>16, <1>17, <1>18, <1>19, <1>20, <1>21, <1>22, <1>23, <1>24, <1>25
       DEF Next, Execute

\* The job, its worker and what they made keep their shape, and the worker never
\* stands at a step the job does not have, for any import and any failures.
THEOREM TypeCorrect == Spec => []TypeOK
<1>1. IInv => TypeOK
    BY DEF IInv
<1>2. QED
    BY InitIInv, StepIInv, <1>1, PTL DEF Spec

-----------------------------------------------------------------------------
(* Cancellation.  While the worker is at work, the job is pending, running *)
(* or cancelled.  A cancellation may be lost between the read and the      *)
(* write of updateProgress; but once a chunk was made with the job saying  *)
(* cancelled, the next report reads that and writes it back, and so the    *)
(* isCancelled before the next chunk sees it.                              *)

AtWork == Phases \ {"complete", "emit", "done", "aborted"}

StatusInv ==
  /\ (worker.phase \in AtWork) => job.status \in {"pending", "running", "cancelled"}
  /\ (worker.phase = "write") => worker.seen \in {"pending", "running", "cancelled"}
  /\ (worker.phase = "write" /\ worker.seen = "cancelled") => job.status = "cancelled"
  /\ (worker.phase = "write" /\ late # {}) => worker.seen = "cancelled"
  /\ (worker.phase \in AtWork \ {"parent", "link"} /\ late # {}) =>
       job.status = "cancelled"
  /\ (worker.phase \in {"absent", "queued", "prepare", "register", "mark", "create", "work"}) =>
       late = {}
  /\ CancelStopsImport

LEMMA InitStatusInv == Init => StatusInv
BY DEF Init, StatusInv, CancelStopsImport, AtWork

LEMMA StepStatusInv ==
  ASSUME IInv, StatusInv, [Next]_vars
  PROVE  StatusInv'
<1> USE DEF StatusInv, CancelStopsImport, effects, Goto, GotoStep, Conclude
<1>T. job \in Job /\ worker \in Worker
    BY DEF IInv, TypeOK
<1>P. AtWork =
        {"absent", "queued", "prepare", "register", "mark", "check", "create", "settle",
         "fail", "read", "write", "parent", "link", "work"}
    BY DEF AtWork, Phases
<1>1. CASE CreateJob
    BY <1>1, <1>T, <1>P DEF CreateJob, Job, Worker
<1>2. CASE Begin
    BY <1>2, <1>T, <1>P DEF Begin, Job, Worker
<1>3. CASE Prepare
    BY <1>3, <1>T, <1>P DEF Prepare, Job, Worker
<1>4. CASE AddStep
    BY <1>4, <1>T, <1>P DEF AddStep, SetStep, Job, Worker
<1>5. CASE MarkRunning
    BY <1>5, <1>T, <1>P DEF MarkRunning, SetStep, Job, Worker
<1>6. CASE IsCancelled
    BY <1>6, <1>T, <1>P DEF IsCancelled, Job, Worker
<1>7. CASE CreateChunk
    BY <1>7, <1>T, <1>P DEF CreateChunk, Store, Job, Worker
<1>8. CASE CreateChunkFails
    BY <1>8, <1>T, <1>P DEF CreateChunkFails, Store, Job, Worker
<1>9. CASE Work
    BY <1>9, <1>T, <1>P DEF Work, Job, Worker
<1>10. CASE CompleteStep
    BY <1>10, <1>T, <1>P DEF CompleteStep, SetStep, Job, Worker
<1>11. CASE CompleteStepFails
    BY <1>11, <1>T, <1>P DEF CompleteStepFails, Job, Worker
<1>12. CASE FailStep
    BY <1>12, <1>T, <1>P DEF FailStep, SetStep, Job, Worker
<1>13. CASE ReadProgress
    BY <1>13, <1>T, <1>P DEF ReadProgress, Job, Worker
<1>14. CASE WriteProgress
    BY ZenonT(40), <1>14, <1>T, <1>P DEF WriteProgress, AfterReport, ProgressStatus, Job, Worker
<1>15. CASE CreateParent
    BY <1>15, <1>T, <1>P DEF CreateParent, Job, Worker
<1>16. CASE LinkChunk
    BY <1>16, <1>T, <1>P DEF LinkChunk, Job, Worker
<1>17. CASE FinishImport
    BY <1>17, <1>T, <1>P DEF FinishImport, ImportVerdict, Job, Worker
<1>18. CASE Complete
    BY <1>18, <1>T, <1>P DEF Complete, Announces, Job, Worker
<1>19. CASE Emit
    BY ZenonT(40), <1>19, <1>T, <1>P DEF Emit, Job, Worker
<1>20. CASE Catch
    BY <1>20, <1>T, <1>P DEF Catch, Job, Worker
<1>21. CASE Abort
    BY <1>21, <1>T, <1>P DEF Abort, Job, Worker
<1>22. CASE SendCancel
    BY <1>22, <1>T, <1>P DEF SendCancel, Job, Worker
<1>23. CASE Cancel
    BY <1>23, <1>T, <1>P DEF Cancel, Job, Worker
<1>24. CASE CleanupExpired
    BY <1>24, <1>T, <1>P DEF CleanupExpired, Job, Worker
<1>25. CASE UNCHANGED vars
    BY <1>25 DEF vars
<1>26. QED
    BY <1>1, <1>2, <1>3, <1>4, <1>5, <1>6, <1>7, <1>8, <1>9, <1>10, <1>11, <1>12, <1>13, <1>14, <1>15, <1>16, <1>17, <1>18, <1>19, <1>20, <1>21, <1>22, <1>23, <1>24, <1>25
       DEF Next, Execute

Ends ==
  (job.exists /\ job.status \in Terminal) =>
    \/ ~job'.exists
    \/ job'.status \in Terminal
    \/ /\ job.status = "cancelled"
       /\ worker.phase = "write" /\ worker.seen \notin Terminal

LEMMA StepEnds ==
  ASSUME IInv, StatusInv, [Next]_vars
  PROVE  Ends
<1>T. job \in Job /\ worker \in Worker
    BY DEF IInv, TypeOK
<1>1. CASE WriteProgress
  <2>1. worker.phase = "write" /\ job.status \in {"pending", "running", "cancelled"}
    BY <1>1 DEF WriteProgress, StatusInv, AtWork, Phases
  <2>2. job'.status = ProgressStatus(worker.seen)
    BY <1>1, <1>T DEF WriteProgress, Job
  <2>3. CASE worker.seen \in Terminal
    <3>1. worker.seen = "cancelled"
      BY <2>1, <2>3 DEF StatusInv, Terminal
    <3>2. QED
      BY <2>2, <3>1 DEF Ends, ProgressStatus, Terminal
  <2>4. CASE worker.seen \notin Terminal
    BY <2>1, <2>4 DEF Ends, Terminal
  <2>5. QED
    BY <2>3, <2>4
<1>2. CASE Complete \/ Cancel
    BY <1>2, <1>T DEF Ends, Complete, Cancel, Job, Worker, Terminal
<1>3. CASE AddStep \/ MarkRunning \/ CompleteStep \/ FailStep
    BY <1>3, <1>T DEF Ends, AddStep, MarkRunning, CompleteStep, FailStep, SetStep, Job
<1>4. CASE CreateJob \/ CleanupExpired
    BY <1>4, <1>T DEF Ends, CreateJob, CleanupExpired, Job
<1>5. CASE \/ Begin \/ Prepare \/ IsCancelled \/ CreateChunk \/ CreateChunkFails \/ Work
           \/ CompleteStepFails \/ ReadProgress \/ CreateParent \/ LinkChunk
           \/ FinishImport \/ Emit \/ Catch \/ Abort \/ SendCancel \/ UNCHANGED vars
    BY <1>5 DEF Ends, Begin, Prepare, IsCancelled, CreateChunk, CreateChunkFails, Work,
       CompleteStepFails, ReadProgress, CreateParent, LinkChunk, FinishImport, Emit,
       Catch, Abort, SendCancel, vars
<1>6. QED
    BY <1>1, <1>2, <1>3, <1>4, <1>5 DEF Next, Execute

\* Wherever cancellations land, in the window of updateProgress too, an import makes
\* at most one memory while its job says cancelled.
THEOREM CancelStops == Spec => []CancelStopsImport
<1>1. StatusInv => CancelStopsImport
    BY DEF StatusInv
<1>2. IInv /\ StatusInv /\ [Next]_vars => (IInv /\ StatusInv)'
    BY StepIInv, StepStatusInv
<1>3. QED
    BY InitIInv, InitStatusInv, <1>1, <1>2, PTL DEF Spec

\* Only a cancellation inside the window of updateProgress is ever undone: whatever
\* else meets or fails, an ended job is not reported running again.
THEOREM EndedStaysEnded == Spec => NeverRevived
<1>1. IInv /\ StatusInv /\ [Next]_vars => (IInv /\ StatusInv)'
    BY StepIInv, StepStatusInv
<1>2. IInv /\ StatusInv /\ [Next]_vars => [Ends]_vars
    BY StepEnds
<1>3. QED
    BY InitIInv, InitStatusInv, <1>1, <1>2, PTL DEF Spec, NeverRevived, Ends

-----------------------------------------------------------------------------
(* What a worker reports of its work.  Of the workers that are not         *)
(* chunked: the work is done after the one isCancelled that is followed,   *)
(* and the steps up to the worker's are reported completed.                *)

Reported(n) == \A s \in 1..n : job.steps[s] = "completed"

Success == {"completed", "completed_with_errors"}

WorkInv ==
  ~Chunked =>
    /\ (worker.phase \in AtWork) => worker.verdict \in Success
    /\ (worker.phase \in {"absent", "queued", "register", "mark", "check", "work"}) => ~worked
    /\ (worker.phase = "mark") => worker.step = 0
    /\ (worker.phase \in {"read", "write"} /\ worker.step = 0) => ~worked
    /\ (worker.phase = "settle") => worker.step > 0 /\ worked /\ Reported(worker.step - 1)
    /\ (worker.phase \in {"read", "write"} /\ worker.step > 0) =>
         worked /\ Reported(worker.step)
    /\ (worker.phase \in {"complete", "emit", "done"}) =>
         /\ worker.verdict = "cancelled" => ~worked
         /\ worker.verdict \in Success => worked /\ Reported(NumSteps)
    /\ Concluded =>
         /\ job.status \in Terminal
         /\ job.status \in Success => worked /\ Reported(NumSteps)
         /\ job.status = "cancelled" => (~worked \/ undone \in Terminal)

LEMMA InitWorkInv == Init => WorkInv
BY DEF Init, WorkInv, AtWork, Success, Concluded

LEMMA StepWorkInv ==
  ASSUME IInv, WorkInv, [Next]_vars
  PROVE  WorkInv'
<1> USE DEF WorkInv, effects, Goto, GotoStep, Conclude, Chunked, Success, Reported, Concluded
<1>T. job \in Job /\ worker \in Worker /\ Position
    BY DEF IInv, TypeOK
<1>P. AtWork =
        {"absent", "queued", "prepare", "register", "mark", "check", "create", "settle",
         "fail", "read", "write", "parent", "link", "work"}
    BY DEF AtWork, Phases
<1>N. NumSteps \in Nat /\ NumSteps > 0
    BY Bounds
<1>1. CASE CreateJob
    BY <1>1, <1>T, <1>P, <1>N DEF CreateJob, Job, Worker, Position, AtStep
<1>2. CASE Begin
    BY <1>2, <1>T, <1>P, <1>N DEF Begin, Job, Worker, Position, AtStep
<1>3. CASE Prepare
    BY <1>3, <1>T, <1>P, <1>N DEF Prepare, Job, Worker, Position, AtStep
<1>4. CASE AddStep
    BY ZenonT(40), <1>4, <1>T, <1>P, <1>N DEF AddStep, SetStep, Job, Worker, Position, AtStep
<1>5. CASE MarkRunning
    BY <1>5, <1>T, <1>P, <1>N DEF MarkRunning, SetStep, Job, Worker, Position, AtStep
<1>6. CASE IsCancelled
    BY ZenonT(40), <1>6, <1>T, <1>P, <1>N DEF IsCancelled, Job, Worker, Position, AtStep
<1>7. CASE CreateChunk
    BY <1>7, <1>T, <1>P, <1>N DEF CreateChunk, Store, Job, Worker, Position, AtStep
<1>8. CASE CreateChunkFails
    BY <1>8, <1>T, <1>P, <1>N DEF CreateChunkFails, Store, Job, Worker, Position, AtStep
<1>9. CASE Work
  <2>1. /\ job' = job /\ worked' /\ ~Chunked
        /\ \/ worker'.phase = "settle" /\ worker'.step = 1 /\ worker'.verdict \in Success
           \/ worker'.phase = "complete" /\ worker'.verdict = "failed"
    BY <1>9, <1>T, <1>P DEF Work, Worker, Position
  <2>2. QED
    BY <2>1, <1>P
<1>10. CASE CompleteStep
  <2>1. CASE Chunked
    BY <1>10, <2>1, <1>T DEF CompleteStep, SetStep, Job
  <2>2. CASE ~Chunked
    <3>1. worker.step \in Steps
      BY <1>10, <2>2, <1>T, Bounds DEF CompleteStep, Position, AtStep, Steps
    <3>2. /\ job'.type = job.type
          /\ job'.steps = [job.steps EXCEPT ![worker.step] = "completed"]
      BY <1>10, <3>1, <1>T, SetStepJob DEF CompleteStep, StepStatuses
    <3>3. /\ worker'.phase = "read" /\ worker'.step = worker.step
          /\ worker'.verdict = worker.verdict
      BY <1>10, <1>T DEF CompleteStep, Worker
    <3>4. job'.steps[worker.step] = "completed"
      BY <3>1, <3>2, <1>T DEF Job
    <3>5. \A s \in 1..(worker.step - 1) : job'.steps[s] = "completed"
      BY <1>10, <2>2, <3>1, <3>2, <1>T DEF CompleteStep, Job, Steps
    <3>6. \A s \in 1..worker.step : job'.steps[s] = "completed"
      BY <3>1, <3>4, <3>5 DEF Steps
    <3>7. QED
      BY <1>10, <2>2, <3>1, <3>2, <3>3, <3>6, <1>P DEF CompleteStep, Steps
  <2>3. QED
    BY <2>1, <2>2
<1>11. CASE CompleteStepFails
    BY <1>11, <1>T, <1>P, <1>N DEF CompleteStepFails, Job, Worker, Position, AtStep
<1>12. CASE FailStep
    BY <1>12, <1>T, <1>P, <1>N DEF FailStep, SetStep, Job, Worker, Position, AtStep
<1>13. CASE ReadProgress
    BY <1>13, <1>T, <1>P, <1>N DEF ReadProgress, Job, Worker, Position, AtStep
<1>14. CASE WriteProgress
  <2>1. CASE Chunked
    BY <1>14, <2>1, <1>T DEF WriteProgress, Job
  <2>2. CASE ~Chunked
    <3>1. job'.type = job.type /\ job'.steps = job.steps
      BY <1>14, <1>T DEF WriteProgress, Job
    <3>2. /\ worker'.verdict = worker.verdict
          /\ \/ worker.step = 0 /\ worker'.phase = "check" /\ worker'.step = 0
             \/ /\ worker.step > 0 /\ worker'.phase = "settle"
                /\ worker'.step = worker.step + 1
             \/ /\ worker.step = NumSteps /\ worker'.phase = "complete"
                /\ worker'.step = worker.step
      <4>1. worker.size = NumSteps /\ worker.step \in 0..NumSteps
        BY <1>14, <2>2, <1>T DEF WriteProgress, Position, AtStep
      <4>2. CASE worker.step = 0
        BY <1>14, <2>2, <4>1, <4>2, <1>T, <1>N DEF WriteProgress, AfterReport, Worker
      <4>3. CASE worker.step \in 1..(NumSteps - 1)
        <5>1. worker' = [worker EXCEPT !.phase = "settle", !.step = worker.step + 1]
          BY <1>14, <2>2, <4>1, <4>3, <1>N DEF WriteProgress, AfterReport
        <5>2. QED
          BY <5>1, <4>3, <1>T DEF Worker
      <4>4. CASE worker.step = NumSteps
        BY <1>14, <2>2, <4>1, <4>4, <1>T, <1>N DEF WriteProgress, AfterReport, Worker
      <4>5. QED
        BY <4>1, <4>2, <4>3, <4>4, <1>N
    <3>3. worker.step \in Nat
      BY <1>T, Bounds DEF Worker
    <3>4. QED
      BY <1>14, <2>2, <3>1, <3>2, <3>3, <1>P, <1>N DEF WriteProgress
  <2>3. QED
    BY <2>1, <2>2
<1>15. CASE CreateParent
    BY <1>15, <1>T, <1>P, <1>N DEF CreateParent, Job, Worker, Position, AtStep
<1>16. CASE LinkChunk
    BY <1>16, <1>T, <1>P, <1>N DEF LinkChunk, Job, Worker, Position, AtStep
<1>17. CASE FinishImport
    BY <1>17, <1>T, <1>P, <1>N DEF FinishImport, ImportVerdict, Job, Worker, Position, AtStep
<1>18. CASE Complete
    BY <1>18, <1>T, <1>P, <1>N DEF Complete, Announces, Job, Worker, Position, AtStep
<1>19. CASE Emit
  <2>1. /\ job' = job /\ worked' = worked /\ undone' = undone /\ worker.phase = "emit"
        /\ \/ worker'.phase = "done" /\ worker'.verdict = worker.verdict
           \/ worker'.phase = "complete" /\ worker'.verdict = "failed"
    BY <1>19, <1>T DEF Emit, Worker
  <2>2. QED
    BY <2>1, <1>P
<1>20. CASE Catch
    BY <1>20, <1>T, <1>P, <1>N DEF Catch, Guarded, Job, Worker, Position, AtStep
<1>21. CASE Abort
    BY <1>21, <1>T, <1>P, <1>N DEF Abort, Job, Worker, Position, AtStep
<1>22. CASE SendCancel
    BY <1>22, <1>T, <1>P, <1>N DEF SendCancel, Job, Worker, Position, AtStep
<1>23. CASE Cancel
  <2>1. /\ job'.type = job.type /\ job'.steps = job.steps /\ job'.status = "cancelled"
        /\ undone' = job.status /\ worker' = worker /\ worked' = worked
    BY <1>23, <1>T DEF Cancel, Job
  <2>2. "cancelled" \in Terminal /\ "cancelled" \notin Success
    BY DEF Terminal
  <2>3. QED
    BY <2>1, <2>2
<1>24. CASE CleanupExpired
    BY <1>24, <1>T, <1>P, <1>N DEF CleanupExpired, Job, Worker, Position, AtStep
<1>25. CASE UNCHANGED vars
    BY <1>25 DEF vars
<1>26. QED
    BY <1>1, <1>2, <1>3, <1>4, <1>5, <1>6, <1>7, <1>8, <1>9, <1>10, <1>11, <1>12, <1>13, <1>14, <1>15, <1>16, <1>17, <1>18, <1>19, <1>20, <1>21, <1>22, <1>23, <1>24, <1>25
       DEF Next, Execute

\* The stored status of a concluded REM cycle or deletion, a late cancellation
\* included, agrees with what was done, whatever fails and whenever it is cancelled.
THEOREM WorkReportedTruly == Spec => []VerdictTellsWork
<1>1. IInv /\ WorkInv => VerdictTellsWork
    BY DEF WorkInv, VerdictTellsWork, Concluded, Success, Reported
<1>2. IInv /\ WorkInv /\ [Next]_vars => (IInv /\ WorkInv)'
    BY StepIInv, StepWorkInv
<1>3. QED
    BY InitIInv, InitWorkInv, <1>1, <1>2, PTL DEF Spec

-----------------------------------------------------------------------------
(* What an import reports.  The chunks behind the worker are counted where *)
(* their step says, those before it are pending, and the summaries are     *)
(* complete for the items the worker has been through.                     *)

Counted(n) ==
  /\ worker.succeeded \subseteq 1..n /\ worker.failed \subseteq 1..n
  /\ \A c \in 1..n :
       \/ /\ job.steps[c] = "completed"
          /\ c \in worker.succeeded /\ c \notin worker.failed
       \/ /\ job.steps[c] = "failed"
          /\ c \in worker.failed /\ c \notin worker.succeeded

Waiting(S) == \A c \in S : job.steps[c] = "pending"

ImportInv ==
  Chunked =>
    /\ worker.succeeded \subseteq worker.stored
    /\ worker.stored \subseteq memories /\ worker.stored \subseteq 1..worker.size
    /\ links \subseteq worker.stored
    /\ (worker.phase \in AtWork \ {"parent", "link"}) => parents = {}
    /\ (worker.phase \in {"absent", "queued", "prepare"}) => worker.size = 0
    /\ (worker.phase \in {"absent", "queued", "prepare", "register"}) => Counted(0)
    /\ (worker.phase = "register") => Waiting(1..(worker.step - 1))
    /\ (worker.phase \in {"check", "mark"}) =>
         Counted(worker.step - 1) /\ Waiting(worker.step..worker.size)
    /\ (worker.phase \in {"create", "settle", "fail"}) =>
         Counted(worker.step - 1) /\ Waiting((worker.step + 1)..worker.size)
    /\ (worker.phase = "settle") => worker.step \in worker.stored
    /\ (worker.phase \in {"read", "write"}) =>
         Counted(worker.step) /\ Waiting((worker.step + 1)..worker.size)
    /\ (worker.phase \in {"parent", "link"}) => Counted(worker.size)
    /\ (worker.phase = "parent") => Unlinked = {}
    /\ (worker.phase \in {"complete", "done"}) => ImportTold
    /\ worker.phase # "emit"

LEMMA InitImportInv == Init => ImportInv
BY DEF Init, ImportInv, AtWork, Counted, Waiting

\* ImportInv looks at the type and steps of the job, at the worker and at what was
\* made.
LEMMA SameImport ==
  ASSUME ImportInv, job'.type = job.type, job'.steps = job.steps, worker' = worker,
         UNCHANGED <<memories, parents, links>>
  PROVE  ImportInv'
<1>1. Unlinked' = Unlinked
    BY DEF Unlinked
<1>2. ImportTold' = ImportTold
    BY DEF ImportTold
<1>3. QED
    BY <1>1, <1>2 DEF ImportInv, Chunked, Counted, Waiting

LEMMA SameTold ==
  ASSUME job'.steps = job.steps, worker'.verdict = worker.verdict,
         worker'.size = worker.size, UNCHANGED <<memories, parents, links>>, ImportTold
  PROVE  ImportTold'
BY DEF ImportTold

LEMMA StepImportInv ==
  ASSUME IInv, ImportInv, [Next]_vars
  PROVE  ImportInv'
<1> USE DEF ImportInv, effects, Goto, GotoStep, Conclude, Chunked, Counted, Waiting
<1>T. job \in Job /\ worker \in Worker /\ Position
    BY DEF IInv, TypeOK
<1>W. /\ worker.step \in Nat /\ worker.size \in Nat /\ worker.size <= MaxSteps
      /\ worker.stored \subseteq Chunks
      /\ (worker.phase \in {"register", "create", "settle", "fail"}) =>
           worker.step \in Steps /\ worker.step \in 1..worker.size
      /\ (Chunked /\ worker.phase \in {"check", "mark", "read", "write"}) =>
           worker.step \in Steps /\ worker.step \in 1..worker.size
    BY <1>T, Bounds DEF Worker, Position, AtStep, Steps
<1>P. AtWork =
        {"absent", "queued", "prepare", "register", "mark", "check", "create", "settle",
         "fail", "read", "write", "parent", "link", "work"}
    BY DEF AtWork, Phases
<1>1. CASE CreateJob
    BY <1>1, <1>T, <1>P, Bounds DEF CreateJob, Job, Worker, Position, AtStep, ImportTold, Unlinked
<1>2. CASE Begin
    BY <1>2, <1>T, <1>P, Bounds DEF Begin, Job, Worker, Position, AtStep, ImportTold, Unlinked
<1>3. CASE Prepare
  <2>1. Chunked /\ worker.phase = "prepare" /\ UNCHANGED <<job, memories, parents, links>>
    BY <1>3, <1>T DEF Prepare, Position
  <2>2. ASSUME NEW verdict \in {"completed", "failed"}, Conclude(verdict) PROVE ImportInv'
    <3>1. /\ worker'.stored = worker.stored /\ worker'.succeeded = worker.succeeded
          /\ worker'.failed = worker.failed /\ worker'.size = 0
          /\ worker'.phase = "complete" /\ worker'.verdict = verdict
      BY <2>1, <2>2, <1>T DEF Worker
    <3>2. 1..0 = {}
      OBVIOUS
    <3>3. ImportTold'
      BY ZenonT(40), <3>1, <3>2 DEF ImportTold
    <3>4. QED
      BY <2>1, <3>1, <3>3, <1>P
  <2>3. ASSUME NEW n \in Chunks,
               worker' = [worker EXCEPT !.phase = "register", !.size = n, !.step = 1]
        PROVE  ImportInv'
    <3>1. /\ worker'.stored = worker.stored /\ worker'.succeeded = worker.succeeded
          /\ worker'.failed = worker.failed /\ worker'.size = n
          /\ worker'.phase = "register" /\ worker'.step = 1
      BY <2>3, <1>T DEF Worker
    <3>2. 1..(1 - 1) = {} /\ 1..0 = {}
      OBVIOUS
    <3>3. worker.stored = {}
      BY <2>1, <3>2
    <3>4. QED
      BY <2>1, <3>1, <3>2, <3>3, <1>P
  <2>4. QED
    BY <1>3, <2>2, <2>3 DEF Prepare
<1>4. CASE AddStep
  <2>1. /\ job'.type = job.type
        /\ job'.steps = [job.steps EXCEPT ![worker.step] = "pending"]
    BY <1>4, <1>W, <1>T, SetStepJob DEF AddStep, StepStatuses
  <2>2. /\ UNCHANGED <<memories, parents, links>> /\ worker.phase = "register"
        /\ worker'.stored = worker.stored /\ worker'.succeeded = worker.succeeded
        /\ worker'.failed = worker.failed /\ worker'.size = worker.size
    BY <1>4, <1>T DEF AddStep, Worker
  <2>3. Chunked => \/ worker'.phase = "register" /\ worker'.step = worker.step + 1
                   \/ /\ worker'.phase = "check" /\ worker'.step = 1
                      /\ worker.step = worker.size
    BY <1>4, <1>T DEF AddStep, Worker
  <2>4. ASSUME Chunked, NEW c \in 1..worker.step PROVE job'.steps[c] = "pending"
    <3>1. c \in Steps
      BY <2>2, <2>4, <1>W, Bounds DEF Steps
    <3>2. c = worker.step \/ job.steps[c] = "pending"
      BY <2>2, <2>4, <1>W
    <3>3. QED
      BY <2>1, <3>1, <3>2, <1>T DEF Job
  <2>5. QED
    BY <2>1, <2>2, <2>3, <2>4, <1>P, <1>W
<1>5. CASE MarkRunning
  <2>1. CASE ~Chunked
    BY <1>5, <2>1, <1>T DEF MarkRunning, SetStep, Job
  <2>2. CASE Chunked
    <3>1. /\ job'.type = job.type
          /\ job'.steps = [job.steps EXCEPT ![worker.step] = "running"]
      BY <1>5, <2>2, <1>W, <1>T, SetStepJob DEF MarkRunning, StepStatuses
    <3>2. /\ UNCHANGED <<memories, parents, links>> /\ worker.phase = "mark"
          /\ worker'.stored = worker.stored /\ worker'.succeeded = worker.succeeded
          /\ worker'.failed = worker.failed /\ worker'.size = worker.size
          /\ worker'.phase = "create" /\ worker'.step = worker.step
      BY <1>5, <2>2, <1>T DEF MarkRunning, Worker
    <3>3. \A c \in 1..(worker.step - 1) \cup (worker.step + 1)..worker.size :
            job'.steps[c] = job.steps[c]
      BY <2>2, <3>1, <3>2, <1>W, <1>T DEF Job, Steps
    <3>4. QED
      BY <2>2, <3>1, <3>2, <3>3, <1>P, <1>W
  <2>3. QED
    BY <2>1, <2>2
<1>6. CASE IsCancelled
  <2>1. /\ UNCHANGED <<job, memories, parents, links>> /\ worker.phase = "check"
        /\ worker'.stored = worker.stored /\ worker'.succeeded = worker.succeeded
        /\ worker'.failed = worker.failed /\ worker'.size = worker.size
        /\ worker'.step = worker.step
        /\ \/ worker'.phase = "complete" /\ worker'.verdict = "cancelled"
           \/ worker'.phase = IF Chunked THEN "mark" ELSE "work"
    BY <1>6, <1>T DEF IsCancelled, Worker
  <2>2. (Chunked /\ worker'.phase = "complete") => ImportTold'
    <3>1. SUFFICES ASSUME Chunked, worker'.phase = "complete" PROVE ImportTold'
      OBVIOUS
    <3>2. worker'.verdict = "cancelled" /\ parents' = {}
      BY <2>1, <3>1, <1>P
    <3>3. \A c \in 1..worker.size : job.steps[c] # "running"
      BY <2>1, <3>1, <1>W
    <3>4. QED
      BY <2>1, <3>2, <3>3 DEF ImportTold
  <2>3. QED
    BY <2>1, <2>2, <1>P
<1>7. CASE CreateChunk
    BY <1>7, <1>T, <1>P, Bounds DEF CreateChunk, Store, Job, Worker, Position, AtStep, ImportTold, Unlinked
<1>8. CASE CreateChunkFails
    BY <1>8, <1>T, <1>P, Bounds DEF CreateChunkFails, Store, Job, Worker, Position, AtStep, ImportTold, Unlinked
<1>9. CASE Work
    BY <1>9, <1>T, <1>P, Bounds DEF Work, Job, Worker, Position, AtStep, ImportTold, Unlinked
<1>10. CASE CompleteStep
  <2>1. CASE ~Chunked
    BY <1>10, <2>1, <1>T DEF CompleteStep, SetStep, Job
  <2>2. CASE Chunked
    <3>1. /\ job'.type = job.type
          /\ job'.steps = [job.steps EXCEPT ![worker.step] = "completed"]
      BY <1>10, <1>W, <1>T, SetStepJob DEF CompleteStep, StepStatuses
    <3>2. /\ UNCHANGED <<memories, parents, links>> /\ worker.phase \in {"settle", "fail"}
          /\ worker'.stored = worker.stored /\ worker'.size = worker.size
          /\ worker'.phase = "read" /\ worker'.step = worker.step
          /\ worker'.succeeded = worker.succeeded \cup {worker.step}
          /\ worker'.failed = worker.failed
      BY <1>10, <2>2, <1>T DEF CompleteStep, Worker
    <3>3. \A c \in 1..(worker.step - 1) \cup (worker.step + 1)..worker.size :
            job'.steps[c] = job.steps[c]
      BY <2>2, <3>1, <3>2, <1>W, <1>T DEF Job, Steps
    <3>4. job'.steps[worker.step] = "completed"
      BY <2>2, <3>1, <3>2, <1>W, <1>T DEF Job
    <3>5. Counted(worker.step)'
      <4>1. Counted(worker.step - 1)
        BY <2>2, <3>2
      <4>2. \A c \in 1..worker.step : c \in 1..(worker.step - 1) \/ c = worker.step
        BY <1>W
      <4>3. worker.step \notin 1..(worker.step - 1)
        BY <1>W
      <4>4. QED
        BY <3>2, <3>3, <3>4, <4>1, <4>2, <4>3, <1>W
    <3>6. Waiting((worker.step + 1)..worker.size)'
      BY <2>2, <3>2, <3>3, <1>W
    <3>7. worker'.succeeded \subseteq worker'.stored
      BY <1>10, <2>2, <3>2 DEF CompleteStep
    <3>8. QED
      BY <2>2, <3>1, <3>2, <3>5, <3>6, <3>7, <1>P
  <2>3. QED
    BY <2>1, <2>2
<1>11. CASE CompleteStepFails
    BY <1>11, <1>T, <1>P, Bounds DEF CompleteStepFails, Job, Worker, Position, AtStep, ImportTold, Unlinked
<1>12. CASE FailStep
  <2>1. CASE ~Chunked
    BY <1>12, <2>1, <1>T DEF FailStep, SetStep, Job
  <2>2. CASE Chunked
    <3>1. /\ job'.type = job.type
          /\ job'.steps = [job.steps EXCEPT ![worker.step] = "failed"]
      BY <1>12, <1>W, <1>T, SetStepJob DEF FailStep, StepStatuses
    <3>2. /\ UNCHANGED <<memories, parents, links>> /\ worker.phase \in {"settle", "fail"}
          /\ worker'.stored = worker.stored /\ worker'.size = worker.size
          /\ worker'.phase = "read" /\ worker'.step = worker.step
          /\ worker'.succeeded = worker.succeeded
          /\ worker'.failed = worker.failed \cup {worker.step}
      BY <1>12, <2>2, <1>T DEF FailStep, Worker
    <3>3. \A c \in 1..(worker.step - 1) \cup (worker.step + 1)..worker.size :
            job'.steps[c] = job.steps[c]
      BY <2>2, <3>1, <3>2, <1>W, <1>T DEF Job, Steps
    <3>4. job'.steps[worker.step] = "failed"
      BY <2>2, <3>1, <3>2, <1>W, <1>T DEF Job
    <3>5. Counted(worker.step)'
      <4>1. Counted(worker.step - 1)
        BY <2>2, <3>2
      <4>2. \A c \in 1..worker.step : c \in 1..(worker.step - 1) \/ c = worker.step
        BY <1>W
      <4>3. worker.step \notin 1..(worker.step - 1)
        BY <1>W
      <4>4. QED
        BY <3>2, <3>3, <3>4, <4>1, <4>2, <4>3, <1>W
    <3>6. Waiting((worker.step + 1)..worker.size)'
      BY <2>2, <3>2, <3>3, <1>W
    <3>7. worker'.succeeded \subseteq worker'.stored
      BY <1>12, <2>2, <3>2 DEF FailStep
    <3>8. QED
      BY <2>2, <3>1, <3>2, <3>5, <3>6, <3>7, <1>P
  <2>3. QED
    BY <2>1, <2>2
<1>13. CASE ReadProgress
    BY <1>13, <1>T, <1>P, Bounds DEF ReadProgress, Job, Worker, Position, AtStep, ImportTold, Unlinked
<1>14. CASE WriteProgress
  <2>1. job'.type = job.type /\ job'.steps = job.steps
    BY <1>14, <1>T DEF WriteProgress, Job
  <2>2. /\ UNCHANGED <<memories, parents, links>> /\ worker.phase = "write"
        /\ worker'.stored = worker.stored /\ worker'.succeeded = worker.succeeded
        /\ worker'.failed = worker.failed /\ worker'.size = worker.size
    BY <1>14, <1>T DEF WriteProgress, AfterReport, Worker
  <2>3. Chunked => \/ worker'.phase = "check" /\ worker'.step = worker.step + 1
                   \/ worker'.phase = "parent" /\ worker.step = worker.size
    BY <1>14, <1>T DEF WriteProgress, AfterReport, Worker
  <2>4. (parents = {}) => Unlinked' = {}
    BY <2>2 DEF Unlinked
  <2>5. CASE ~Chunked
    BY <2>1, <2>5
  <2>6. CASE Chunked /\ worker'.phase = "check" /\ worker'.step = worker.step + 1
    <3>1. Counted(worker.step) /\ Waiting((worker.step + 1)..worker.size)
      BY <2>2, <2>6
    <3>2. Counted(worker.step - 1)' /\ Waiting(worker.step..worker.size)'
      <4>1. worker'.step - 1 = worker.step
        BY <1>W, <2>6
      <4>2. QED
        BY <2>1, <2>2, <2>6, <3>1, <4>1
    <3>3. QED
      BY <2>1, <2>2, <2>6, <3>2, <1>P
  <2>7. CASE Chunked /\ worker'.phase = "parent" /\ worker.step = worker.size
    BY <2>1, <2>2, <2>4, <2>7, <1>P
  <2>8. QED
    BY <2>3, <2>5, <2>6, <2>7
<1>15. CASE CreateParent
    BY <1>15, <1>T, <1>P, Bounds DEF CreateParent, Job, Worker, Position, AtStep, ImportTold, Unlinked
<1>16. CASE LinkChunk
    BY <1>16, <1>T, <1>P, Bounds DEF LinkChunk, Job, Worker, Position, AtStep, ImportTold, Unlinked
<1>17. CASE FinishImport
  <2>1. /\ UNCHANGED <<job, memories, parents, links>> /\ worker.phase = "parent"
        /\ worker'.stored = worker.stored /\ worker'.succeeded = worker.succeeded
        /\ worker'.failed = worker.failed /\ worker'.size = worker.size
        /\ worker'.phase = "complete" /\ worker'.verdict = ImportVerdict
        /\ Chunked
    BY <1>17, <1>T DEF FinishImport, Worker, Position
  <2>2. worker.stored \subseteq links
    BY <1>17, <2>1 DEF FinishImport, Unsummarised, Unlinked
  <2>3. Counted(worker.size)
    BY <2>1
  <2>4. worker.succeeded \subseteq links \cap memories
    BY <2>1, <2>2
  <2>5. ImportTold'
    <3>1. CASE worker.failed = {}
      BY <2>1, <2>3, <2>4, <3>1 DEF ImportTold, ImportVerdict
    <3>2. CASE worker.failed # {} /\ worker.succeeded = {}
      BY <2>1, <2>3, <2>4, <3>2 DEF ImportTold, ImportVerdict
    <3>3. CASE worker.failed # {} /\ worker.succeeded # {}
      BY ZenonT(40), <2>1, <2>3, <2>4, <3>3 DEF ImportTold, ImportVerdict
    <3>4. QED
      BY <3>1, <3>2, <3>3
  <2>6. QED
    BY <2>1, <2>5, <1>P
<1>18. CASE Complete
  <2>1. /\ UNCHANGED <<memories, parents, links>> /\ worker.phase = "complete"
        /\ job'.type = job.type /\ job'.steps = job.steps
        /\ worker'.stored = worker.stored /\ worker'.succeeded = worker.succeeded
        /\ worker'.failed = worker.failed /\ worker'.size = worker.size
        /\ worker'.verdict = worker.verdict
        /\ Chunked => worker'.phase = "done"
    BY <1>18, <1>T DEF Complete, Announces, Job, Worker
  <2>2. Chunked => ImportTold'
    BY <2>1, SameTold
  <2>3. QED
    BY <2>1, <2>2, <1>P
<1>19. CASE Emit
    BY <1>19 DEF Emit
<1>20. CASE Catch
    BY <1>20, <1>T, <1>P, Bounds DEF Catch, Guarded, Job, Worker, Position, AtStep, ImportTold, Unlinked
<1>21. CASE Abort
    BY <1>21, <1>T, <1>P, Bounds DEF Abort, Job, Worker, Position, AtStep, ImportTold, Unlinked
<1>22. CASE SendCancel
    BY <1>22, <1>T, SameImport DEF SendCancel
<1>23. CASE Cancel
    BY <1>23, <1>T, SameImport DEF Cancel, Job
<1>24. CASE CleanupExpired
    BY <1>24, <1>T, SameImport DEF CleanupExpired, Job
<1>25. CASE UNCHANGED vars
    BY <1>25, SameImport DEF vars
<1>26. QED
    BY <1>1, <1>2, <1>3, <1>4, <1>5, <1>6, <1>7, <1>8, <1>9, <1>10, <1>11, <1>12, <1>13, <1>14, <1>15, <1>16, <1>17, <1>18, <1>19, <1>20, <1>21, <1>22, <1>23, <1>24, <1>25
       DEF Next, Execute

\* The verdict of an import agrees with its steps, its memories and its summaries,
\* whatever fails and whenever it is cancelled.
THEOREM ImportReportedTruly == Spec => []VerdictTellsImport
<1>1. IInv /\ ImportInv => VerdictTellsImport
    BY DEF ImportInv, VerdictTellsImport, Concluded
<1>2. IInv /\ ImportInv /\ [Next]_vars => (IInv /\ ImportInv)'
    BY StepIInv, StepImportInv
<1>3. QED
    BY InitIInv, InitImportInv, <1>1, <1>2, PTL DEF Spec

=============================================================================

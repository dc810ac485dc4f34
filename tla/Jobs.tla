--------------------------------- MODULE Jobs ---------------------------------
(***************************************************************************)
(* JobService and its three workers.  A job is one Firestore document; the *)
(* worker that executes it, the client that cancels it and the cleanup all *)
(* write that document, none of them in a transaction.                     *)
(*                                                                         *)
(* ImportJobWorker does one step per chunk, each a memory of its own, and  *)
(* then a parent memory per item.  RemJobWorker and                        *)
(* AccountDeletionJobWorker do all their work in one call and report their *)
(* steps afterwards.  Every awaited call is an action, except that         *)
(* addStep and updateStep, which read and write the steps array, are one   *)
(* action each: only the worker writes that array.                         *)
(***************************************************************************)
EXTENDS Integers, FiniteSets

CONSTANTS
  Items,     \* the items of an import, numbered in their order
  MaxChunks, \* bound on the chunks of an import
  ItemOf,    \* ItemOf[c]: the item chunk c is cut from
  NumSteps,  \* the number of steps of the other two workers (7 in the code)
  Failing    \* what may fail: a subset of Calls

Types == {"import", "rem_cycle", "account_deletion"}
Terminal == {"completed", "completed_with_errors", "failed", "cancelled"}
Statuses == {"pending", "running"} \cup Terminal
StepStatuses == {"none", "pending", "running", "completed", "failed"}

\* "store" is any call of JobService; "process" is the worker's process.
Calls == {"extract", "memory", "relationship", "work", "emit", "store", "process"}

Phases ==
  {"absent", "queued", "prepare", "register", "mark", "check", "create", "settle",
   "fail", "read", "write", "parent", "link", "work", "complete", "emit", "done",
   "aborted"}

ASSUME ConstantsAssumption ==
  /\ Items \subseteq Nat
  /\ MaxChunks \in Nat
  /\ NumSteps \in Nat \ {0}
  /\ ItemOf \in [1..MaxChunks -> Items]
  /\ Failing \subseteq Calls

MaxSteps == IF MaxChunks > NumSteps THEN MaxChunks ELSE NumSteps
Chunks == 1..MaxChunks
Steps == 1..MaxSteps

VARIABLES
  job,      \* the job's document
  worker,   \* what the worker is doing, and its local variables
  memories, \* the chunks whose memory exists
  parents,  \* the items whose summary memory exists
  links,    \* the chunks related to their item's summary
  worked,   \* whether the call that does a REM cycle or a deletion has been made
  request,  \* the client's cancellation: "none" or "sent"
  late,     \* history: the chunks made into memories while the job was cancelled
  undone    \* history: the status that the last cancellation overwrote

vars == <<job, worker, memories, parents, links, worked, request, late, undone>>

Job ==
  [exists : BOOLEAN, type : Types, status : Statuses, steps : [Steps -> StepStatuses]]

Worker ==
  [phase : Phases, size : 0..MaxSteps, step : 0..MaxSteps, succeeded : SUBSET Chunks,
   failed : SUBSET Chunks, stored : SUBSET Chunks, seen : Statuses,
   verdict : Terminal]

TypeOK ==
  /\ job \in Job
  /\ worker \in Worker
  /\ memories \in SUBSET Chunks
  /\ parents \in SUBSET Items
  /\ links \in SUBSET Chunks
  /\ worked \in BOOLEAN
  /\ request \in {"none", "sent"}
  /\ late \in SUBSET Chunks
  /\ undone \in Statuses

Init ==
  /\ job \in [exists : {FALSE}, type : Types, status : {"pending"},
              steps : {[s \in Steps |-> "none"]}]
  /\ worker = [phase |-> "absent", size |-> 0, step |-> 0, succeeded |-> {},
               failed |-> {}, stored |-> {}, seen |-> "pending",
               verdict |-> "completed"]
  /\ memories = {}
  /\ parents = {}
  /\ links = {}
  /\ worked = FALSE
  /\ request = "none"
  /\ late = {}
  /\ undone = "pending"

-----------------------------------------------------------------------------
(* What the steps below have in common.                                    *)

Chunked == job.type = "import"
MayFail(call) == call \in Failing

Goto(phase) == worker' = [worker EXCEPT !.phase = phase]
GotoStep(phase, s) == worker' = [worker EXCEPT !.phase = phase, !.step = s]

\* The worker decides how the job ends; complete() will write it.
Conclude(verdict) == worker' = [worker EXCEPT !.phase = "complete", !.verdict = verdict]

SetStep(s, status) == job' = [job EXCEPT !.steps[s] = status]

effects == <<memories, parents, links, worked, late, undone>>

-----------------------------------------------------------------------------
(* JobService.create, and the worker up to its first step.                 *)

CreateJob ==
  /\ worker.phase = "absent"
  /\ job' = [job EXCEPT !.exists = TRUE]
  /\ Goto("queued")
  /\ UNCHANGED <<effects, request>>

Begin ==
  /\ worker.phase = "queued"
  /\ worker' = IF Chunked THEN [worker EXCEPT !.phase = "prepare"]
               ELSE [worker EXCEPT !.phase = "register", !.size = NumSteps, !.step = 1]
  /\ UNCHANGED <<job, effects, request>>

\* Expanding archives, extracting files and cutting the items into chunks.  A
\* failure to extract fails the job; an import without text is complete.
Prepare ==
  /\ worker.phase = "prepare"
  /\ \/ MayFail("extract") /\ Conclude("failed")
     \/ Conclude("completed")
     \/ \E n \in Chunks :
          worker' = [worker EXCEPT !.phase = "register", !.size = n, !.step = 1]
  /\ UNCHANGED <<job, effects, request>>

AddStep ==
  /\ worker.phase = "register"
  /\ SetStep(worker.step, "pending")
  /\ \/ worker.step < worker.size /\ GotoStep("register", worker.step + 1)
     \/ worker.step = worker.size /\ Chunked /\ GotoStep("check", 1)
     \/ worker.step = worker.size /\ ~Chunked /\ GotoStep("mark", 0)
  /\ UNCHANGED <<effects, request>>

\* Step 0 of a worker that is not chunked is its report before the work.
MarkRunning ==
  /\ worker.phase = "mark"
  /\ IF Chunked THEN SetStep(worker.step, "running") /\ Goto("create")
     ELSE SetStep(1, "running") /\ Goto("read")
  /\ UNCHANGED <<effects, request>>

\* Slip: only the first step asks.
IsCancelledAtFirst ==
  /\ worker.phase = "check"
  /\ \/ job.status = "cancelled" /\ worker.step \in 0..1 /\ Conclude("cancelled")
     \/ /\ job.status # "cancelled" \/ worker.step > 1
        /\ Goto(IF Chunked THEN "mark" ELSE "work")
  /\ UNCHANGED <<job, effects, request>>

IsCancelled ==
  /\ worker.phase = "check"
  /\ \/ job.status = "cancelled" /\ Conclude("cancelled")
     \/ job.status # "cancelled" /\ Goto(IF Chunked THEN "mark" ELSE "work")
  /\ UNCHANGED <<job, effects, request>>

-----------------------------------------------------------------------------
(* The work: a chunk of an import, or all of a REM cycle or a deletion.    *)

Store(c) ==
  /\ memories' = memories \cup {c}
  /\ late' = IF job.status = "cancelled" THEN late \cup {c} ELSE late

CreateChunk ==
  /\ worker.phase = "create"
  /\ Store(worker.step)
  /\ worker' = [worker EXCEPT !.phase = "settle", !.stored = @ \cup {worker.step}]
  /\ UNCHANGED <<job, parents, links, worked, request, undone>>

\* memoryService.create rejects, before or after the memory was stored.
CreateChunkFails ==
  /\ worker.phase = "create"
  /\ MayFail("memory")
  /\ Store(worker.step) \/ UNCHANGED <<memories, late>>
  /\ Goto("fail")
  /\ UNCHANGED <<job, parents, links, worked, request, undone>>

\* deleteUserData collects the errors of its parts; what it cannot collect, and
\* any error of runCycle, is thrown.
Work ==
  /\ worker.phase = "work"
  /\ worked' = TRUE
  /\ \/ worker' = [worker EXCEPT !.phase = "settle", !.step = 1]
     \/ /\ MayFail("work") /\ job.type = "account_deletion"
        /\ worker' = [worker EXCEPT !.phase = "settle", !.step = 1,
                                    !.verdict = "completed_with_errors"]
     \/ MayFail("work") /\ Conclude("failed")
  /\ UNCHANGED <<job, memories, parents, links, late, undone, request>>

CompleteStep ==
  /\ worker.phase = "settle"
  /\ SetStep(worker.step, "completed")
  /\ worker' = [worker EXCEPT !.phase = "read",
                  !.succeeded = IF Chunked THEN @ \cup {worker.step} ELSE @]
  /\ UNCHANGED <<effects, request>>

\* Inside the try of a chunk: the step is reported failed, its memory is kept.
CompleteStepFails ==
  /\ worker.phase = "settle"
  /\ Chunked
  /\ MayFail("store")
  /\ Goto("fail")
  /\ UNCHANGED <<job, effects, request>>

FailStep ==
  /\ worker.phase = "fail"
  /\ SetStep(worker.step, "failed")
  /\ worker' = [worker EXCEPT !.phase = "read", !.failed = @ \cup {worker.step}]
  /\ UNCHANGED <<effects, request>>

-----------------------------------------------------------------------------
(* updateProgress: getStatus, then updateDocument with a status made from  *)
(* what was read.                                                          *)

ReadProgress ==
  /\ worker.phase = "read"
  /\ worker' = [worker EXCEPT !.phase = "write", !.seen = job.status]
  /\ UNCHANGED <<job, effects, request>>

\* Slip: reporting progress always means running.
ProgressIsRunning(seen) == "running"

ProgressStatus(seen) == IF seen # "cancelled" THEN "running" ELSE seen

\* Slips: the loop does not advance; a worker that is not chunked leaves out its
\* last step.
AfterReportStuck ==
  \/ Chunked /\ worker.step < worker.size /\ Goto("check")
  \/ Chunked /\ worker.step = worker.size /\ Goto("parent")
  \/ ~Chunked /\ Goto(IF worker.step = 0 THEN "check" ELSE "settle")

AfterReportShort ==
  LET s == worker.step IN
  \/ Chunked /\ s < worker.size /\ GotoStep("check", s + 1)
  \/ Chunked /\ s = worker.size /\ Goto("parent")
  \/ ~Chunked /\ s = 0 /\ Goto("check")
  \/ ~Chunked /\ s \in 1..(worker.size - 2) /\ GotoStep("settle", s + 1)
  \/ ~Chunked /\ s > 0 /\ s >= worker.size - 1 /\ Goto("complete")

AfterReport ==
  LET s == worker.step IN
  \/ Chunked /\ s < worker.size /\ GotoStep("check", s + 1)
  \/ Chunked /\ s = worker.size /\ Goto("parent")
  \/ ~Chunked /\ s = 0 /\ Goto("check")
  \/ ~Chunked /\ s \in 1..(worker.size - 1) /\ GotoStep("settle", s + 1)
  \/ ~Chunked /\ s = worker.size /\ Goto("complete")

WriteProgress ==
  /\ worker.phase = "write"
  /\ job' = [job EXCEPT !.status = ProgressStatus(worker.seen)]
  /\ AfterReport
  /\ UNCHANGED <<effects, request>>

-----------------------------------------------------------------------------
(* The end of an import: a summary memory for every item that has a chunk, *)
(* related to each of its chunks, and the verdict from the chunks' counts. *)

Unsummarised == {ItemOf[c] : c \in worker.stored} \ parents
Unlinked == {c \in worker.stored : ItemOf[c] \in parents} \ links

\* Slip: the design's verdict, which does not know "failed".
ImportVerdictByFailures ==
  IF worker.failed = {} THEN "completed" ELSE "completed_with_errors"

ImportVerdict ==
  IF worker.failed = {} THEN "completed"
  ELSE IF worker.succeeded = {} THEN "failed" ELSE "completed_with_errors"

CreateParent ==
  /\ worker.phase = "parent"
  /\ \E i \in Unsummarised :
       /\ \A j \in Unsummarised : i <= j
       /\ parents' = parents \cup {i}
  /\ Goto("link")
  /\ UNCHANGED <<job, memories, links, worked, late, undone, request>>

LinkChunk ==
  /\ worker.phase = "link"
  /\ \E c \in Unlinked :
       /\ \A d \in Unlinked : c <= d
       /\ links' = links \cup {c}
       /\ Goto(IF Unlinked = {c} THEN "parent" ELSE "link")
  /\ UNCHANGED <<job, memories, parents, worked, late, undone, request>>

FinishImport ==
  /\ worker.phase = "parent"
  /\ Unsummarised = {}
  /\ Conclude(ImportVerdict)
  /\ UNCHANGED <<job, effects, request>>

-----------------------------------------------------------------------------
(* JobService.complete, whatever the job's status is by then, and the      *)
(* event of an account deletion.                                           *)

Announces ==
  job.type = "account_deletion" /\ worker.verdict \in {"completed", "completed_with_errors"}

Complete ==
  /\ worker.phase = "complete"
  /\ job' = [job EXCEPT !.status = worker.verdict]
  /\ Goto(IF Announces THEN "emit" ELSE "done")
  /\ UNCHANGED <<effects, request>>

\* The emit is inside the try: an event bus that rejects fails the job.
Emit ==
  /\ worker.phase = "emit"
  /\ Goto("done") \/ (MayFail("emit") /\ Conclude("failed"))
  /\ UNCHANGED <<job, effects, request>>

\* The catch of a worker that is not chunked: from its isCancelled on, until it
\* completes the job as failed itself.
Guarded ==
  /\ ~Chunked
  /\ \/ worker.phase \in {"check", "settle"}
     \/ worker.phase \in {"read", "write"} /\ worker.step > 0
     \/ worker.phase = "complete" /\ worker.verdict # "failed"

Catch ==
  /\ Guarded
  /\ MayFail("store")
  /\ Conclude("failed")
  /\ UNCHANGED <<job, effects, request>>

-----------------------------------------------------------------------------
(* A call that rejects outside a try rejects execute(): nothing more       *)
(* happens to the job.  So it is when the process dies.                    *)

Ended == worker.phase \in {"absent", "queued", "done", "aborted"}

Unguarded(call) ==
  \/ call = "process"
  \/ call = "memory" /\ worker.phase = "parent" /\ Unsummarised # {}
  \/ call = "relationship" /\ worker.phase = "link"
  \/ /\ call = "store" /\ ~Guarded
     /\ worker.phase \in {"register", "mark", "check", "fail", "read", "write", "complete"}

Abort ==
  /\ ~Ended
  /\ \E call \in Failing : Unguarded(call)
  /\ Goto("aborted")
  /\ UNCHANGED <<job, effects, request>>

-----------------------------------------------------------------------------
(* The client and the cleanup.                                             *)

\* A client asks to cancel a job that it sees unfinished, and may ask again when
\* it still, or again, sees it so.
SendCancel ==
  /\ job.exists
  /\ job.status \notin Terminal
  /\ request = "none"
  /\ request' = "sent"
  /\ UNCHANGED <<job, worker, effects>>

\* JobService.cancel: one update, whatever has become of the job meanwhile.
Cancel ==
  /\ request = "sent"
  /\ job.exists
  /\ job' = [job EXCEPT !.status = "cancelled"]
  /\ undone' = job.status
  /\ request' = "none"
  /\ UNCHANGED <<worker, memories, parents, links, worked, late>>

\* The TTL, in hours, is taken to outlast the worker.
CleanupExpired ==
  /\ job.exists
  /\ job.status \in Terminal
  /\ worker.phase \in {"done", "aborted"}
  /\ job' = [job EXCEPT !.exists = FALSE]
  /\ UNCHANGED <<worker, effects, request>>

-----------------------------------------------------------------------------

Execute ==
  \/ Begin \/ Prepare \/ AddStep \/ MarkRunning \/ IsCancelled
  \/ CreateChunk \/ CreateChunkFails \/ Work
  \/ CompleteStep \/ CompleteStepFails \/ FailStep
  \/ ReadProgress \/ WriteProgress
  \/ CreateParent \/ LinkChunk \/ FinishImport
  \/ Complete \/ Emit \/ Catch

Next ==
  \/ CreateJob \/ Execute \/ Abort
  \/ SendCancel \/ Cancel \/ CleanupExpired

\* A worker that is running keeps running; clients and the cleanup need not.
Spec == Init /\ [][Next]_vars /\ WF_vars(Execute)

-----------------------------------------------------------------------------
(* Properties.                                                             *)

\* A job that has ended is reported as running again in one case only: it was
\* cancelled while updateProgress stood between reading its status and writing
\* one.  A report that has read the end leaves it alone, and nothing revives a job
\* that its worker has concluded.
NeverRevived ==
  [][(job.exists /\ job.status \in Terminal) =>
       \/ ~job'.exists
       \/ job'.status \in Terminal
       \/ /\ job.status = "cancelled"
          /\ worker.phase = "write" /\ worker.seen \notin Terminal]_vars

\* However cancellations and reports meet, an import makes at most one chunk
\* memory while its job says cancelled, the one it was making: from then on the
\* status cannot be lost, and the next isCancelled sees it and ends the import.
CancelStopsImport == \A c, d \in late : c = d

Concluded == worker.phase \in {"emit", "done"}

\* What the verdict says of an import's steps, memories and summaries.
ImportTold ==
  LET all == 1..worker.size
      of(status) == {c \in all : job.steps[c] = status}
      linked == links \cap memories IN
  CASE worker.verdict = "completed" -> of("completed") = all /\ all \subseteq linked
    [] worker.verdict = "completed_with_errors" ->
         /\ of("completed") \cup of("failed") = all
         /\ of("completed") # {} /\ of("failed") # {}
         /\ of("completed") \subseteq linked
    [] worker.verdict = "failed" -> of("completed") = {}
    [] worker.verdict = "cancelled" -> of("running") = {} /\ parents = {}

\* What an import reports agrees with what it did.  Completed: every step is
\* completed, and its memory exists and is related to its item's summary.  With
\* errors: as much for the steps that are completed, and there are both kinds.
\* Failed: no step is completed.  Cancelled: no step is left running and nothing
\* was summarised.
VerdictTellsImport == (Chunked /\ Concluded) => ImportTold

\* What the job of a concluded REM cycle or deletion says, a cancellation that
\* landed late included.  Completed, with errors or not: the work was made and
\* every step says so.  Cancelled: the work was not made, unless the cancellation
\* overwrote what the worker had already reported.
VerdictTellsWork ==
  (~Chunked /\ Concluded) =>
    /\ job.status \in Terminal
    /\ job.status \in {"completed", "completed_with_errors"} =>
         worked /\ \A s \in 1..NumSteps : job.steps[s] = "completed"
    /\ job.status = "cancelled" => (~worked \/ undone \in Terminal)

\* A job that is picked up ends in a terminal status, unless its worker was cut
\* short by a failure that no handler of it catches.
Settles == (worker.phase = "queued") ~> (job.status \in Terminal \/ worker.phase = "aborted")

\* The same without the exception, as the design has it. A failing call outside
\* every try breaks it ("relationship" in Failing).
AlwaysSettles == (worker.phase = "queued") ~> (job.status \in Terminal)

=============================================================================

------------------------------ MODULE Pipeline ------------------------------
(***************************************************************************)
(* The processing of uploaded documents: the upload handler that stores a  *)
(* document and publishes its task, the broker's queue, the workers that   *)
(* run process_document (six stages, each with a processing_jobs row, and  *)
(* its two failure handlers), the broker's redelivery of unacknowledged    *)
(* tasks, and the reaper of stale documents.                               *)
(*                                                                         *)
(* One step is one database commit (with the reads that immediately        *)
(* precede it) or one broker operation; what a session has not committed   *)
(* is lost with it.  Where the code reads a column, works for minutes and  *)
(* writes it back, the read and the write are separate steps.              *)
(***************************************************************************)
EXTENDS Naturals, FiniteSets

CONSTANTS
  Docs,           \* documents
  NoDoc,          \* "no document": the task of an idle worker
  Workers,        \* worker processes of the Celery pool
  MaxRetries,     \* CELERY_TASK_MAX_RETRIES
  Oversized,      \* documents with more than MAX_PAGE_COUNT pages
  NumPages,       \* pages stage 2 produces, after that cap
  NumQuestions,   \* questions stage 4 finds
  Faults,         \* the kinds of fault that may happen
  MaxLosses       \* bound on losses: processes, statements, confirmations

FaultKinds ==
  {"raise",    \* a stage raises an exception of its own
   "db",       \* the database refuses or loses a statement
   "soft",     \* SoftTimeLimitExceeded
   "kill",     \* the hard time limit
   "crash",    \* a process is lost
   "publish",  \* the broker refuses the retry
   "enqueue",  \* the broker refuses the upload's task
   "confirm",  \* the broker takes a message and the publisher does not learn it
   "api"}      \* the API process is lost during an upload

Stages == 1..6

Status == {"none", "QUEUED", "PROCESSING", "PARTIAL", "COMPLETED", "FAILED"}

ASSUME DocsAssumption == NoDoc \notin Docs /\ Oversized \subseteq Docs
ASSUME BoundAssumption == MaxRetries \in Nat /\ MaxLosses \in Nat
ASSUME FaultAssumption == Faults \subseteq FaultKinds
(* A document without pages has no text, so stage 4 finds nothing in it. *)
ASSUME SizeAssumption ==
  /\ NumPages \in [Docs -> Nat]
  /\ NumQuestions \in [Docs -> Nat]
  /\ \A d \in Docs : NumPages[d] = 0 => NumQuestions[d] = 0

VARIABLES
  status,      \* documents.status, "none" before the row exists
  error,       \* documents.error_message: which writer set it last
  skipped,     \* documents.pages_skipped > 0
  stale,       \* documents.updated_at is older than the reaper's threshold
  flagged,     \* the document has a page_count_exceeded review item
  pages,       \* number of page rows
  asked,       \* number of question rows
  answered,    \* number of answer rows
  done,        \* stages with a COMPLETED processing_jobs row
  abandoned,   \* stages with a RUNNING row that no execution will finish
  upload,      \* progress of the upload request
  queue,       \* queue[d][r]: ready tasks of d carrying retry count r
  pc,          \* what a worker's execution does next
  task,        \* the document of the execution
  retries,     \* self.request.retries of the execution
  stage,       \* the stage it is in
  seen,        \* documents.status as its session last loaded it
  reaping,     \* documents the reaper has selected and not yet written
  losses,      \* what has been lost so far, see MaxLosses
  unloaded     \* history: documents an execution ended without having loaded

docVars == <<status, error, skipped, stale, flagged>>
rowVars == <<pages, asked, answered>>
jobVars == <<done, abandoned>>
brokerVars == <<upload, queue>>
workerVars == <<pc, task, retries, stage, seen>>
reaperVars == <<reaping, losses, unloaded>>
vars == <<docVars, rowVars, jobVars, brokerVars, workerVars, reaperVars>>

PCs == {"idle", "start", "create", "stage", "final", "committed", "handler",
        "timeout", "retry", "ack"}

DocTypes ==
  /\ status \in [Docs -> Status]
  /\ error \in [Docs -> {"none", "enqueue", "failed", "timeout", "stalled"}]
  /\ skipped \in [Docs -> BOOLEAN]
  /\ stale \in [Docs -> BOOLEAN]
  /\ flagged \in [Docs -> BOOLEAN]

RowTypes ==
  /\ pages \in [Docs -> Nat]
  /\ asked \in [Docs -> Nat]
  /\ answered \in [Docs -> Nat]

JobTypes ==
  /\ done \in [Docs -> SUBSET Stages]
  /\ abandoned \in [Docs -> SUBSET Stages]

BrokerTypes ==
  /\ upload \in [Docs -> {"none", "stored", "over"}]
  /\ queue \in [Docs -> [0..MaxRetries -> Nat]]

WorkerTypes ==
  /\ pc \in [Workers -> PCs]
  /\ task \in [Workers -> Docs \cup {NoDoc}]
  /\ retries \in [Workers -> 0..MaxRetries]
  /\ stage \in [Workers -> Stages]
  /\ seen \in [Workers -> Status]
  /\ \A w \in Workers : pc[w] # "idle" => task[w] \in Docs

ReaperTypes ==
  /\ reaping \in SUBSET Docs
  /\ losses \in Nat
  /\ unloaded \in SUBSET Docs

(* The types of the variables; an execution under way has a document. *)
TypeOK ==
  /\ DocTypes /\ RowTypes /\ JobTypes
  /\ BrokerTypes /\ WorkerTypes /\ ReaperTypes

Init ==
  /\ status = [d \in Docs |-> "none"]
  /\ error = [d \in Docs |-> "none"]
  /\ skipped = [d \in Docs |-> FALSE]
  /\ stale = [d \in Docs |-> FALSE]
  /\ flagged = [d \in Docs |-> FALSE]
  /\ pages = [d \in Docs |-> 0]
  /\ asked = [d \in Docs |-> 0]
  /\ answered = [d \in Docs |-> 0]
  /\ done = [d \in Docs |-> {}]
  /\ abandoned = [d \in Docs |-> {}]
  /\ upload = [d \in Docs |-> "none"]
  /\ queue = [d \in Docs |-> [r \in 0..MaxRetries |-> 0]]
  /\ pc = [w \in Workers |-> "idle"]
  /\ task = [w \in Workers |-> NoDoc]
  /\ retries = [w \in Workers |-> 0]
  /\ stage = [w \in Workers |-> 1]
  /\ seen = [w \in Workers |-> "none"]
  /\ reaping = {}
  /\ losses = 0
  /\ unloaded = {}

-----------------------------------------------------------------------------
(* Helpers: one write of a documents row, one queue operation, one move of *)
(* an execution's control.                                                 *)

SetStatus(d, s) ==
  /\ status' = [status EXCEPT ![d] = s]
  /\ stale' = [stale EXCEPT ![d] = FALSE]

SetFailed(d, reason) ==
  /\ SetStatus(d, "FAILED")
  /\ error' = [error EXCEPT ![d] = reason]
  /\ UNCHANGED <<skipped, flagged>>

Publish(d, r) == queue' = [queue EXCEPT ![d][r] = @ + 1]

Goto(w, label) ==
  /\ pc' = [pc EXCEPT ![w] = label]
  /\ UNCHANGED <<task, retries, stage, seen>>

(* db.close() and the end of the execution, acknowledged or lost. *)
Vanish(w) ==
  /\ pc' = [pc EXCEPT ![w] = "idle"]
  /\ task' = [task EXCEPT ![w] = NoDoc]
  /\ retries' = [retries EXCEPT ![w] = 0]
  /\ stage' = [stage EXCEPT ![w] = 1]
  /\ seen' = [seen EXCEPT ![w] = "none"]

(* Mutant: the stage counter runs one past the last stage. *)
Mut_NextStagePastSix(w) ==
  /\ IF stage[w] = 7
       THEN pc' = [pc EXCEPT ![w] = "committed"] /\ UNCHANGED stage
       ELSE /\ pc' = [pc EXCEPT ![w] = "create"]
            /\ stage' = [stage EXCEPT ![w] = @ + 1]
  /\ UNCHANGED <<task, retries, seen>>

(* Mutant: a finished execution asks for a retry. *)
Mut_NextStageRetries(w) ==
  /\ IF stage[w] = 6
       THEN pc' = [pc EXCEPT ![w] = "retry"] /\ UNCHANGED stage
       ELSE /\ pc' = [pc EXCEPT ![w] = "create"]
            /\ stage' = [stage EXCEPT ![w] = @ + 1]
  /\ UNCHANGED <<task, retries, seen>>

(* After a stage's commit: on to the next stage, or to the last lines of    *)
(* the sixth one's try block.                                              *)
NextStage(w) ==
  /\ IF stage[w] = 6
       THEN pc' = [pc EXCEPT ![w] = "committed"] /\ UNCHANGED stage
       ELSE /\ pc' = [pc EXCEPT ![w] = "create"]
            /\ stage' = [stage EXCEPT ![w] = @ + 1]
  /\ UNCHANGED <<task, retries, seen>>

CompleteJob(w) ==
  /\ done' = [done EXCEPT ![task[w]] = @ \cup {stage[w]}]
  /\ UNCHANGED abandoned

(* The execution goes away while its job row still says RUNNING. *)
HasRunningJob(w) == pc[w] \in {"stage", "final"}

AbandonJob(w) ==
  /\ abandoned' = IF HasRunningJob(w)
                    THEN [abandoned EXCEPT ![task[w]] = @ \cup {stage[w]}]
                    ELSE abandoned
  /\ UNCHANGED done

(* A process, a statement or a confirmation is lost. *)
Lose ==
  /\ losses < MaxLosses
  /\ losses' = losses + 1
  /\ UNCHANGED <<reaping, unloaded>>

-----------------------------------------------------------------------------
(* The upload request, from the commit of the documents row on.            *)

CommitDocument(d) ==
  /\ upload[d] = "none"
  /\ upload' = [upload EXCEPT ![d] = "stored"]
  /\ SetStatus(d, "QUEUED")
  /\ UNCHANGED <<error, skipped, flagged, queue>>
  /\ UNCHANGED <<rowVars, jobVars, workerVars, reaperVars>>

Enqueue(d) ==
  /\ upload[d] = "stored"
  /\ upload' = [upload EXCEPT ![d] = "over"]
  /\ Publish(d, 0)
  /\ UNCHANGED <<docVars, rowVars, jobVars, workerVars, reaperVars>>

(* The message is in the queue, but delay() does not know it: the client   *)
(* publishes it again, or gives up and reports a failure.                  *)
EnqueueUnconfirmed(d) ==
  /\ "confirm" \in Faults /\ upload[d] = "stored"
  /\ Lose
  /\ Publish(d, 0)
  /\ UNCHANGED <<upload, docVars, rowVars, jobVars, workerVars>>

(* Mutant: the failure to enqueue is only logged. *)
Mut_EnqueueFailsLogged(d) ==
  /\ "enqueue" \in Faults /\ upload[d] = "stored"
  /\ upload' = [upload EXCEPT ![d] = "over"]
  /\ UNCHANGED <<queue, docVars, rowVars, jobVars, workerVars, reaperVars>>

EnqueueFails(d) ==
  /\ "enqueue" \in Faults /\ upload[d] = "stored"
  /\ upload' = [upload EXCEPT ![d] = "over"]
  /\ SetFailed(d, "enqueue")
  /\ UNCHANGED <<queue, rowVars, jobVars, workerVars, reaperVars>>

ApiCrash(d) ==
  /\ "api" \in Faults /\ upload[d] = "stored"
  /\ Lose
  /\ upload' = [upload EXCEPT ![d] = "over"]
  /\ UNCHANGED <<queue, docVars, rowVars, jobVars, workerVars>>

-----------------------------------------------------------------------------
(* An execution of process_document.                                       *)

Deliver(w, d, r) ==
  /\ pc[w] = "idle" /\ queue[d][r] > 0
  /\ queue' = [queue EXCEPT ![d][r] = @ - 1]
  /\ pc' = [pc EXCEPT ![w] = "start"]
  /\ task' = [task EXCEPT ![w] = d]
  /\ retries' = [retries EXCEPT ![w] = r]
  /\ UNCHANGED <<stage, seen, upload, docVars, rowVars, jobVars, reaperVars>>

(* Mutant: the start of an execution deletes the pages of an earlier one. *)
Mut_StartDeletesPages(w) ==
  /\ pc[w] = "start"
  /\ SetStatus(task[w], "PROCESSING")
  /\ pages' = [pages EXCEPT ![task[w]] = 0]
  /\ Goto(w, "create")
  /\ UNCHANGED <<error, skipped, flagged, asked, answered>>
  /\ UNCHANGED <<jobVars, brokerVars, reaperVars>>

(* Whatever the document's status was, it becomes PROCESSING. *)
Start(w) ==
  /\ pc[w] = "start"
  /\ SetStatus(task[w], "PROCESSING")
  /\ Goto(w, "create")
  /\ UNCHANGED <<error, skipped, flagged>>
  /\ UNCHANGED <<rowVars, jobVars, brokerVars, reaperVars>>

(* _create_job commits a RUNNING row.  Stage 1 then loads the document,    *)
(* which the commit had expired, to read its storage path.                 *)
CreateJob(w) ==
  /\ pc[w] = "create"
  /\ pc' = [pc EXCEPT ![w] = "stage"]
  /\ seen' = [seen EXCEPT ![w] = IF stage[w] = 1 THEN status[task[w]] ELSE @]
  /\ UNCHANGED <<task, retries, stage>>
  /\ UNCHANGED <<docVars, rowVars, jobVars, brokerVars, reaperVars>>

(* The documents columns stage 1 sets.  An attribute set to the value the  *)
(* session loaded is not written.                                          *)
WriteValidation(w) ==
  LET d == task[w] IN
  /\ status' = IF d \in Oversized /\ seen[w] # "PARTIAL"
                 THEN [status EXCEPT ![d] = "PARTIAL"] ELSE status
  /\ skipped' = [skipped EXCEPT ![d] = d \in Oversized]
  /\ stale' = [stale EXCEPT ![d] = FALSE]

ValidationDone(w) ==
  /\ pc[w] = "stage" /\ stage[w] = 1
  /\ WriteValidation(w)
  /\ flagged' = [flagged EXCEPT ![task[w]] = @ \/ task[w] \in Oversized]
  /\ CompleteJob(w) /\ NextStage(w)
  /\ UNCHANGED <<error, rowVars, brokerVars, reaperVars>>

(* Stages 2, 4 and 5 commit nothing but their job row. *)
PlainStageDone(w) ==
  /\ pc[w] = "stage" /\ stage[w] \in {2, 4, 5}
  /\ CompleteJob(w) /\ NextStage(w)
  /\ UNCHANGED <<docVars, rowVars, brokerVars, reaperVars>>

(* Mutant: the unique constraint is missing. *)
Mut_PagesNeverClash(d, k) == FALSE

(* Inserting k page rows breaks uq_page_doc_number when some exist. *)
PagesClash(d, k) == k > 0 /\ pages[d] > 0

ExtractionDone(w) ==
  /\ pc[w] = "stage" /\ stage[w] = 3
  /\ ~PagesClash(task[w], NumPages[task[w]])
  /\ pages' = [pages EXCEPT ![task[w]] = @ + NumPages[task[w]]]
  /\ CompleteJob(w) /\ NextStage(w)
  /\ UNCHANGED <<asked, answered, docVars, brokerVars, reaperVars>>

(* The flush that fails leaves the session unusable until a rollback,      *)
(* which no code calls: _fail_job raises, and so does the query of the     *)
(* outer handler, whose exception is swallowed.  Neither the job row nor   *)
(* the document row is touched.                                            *)
SessionLost(w) ==
  /\ Goto(w, IF pc[w] = "timeout" THEN "ack" ELSE "retry")
  /\ AbandonJob(w)
  /\ UNCHANGED <<docVars, rowVars, brokerVars>>

ExtractionClash(w) ==
  /\ pc[w] = "stage" /\ stage[w] = 3
  /\ PagesClash(task[w], NumPages[task[w]])
  /\ SessionLost(w)
  /\ UNCHANGED reaperVars

(* Mutant: the outcome is committed before the rows. *)
Mut_FinalReadCommits(w) ==
  /\ pc[w] = "stage" /\ stage[w] = 6
  /\ pc' = [pc EXCEPT ![w] = "final"]
  /\ seen' = [seen EXCEPT ![w] = status[task[w]]]
  /\ SetStatus(task[w], "COMPLETED")
  /\ UNCHANGED <<task, retries, stage, error, skipped, flagged>>
  /\ UNCHANGED <<rowVars, jobVars, brokerVars, reaperVars>>

(* Stage 6 reads the status it will decide on, then commits its rows with  *)
(* the status that decision gives.                                         *)
FinalRead(w) ==
  /\ pc[w] = "stage" /\ stage[w] = 6
  /\ pc' = [pc EXCEPT ![w] = "final"]
  /\ seen' = [seen EXCEPT ![w] = status[task[w]]]
  /\ UNCHANGED <<task, retries, stage>>
  /\ UNCHANGED <<docVars, rowVars, jobVars, brokerVars, reaperVars>>

AddQuestions(d, q, a) ==
  /\ asked' = [asked EXCEPT ![d] = @ + q]
  /\ answered' = [answered EXCEPT ![d] = @ + a]
  /\ UNCHANGED pages

(* Mutant: the check for PARTIAL is dropped. *)
Mut_OutcomeIgnoresPartial(w) ==
  /\ status' = [status EXCEPT ![task[w]] = "COMPLETED"]
  /\ stale' = [stale EXCEPT ![task[w]] = FALSE]

WriteOutcome(w) ==
  /\ status' = IF seen[w] \in {"PARTIAL", "COMPLETED"}
                 THEN status ELSE [status EXCEPT ![task[w]] = "COMPLETED"]
  /\ stale' = [stale EXCEPT ![task[w]] = FALSE]

FinalCommit(w) ==
  /\ pc[w] = "final"
  /\ AddQuestions(task[w], NumQuestions[task[w]], NumQuestions[task[w]])
  /\ WriteOutcome(w)
  /\ CompleteJob(w) /\ NextStage(w)
  /\ UNCHANGED <<error, skipped, flagged, brokerVars, reaperVars>>

(* What is left of the try block only logs. *)
FinalDone(w) ==
  /\ pc[w] = "committed"
  /\ Goto(w, "ack")
  /\ UNCHANGED <<docVars, rowVars, jobVars, brokerVars, reaperVars>>

-----------------------------------------------------------------------------
(* Failures of an execution and their handlers.                            *)

(* Mutant: the retry is published before the failure is recorded. *)
Mut_StageRaisesAndRetries(w) ==
  /\ "raise" \in Faults /\ pc[w] = "stage" /\ retries[w] < MaxRetries
  /\ Publish(task[w], retries[w] + 1)
  /\ Goto(w, "handler")
  /\ UNCHANGED <<upload, docVars, rowVars, jobVars, reaperVars>>

(* The stage's function raises: _fail_job commits, the exception goes on.  *)
StageRaises(w) ==
  /\ "raise" \in Faults /\ pc[w] = "stage"
  /\ Goto(w, "handler")
  /\ UNCHANGED <<docVars, rowVars, jobVars, brokerVars, reaperVars>>

(* After the last commit only a soft limit makes the database be asked     *)
(* again, by _fail_job.                                                    *)
DbError(w) ==
  /\ "db" \in Faults
  /\ \/ pc[w] \in {"start", "create", "stage", "final", "handler", "timeout"}
     \/ pc[w] = "committed" /\ "soft" \in Faults
  /\ Lose
  /\ SessionLost(w)

(* The soft limit strikes before document is assigned: its handler raises  *)
(* UnboundLocalError, the task has failed and is acknowledged, and the row *)
(* is left as it was.                                                      *)
SoftLimitUnloaded(w) ==
  /\ "soft" \in Faults /\ pc[w] = "start"
  /\ unloaded' = unloaded \cup {task[w]}
  /\ Goto(w, "ack")
  /\ UNCHANGED <<reaping, losses, docVars, rowVars, jobVars, brokerVars>>

(* It strikes between document's assignment and the first commit. *)
SoftLimitLoaded(w) ==
  /\ "soft" \in Faults /\ pc[w] = "start"
  /\ Goto(w, "timeout")
  /\ UNCHANGED <<docVars, rowVars, jobVars, brokerVars, reaperVars>>

(* The soft limit strikes between two stages: no job, or one left RUNNING. *)
SoftLimitBetween(w) ==
  /\ "soft" \in Faults /\ pc[w] = "create"
  /\ Goto(w, "timeout")
  /\ \/ UNCHANGED abandoned
     \/ abandoned' = [abandoned EXCEPT ![task[w]] = @ \cup {stage[w]}]
  /\ UNCHANGED <<done, docVars, rowVars, brokerVars, reaperVars>>

(* It strikes inside a stage.  _fail_job's commit also commits whatever    *)
(* the stage had put in the session: the columns of stage 1 with or        *)
(* without the review item, ...                                            *)
SoftLimitValidation(w) ==
  /\ "soft" \in Faults /\ pc[w] = "stage" /\ stage[w] = 1
  /\ \/ UNCHANGED docVars
     \/ /\ WriteValidation(w)
        /\ \E item \in {FALSE, task[w] \in Oversized} :
             flagged' = [flagged EXCEPT ![task[w]] = @ \/ item]
        /\ UNCHANGED error
  /\ Goto(w, "timeout")
  /\ UNCHANGED <<rowVars, jobVars, brokerVars, reaperVars>>

SoftLimitPlain(w) ==
  /\ "soft" \in Faults /\ pc[w] = "stage" /\ stage[w] \in {2, 4, 5}
  /\ Goto(w, "timeout")
  /\ UNCHANGED <<docVars, rowVars, jobVars, brokerVars, reaperVars>>

(* ... the first k page rows of stage 3 (which may clash), ... *)
SoftLimitExtraction(w) ==
  /\ "soft" \in Faults /\ pc[w] = "stage" /\ stage[w] = 3
  /\ \E k \in 0..NumPages[task[w]] :
       \/ /\ PagesClash(task[w], k)
          /\ SessionLost(w)
          /\ UNCHANGED reaperVars
       \/ /\ ~PagesClash(task[w], k)
          /\ pages' = [pages EXCEPT ![task[w]] = @ + k]
          /\ Goto(w, "timeout")
          /\ UNCHANGED <<asked, answered, docVars, jobVars, brokerVars, reaperVars>>

(* ... the first q questions of stage 6, the last one perhaps without its  *)
(* answer, ...                                                             *)
SoftLimitConfidence(w) ==
  /\ "soft" \in Faults /\ pc[w] = "stage" /\ stage[w] = 6
  /\ \E q \in 0..NumQuestions[task[w]] : \E a \in 0..q :
       /\ a + 1 >= q
       /\ AddQuestions(task[w], q, a)
  /\ Goto(w, "timeout")
  /\ UNCHANGED <<docVars, jobVars, brokerVars, reaperVars>>

(* ... or all of them, and perhaps the outcome. *)
SoftLimitFinal(w) ==
  /\ "soft" \in Faults /\ pc[w] = "final"
  /\ AddQuestions(task[w], NumQuestions[task[w]], NumQuestions[task[w]])
  /\ WriteOutcome(w) \/ UNCHANGED <<status, stale>>
  /\ Goto(w, "timeout")
  /\ UNCHANGED <<error, skipped, flagged, jobVars, brokerVars, reaperVars>>

(* It strikes after the last commit, where the try block goes on: _fail_job *)
(* takes the job's COMPLETED back.  Only a document without pages may have  *)
(* another one for stage 6.                                                 *)
SoftLimitCommitted(w) ==
  /\ "soft" \in Faults /\ pc[w] = "committed"
  /\ \/ done' = [done EXCEPT ![task[w]] = @ \ {6}]
     \/ NumPages[task[w]] = 0 /\ UNCHANGED done
  /\ Goto(w, "timeout")
  /\ UNCHANGED <<abandoned, docVars, rowVars, brokerVars, reaperVars>>

(* It strikes in the handler of another failure, which swallows it: what   *)
(* the handler had to write is lost.                                       *)
SoftLimitHandler(w) ==
  /\ "soft" \in Faults /\ pc[w] = "handler"
  /\ Lose
  /\ Goto(w, "retry")
  /\ UNCHANGED <<docVars, rowVars, jobVars, brokerVars>>

MarkTimedOut(w) ==
  /\ pc[w] = "timeout"
  /\ SetFailed(task[w], "timeout")
  /\ Goto(w, "ack")
  /\ UNCHANGED <<rowVars, jobVars, brokerVars, reaperVars>>

MarkFailed(w) ==
  /\ pc[w] = "handler"
  /\ SetFailed(task[w], "failed")
  /\ Goto(w, "retry")
  /\ UNCHANGED <<rowVars, jobVars, brokerVars, reaperVars>>

(* Mutant: the retry carries the old retry count. *)
Mut_RetryUncounted(w) ==
  /\ pc[w] = "retry" /\ retries[w] < MaxRetries
  /\ Publish(task[w], retries[w])
  /\ Goto(w, "ack")
  /\ UNCHANGED <<upload, docVars, rowVars, jobVars, reaperVars>>

(* self.retry publishes a new task before the old one is acknowledged. *)
PublishRetry(w) ==
  /\ pc[w] = "retry" /\ retries[w] < MaxRetries
  /\ Publish(task[w], retries[w] + 1)
  /\ Goto(w, "ack")
  /\ UNCHANGED <<upload, docVars, rowVars, jobVars, reaperVars>>

(* The same for a retry whose publication is not confirmed. *)
RetryUnconfirmed(w) ==
  /\ "confirm" \in Faults /\ pc[w] = "retry" /\ retries[w] < MaxRetries
  /\ Lose
  /\ Publish(task[w], retries[w] + 1)
  /\ UNCHANGED <<upload, docVars, rowVars, jobVars, workerVars>>

(* No retry is left, the broker refuses it, or the soft limit ends self.retry. *)
GiveUp(w) ==
  /\ pc[w] = "retry"
  /\ retries[w] = MaxRetries \/ Faults \cap {"publish", "soft"} # {}
  /\ Goto(w, "ack")
  /\ UNCHANGED <<docVars, rowVars, jobVars, brokerVars, reaperVars>>

Ack(w) ==
  /\ pc[w] = "ack"
  /\ Vanish(w)
  /\ UNCHANGED <<docVars, rowVars, jobVars, brokerVars, reaperVars>>

(* The hard limit kills the process; the pool acknowledges the task. *)
HardLimit(w) ==
  /\ "kill" \in Faults /\ pc[w] # "idle"
  /\ Lose
  /\ AbandonJob(w) /\ Vanish(w)
  /\ UNCHANGED <<docVars, rowVars, brokerVars>>

(* A lost process has acknowledged nothing: the task is delivered again. *)
WorkerCrash(w) ==
  /\ "crash" \in Faults /\ pc[w] # "idle"
  /\ Lose
  /\ Publish(task[w], retries[w])
  /\ AbandonJob(w) /\ Vanish(w)
  /\ UNCHANGED <<upload, docVars, rowVars>>

-----------------------------------------------------------------------------
(* Time and the reaper.                                                    *)

(* The threshold (30 minutes) exceeds the hard limit of an execution, so   *)
(* updated_at cannot get that old while an execution that has committed    *)
(* its start is still there.  Only PROCESSING documents' age is ever read. *)
Age(d) ==
  /\ status[d] = "PROCESSING" /\ ~stale[d]
  /\ \A w \in Workers : task[w] = d => pc[w] = "start"
  /\ stale' = [stale EXCEPT ![d] = TRUE]
  /\ UNCHANGED <<status, error, skipped, flagged>>
  /\ UNCHANGED <<rowVars, jobVars, brokerVars, workerVars, reaperVars>>

(* Mutant: the reaper looks for documents that were never started. *)
Mut_StaleQueuedDocs == {d \in Docs : status[d] = "QUEUED" /\ stale[d]}

StaleDocs == {d \in Docs : status[d] = "PROCESSING" /\ stale[d]}

ReaperQuery ==
  /\ reaping = {} /\ StaleDocs # {}
  /\ reaping' = StaleDocs
  /\ UNCHANGED <<losses, unloaded>>
  /\ UNCHANGED <<docVars, rowVars, jobVars, brokerVars, workerVars>>

(* The commit does not look at the status again. *)
ReaperCommit ==
  /\ reaping # {}
  /\ status' = [d \in Docs |-> IF d \in reaping THEN "FAILED" ELSE status[d]]
  /\ error' = [d \in Docs |-> IF d \in reaping THEN "stalled" ELSE error[d]]
  /\ stale' = [d \in Docs |-> stale[d] /\ d \notin reaping]
  /\ reaping' = {}
  /\ UNCHANGED <<skipped, flagged, losses, unloaded>>
  /\ UNCHANGED <<rowVars, jobVars, brokerVars, workerVars>>

(* Its exception is logged, or its process lost: nothing was committed. *)
ReaperFails ==
  /\ Faults \cap {"db", "crash"} # {} /\ losses < MaxLosses
  /\ reaping # {}
  /\ reaping' = {}
  /\ losses' = losses + 1
  /\ UNCHANGED <<unloaded, docVars, rowVars, jobVars, brokerVars, workerVars>>

-----------------------------------------------------------------------------
(* What an execution does when nothing goes wrong around it. *)
Progress(w) ==
  \/ Start(w) \/ CreateJob(w)
  \/ ValidationDone(w) \/ PlainStageDone(w)
  \/ ExtractionDone(w) \/ ExtractionClash(w)
  \/ FinalRead(w) \/ FinalCommit(w) \/ FinalDone(w)
  \/ MarkFailed(w) \/ MarkTimedOut(w)
  \/ PublishRetry(w) \/ GiveUp(w) \/ Ack(w)

Fault(w) ==
  \/ StageRaises(w) \/ DbError(w)
  \/ SoftLimitUnloaded(w) \/ SoftLimitLoaded(w)
  \/ SoftLimitBetween(w) \/ SoftLimitValidation(w) \/ SoftLimitPlain(w)
  \/ SoftLimitExtraction(w) \/ SoftLimitConfidence(w) \/ SoftLimitFinal(w)
  \/ SoftLimitCommitted(w) \/ SoftLimitHandler(w)
  \/ RetryUnconfirmed(w) \/ HardLimit(w) \/ WorkerCrash(w)

Receive == \E w \in Workers, d \in Docs, r \in 0..MaxRetries : Deliver(w, d, r)

Next ==
  \/ \E d \in Docs :
       \/ CommitDocument(d) \/ Enqueue(d)
       \/ EnqueueUnconfirmed(d) \/ EnqueueFails(d) \/ ApiCrash(d)
       \/ Age(d)
  \/ Receive
  \/ \E w \in Workers : Progress(w) \/ Fault(w)
  \/ ReaperQuery \/ ReaperCommit \/ ReaperFails

(* The API finishes a request it serves, the pool takes ready tasks, the   *)
(* hard limit bounds every execution, Celery Beat keeps starting the       *)
(* reaper, and time passes.  Uploads and faults owe nothing.               *)
Fairness ==
  /\ \A d \in Docs : WF_vars(Enqueue(d)) /\ WF_vars(Age(d))
  /\ WF_vars(Receive)
  /\ \A w \in Workers : WF_vars(Progress(w))
  /\ WF_vars(ReaperQuery) /\ WF_vars(ReaperCommit)

Spec == Init /\ [][Next]_vars
FairSpec == Spec /\ Fairness

-----------------------------------------------------------------------------
(* Properties.                                                             *)

(* However often a document's task is retried, redelivered or run twice at *)
(* once, its pages and questions are inserted by one execution only: a     *)
(* reader never sees a question twice.  Nothing in process_document checks *)
(* for earlier rows; only uq_page_doc_number stands in the way.            *)
ExtractedOnce ==
  \A d \in Docs :
    /\ pages[d] <= NumPages[d]
    /\ asked[d] <= NumQuestions[d]
    /\ answered[d] <= asked[d]

(* A document reported COMPLETED has all its pages, all its questions, an  *)
(* answer row for each, and a COMPLETED job for stages 1 to 5, even when   *)
(* soft limits cut other executions of it short.                           *)
CompletedIsWhole ==
  \A d \in Docs : status[d] = "COMPLETED" =>
    /\ pages[d] = NumPages[d]
    /\ asked[d] = NumQuestions[d]
    /\ answered[d] = NumQuestions[d]
    /\ 1..5 \subseteq done[d]

(* The execution is in one of its stages; it has inserted the document's   *)
(* pages and not yet its questions.                                        *)
Working(w) == pc[w] \in {"create", "stage", "final"}
PastPages(w) == Working(w) /\ stage[w] >= 4

(* An execution reaches a stage only through the jobs of those before it.  *)
StageOrder ==
  \A w \in Workers :
    /\ pc[w] \in {"idle", "start"} => stage[w] = 1
    /\ pc[w] = "final" => stage[w] = 6
    /\ Working(w) => 1..(stage[w] - 1) \subseteq done[task[w]]

(* The inductive invariant behind ExtractedOnce and CompletedIsWhole: an   *)
(* execution past stage 3 finds all pages and no question, and is the only *)
(* such execution of its document.                                         *)
ExtractionInv ==
  /\ ExtractedOnce
  /\ CompletedIsWhole
  /\ StageOrder
  /\ \A d \in Docs : asked[d] > 0 => pages[d] = NumPages[d]
  /\ \A w \in Workers : PastPages(w) =>
       pages[task[w]] = NumPages[task[w]] /\ asked[task[w]] = 0
  /\ \A v, w \in Workers :
       v # w /\ PastPages(v) /\ PastPages(w) /\ task[v] = task[w]
         => NumPages[task[v]] = 0

(* The pipeline keeps the promises of the document store. *)
Ledger == INSTANCE DocumentLedger WITH
  Docs <- Docs, NumPages <- NumPages, NumQuestions <- NumQuestions,
  status <- status, pages <- pages, asked <- asked, answered <- answered
LedgerSpec == Ledger!Spec

(* Until something is lost, a document has one execution at a time: a      *)
(* retry is published only after the last write of the execution it        *)
(* replaces.                                                               *)
OneExecution ==
  losses = 0 =>
    \A w1, w2 \in Workers :
      w1 # w2 /\ task[w1] = task[w2] /\ task[w1] # NoDoc
        => "ack" \in {pc[w1], pc[w2]}

(* A document whose pages were cut off at MAX_PAGE_COUNT is not reported   *)
(* COMPLETED, as long as nothing has been lost.                            *)
SkippedNotCompleted ==
  losses = 0 =>
    \A d \in Docs : ~(skipped[d] /\ status[d] = "COMPLETED")

(* Under the same conditions COMPLETED is taken back by one step only: the *)
(* soft limit's handler, in the execution that has written it and has not  *)
(* left the sixth stage's try block.  No retry, no other execution and no  *)
(* reaper that selected the document earlier overwrites it.                *)
CompletedIsFinal ==
  [][\A d \in Docs :
       /\ losses = 0
       /\ status[d] = "COMPLETED" /\ status'[d] # "COMPLETED"
       => \E w \in Workers : task[w] = d /\ pc[w] = "timeout"]_vars

(* A QUEUED document still has somebody to process it: its upload request, *)
(* a queued task or an execution that has yet to write its status - unless *)
(* the soft limit ended an execution of it that had not loaded it.         *)
QueuedIsPending ==
  losses = 0 =>
    \A d \in Docs \ unloaded : status[d] = "QUEUED" =>
      \/ upload[d] = "stored"
      \/ \E r \in 0..MaxRetries : queue[d][r] > 0
      \/ \E w \in Workers : task[w] = d /\ pc[w] \in {"start", "timeout"}

(* tasks.py promises never to leave a document stuck in PROCESSING: every  *)
(* document leaves it, through its execution or through the reaper.        *)
NeverStuckProcessing ==
  \A d \in Docs : status[d] = "PROCESSING" ~> status[d] # "PROCESSING"

(* Retries and redeliveries come to an end: in the end every task is       *)
(* acknowledged and the queue is empty.                                    *)
EveryTaskEnds ==
  <>[](/\ \A w \in Workers : pc[w] = "idle"
       /\ \A d \in Docs, r \in 0..MaxRetries : queue[d][r] = 0)

(* The reaper's docstring: it prevents documents from being permanently    *)
(* stuck if a worker crashes mid-processing.  Nobody works on the document *)
(* any more, so its status must become one the reaper or the final stage   *)
(* writes.                                                                 *)
NobodyWorksOn(d) ==
  /\ upload[d] = "over"
  /\ \A r \in 0..MaxRetries : queue[d][r] = 0
  /\ \A w \in Workers : task[w] # d

CrashedIsReaped ==
  \A d \in Docs :
    (/\ NobodyWorksOn(d)
     /\ status[d] \in {"PROCESSING", "PARTIAL"} /\ asked[d] < NumQuestions[d])
      ~> (status[d] = "FAILED" \/ ~NobodyWorksOn(d))

(* ARCHITECTURE.md: PDFs exceeding MAX_PAGE_COUNT get the status PARTIAL,  *)
(* so a document with skipped pages is never COMPLETED - not even one the  *)
(* reaper has left alone, which is the case stated here.                   *)
OversizedNeverCompleted ==
  \A d \in Docs :
    ~(skipped[d] /\ status[d] = "COMPLETED" /\ error[d] # "stalled")

=============================================================================

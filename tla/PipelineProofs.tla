--------------------------- MODULE PipelineProofs ---------------------------
(***************************************************************************)
(* Theorems of module Pipeline, for any number of documents and workers,   *)
(* any retry limit, any set of faults and any bound on losses.             *)
(*                                                                         *)
(*   1. The types of the variables.                                        *)
(*   2. ExtractionInv: the rows of a document, however often its task is   *)
(*      retried, redelivered or interrupted.                               *)
(*   3. Pipeline implements DocumentLedger: initial states are initial     *)
(*      states of the ledger, and every step is a step of the ledger or    *)
(*      leaves it alone.                                                   *)
(*   4. LosslessInv, what holds until something is lost: a document has    *)
(*      one execution at a time, a QUEUED document waits for somebody,     *)
(*      skipped pages are not COMPLETED, and COMPLETED is taken back by    *)
(*      the soft limit in the execution that wrote it only.                *)
(*   5. RunsDown: until then every step of a document's processing leaves  *)
(*      fewer steps, read off the one claim the document has.              *)
(***************************************************************************)
EXTENDS Pipeline, TLAPS

-----------------------------------------------------------------------------
(* Type correctness.  One lemma per helper says which part of the type     *)
(* invariant it keeps; an action is a combination of helpers.              *)

LEMMA Unchanged ==
  /\ DocTypes /\ UNCHANGED docVars => DocTypes'
  /\ RowTypes /\ UNCHANGED rowVars => RowTypes'
  /\ JobTypes /\ UNCHANGED jobVars => JobTypes'
  /\ BrokerTypes /\ UNCHANGED brokerVars => BrokerTypes'
  /\ WorkerTypes /\ UNCHANGED workerVars => WorkerTypes'
  /\ ReaperTypes /\ UNCHANGED reaperVars => ReaperTypes'
<1>1. DocTypes /\ UNCHANGED docVars => DocTypes'
  BY DEF DocTypes, docVars
<1>2. RowTypes /\ UNCHANGED rowVars => RowTypes'
  BY DEF RowTypes, rowVars
<1>3. JobTypes /\ UNCHANGED jobVars => JobTypes'
  BY DEF JobTypes, jobVars
<1>4. BrokerTypes /\ UNCHANGED brokerVars => BrokerTypes'
  BY DEF BrokerTypes, brokerVars
<1>5. WorkerTypes /\ UNCHANGED workerVars => WorkerTypes'
  BY DEF WorkerTypes, workerVars
<1>6. ReaperTypes /\ UNCHANGED reaperVars => ReaperTypes'
  BY DEF ReaperTypes, reaperVars
<1>7. QED
  BY <1>1, <1>2, <1>3, <1>4, <1>5, <1>6

LEMMA SetStatusType ==
  ASSUME NEW d \in Docs, NEW s \in Status, DocTypes, SetStatus(d, s),
         UNCHANGED <<error, skipped, flagged>>
  PROVE  DocTypes'
BY DEF DocTypes, SetStatus

LEMMA SetFailedType ==
  ASSUME NEW d \in Docs, NEW reason \in {"enqueue", "failed", "timeout"},
         DocTypes, SetFailed(d, reason)
  PROVE  DocTypes'
BY DEF DocTypes, SetFailed, SetStatus, Status

LEMMA PublishType ==
  ASSUME NEW d \in Docs, NEW r \in 0..MaxRetries, BrokerTypes, Publish(d, r),
         UNCHANGED upload
  PROVE  BrokerTypes'
BY BoundAssumption DEF BrokerTypes, Publish

LEMMA GotoType ==
  ASSUME NEW w \in Workers, NEW label \in PCs, WorkerTypes, task[w] \in Docs,
         Goto(w, label)
  PROVE  WorkerTypes'
BY DEF WorkerTypes, Goto

LEMMA VanishType ==
  ASSUME NEW w \in Workers, WorkerTypes, Vanish(w)
  PROVE  WorkerTypes'
BY BoundAssumption DEF WorkerTypes, Vanish, PCs, Stages, Status

LEMMA NextStageType ==
  ASSUME NEW w \in Workers, WorkerTypes, task[w] \in Docs, NextStage(w)
  PROVE  WorkerTypes'
BY DEF WorkerTypes, NextStage, PCs, Stages

LEMMA CompleteJobType ==
  ASSUME NEW w \in Workers, WorkerTypes, JobTypes, CompleteJob(w)
  PROVE  JobTypes'
BY DEF WorkerTypes, JobTypes, CompleteJob, Stages

LEMMA AbandonJobType ==
  ASSUME NEW w \in Workers, WorkerTypes, JobTypes, AbandonJob(w)
  PROVE  JobTypes'
BY DEF WorkerTypes, JobTypes, AbandonJob

LEMMA AddQuestionsType ==
  ASSUME NEW d \in Docs, NEW q \in Nat, NEW a \in Nat, RowTypes,
         AddQuestions(d, q, a)
  PROVE  RowTypes'
BY DEF RowTypes, AddQuestions

LEMMA LoseType ==
  ASSUME ReaperTypes, Lose
  PROVE  ReaperTypes'
BY DEF ReaperTypes, Lose

(* The upload request, the clock and the reaper. *)
LEMMA OutsideType ==
  ASSUME TypeOK, NEW d \in Docs,
         \/ CommitDocument(d) \/ Enqueue(d) \/ EnqueueUnconfirmed(d)
         \/ EnqueueFails(d) \/ ApiCrash(d)
         \/ Age(d) \/ ReaperQuery \/ ReaperCommit \/ ReaperFails
  PROVE  TypeOK'
<1> USE Unchanged DEF TypeOK
<1>1. CASE CommitDocument(d)
  <2>1. DocTypes'
    BY <1>1, SetStatusType DEF CommitDocument, Status
  <2>2. BrokerTypes'
    BY <1>1 DEF CommitDocument, BrokerTypes
  <2>3. QED
    BY <1>1, <2>1, <2>2 DEF CommitDocument
<1>2. CASE Enqueue(d)
  <2>1. BrokerTypes'
    BY <1>2, BoundAssumption DEF Enqueue, Publish, BrokerTypes
  <2>2. QED
    BY <1>2, <2>1 DEF Enqueue
<1>3. CASE EnqueueFails(d)
  <2>1. DocTypes'
    BY <1>3, SetFailedType DEF EnqueueFails
  <2>2. BrokerTypes'
    BY <1>3 DEF EnqueueFails, BrokerTypes
  <2>3. QED
    BY <1>3, <2>1, <2>2 DEF EnqueueFails
<1>4. CASE ApiCrash(d)
  <2>1. BrokerTypes'
    BY <1>4 DEF ApiCrash, BrokerTypes
  <2>2. QED
    BY <1>4, <2>1, LoseType DEF ApiCrash
<1>5. CASE Age(d)
  <2>1. DocTypes'
    BY <1>5 DEF Age, DocTypes
  <2>2. QED
    BY <1>5, <2>1 DEF Age
<1>6. CASE ReaperQuery
  <2>1. ReaperTypes'
    BY <1>6 DEF ReaperQuery, StaleDocs, ReaperTypes
  <2>2. QED
    BY <1>6, <2>1 DEF ReaperQuery
<1>7. CASE ReaperCommit
  <2>1. DocTypes'
    BY <1>7 DEF ReaperCommit, DocTypes, Status
  <2>2. ReaperTypes'
    BY <1>7 DEF ReaperCommit, ReaperTypes
  <2>3. QED
    BY <1>7, <2>1, <2>2 DEF ReaperCommit
<1>8. CASE ReaperFails
  <2>1. ReaperTypes'
    BY <1>8 DEF ReaperFails, ReaperTypes
  <2>2. QED
    BY <1>8, <2>1 DEF ReaperFails
<1>9. CASE EnqueueUnconfirmed(d)
  <2>1. BrokerTypes'
    BY <1>9, BoundAssumption DEF EnqueueUnconfirmed, Publish, BrokerTypes
  <2>2. QED
    BY <1>9, <2>1, LoseType DEF EnqueueUnconfirmed
<1>10. QED
  BY <1>1, <1>2, <1>3, <1>4, <1>5, <1>6, <1>7, <1>8, <1>9

(* An execution that goes on. *)
LEMMA ProgressType ==
  ASSUME TypeOK, NEW w \in Workers, Progress(w)
  PROVE  TypeOK'
<1> USE Unchanged DEF TypeOK
<1>0. task[w] \in Docs
  BY DEF WorkerTypes, Progress, Start, CreateJob, ValidationDone, PlainStageDone,
         ExtractionDone, ExtractionClash, FinalRead, FinalCommit, FinalDone, MarkFailed,
         MarkTimedOut, PublishRetry, GiveUp, Ack
<1>1. CASE Start(w)
  <2>1. DocTypes'
    BY <1>0, <1>1, SetStatusType DEF Start, Status
  <2>2. WorkerTypes'
    BY <1>0, <1>1, GotoType DEF Start, PCs
  <2>3. QED
    BY <1>1, <2>1, <2>2 DEF Start
<1>2. CASE CreateJob(w)
  <2>1. WorkerTypes'
    BY <1>0, <1>2 DEF CreateJob, WorkerTypes, DocTypes, PCs
  <2>2. QED
    BY <1>2, <2>1 DEF CreateJob
<1>3. CASE ValidationDone(w)
  <2>1. DocTypes'
    BY <1>0, <1>3 DEF ValidationDone, WriteValidation, DocTypes, Status
  <2>2. QED
    BY <1>0, <1>3, <2>1, CompleteJobType, NextStageType DEF ValidationDone
<1>4. CASE PlainStageDone(w)
  BY <1>0, <1>4, CompleteJobType, NextStageType DEF PlainStageDone
<1>5. CASE ExtractionDone(w)
  <2>1. RowTypes'
    <3>1. pages[task[w]] + NumPages[task[w]] \in Nat
      BY <1>0, SizeAssumption DEF RowTypes
    <3>2. QED
      BY <1>5, <3>1 DEF ExtractionDone, RowTypes
  <2>2. QED
    BY <1>0, <1>5, <2>1, CompleteJobType, NextStageType DEF ExtractionDone
<1>6. CASE ExtractionClash(w)
  BY <1>0, <1>6, GotoType, AbandonJobType DEF ExtractionClash, SessionLost, PCs
<1>7. CASE FinalRead(w)
  <2>1. WorkerTypes'
    BY <1>0, <1>7 DEF FinalRead, WorkerTypes, DocTypes, PCs
  <2>2. QED
    BY <1>7, <2>1 DEF FinalRead
<1>8. CASE FinalCommit(w)
  <2>1. DocTypes'
    BY <1>0, <1>8 DEF FinalCommit, WriteOutcome, DocTypes, Status
  <2>2. RowTypes'
    BY <1>0, <1>8, AddQuestionsType, SizeAssumption DEF FinalCommit
  <2>3. QED
    BY <1>0, <1>8, <2>1, <2>2, CompleteJobType, NextStageType DEF FinalCommit
<1>9. CASE MarkFailed(w)
  BY <1>0, <1>9, SetFailedType, GotoType DEF MarkFailed, PCs
<1>10. CASE MarkTimedOut(w)
  BY <1>0, <1>10, SetFailedType, GotoType DEF MarkTimedOut, PCs
<1>11. CASE PublishRetry(w)
  <2>1. retries[w] + 1 \in 0..MaxRetries
    BY <1>11, BoundAssumption DEF PublishRetry, WorkerTypes
  <2>2. BrokerTypes'
    BY <1>0, <1>11, <2>1, PublishType DEF PublishRetry
  <2>3. QED
    BY <1>0, <1>11, <2>2, GotoType DEF PublishRetry, PCs
<1>12. CASE GiveUp(w)
  BY <1>0, <1>12, GotoType DEF GiveUp, PCs
<1>13. CASE Ack(w)
  BY <1>13, VanishType DEF Ack
<1>14. CASE FinalDone(w)
  BY <1>0, <1>14, GotoType DEF FinalDone, PCs
<1>15. QED
  BY <1>1, <1>2, <1>3, <1>4, <1>5, <1>6, <1>7, <1>8, <1>9, <1>10, <1>11, <1>12,
     <1>13, <1>14 DEF Progress

(* An execution that fails. *)
LEMMA FaultType ==
  ASSUME TypeOK, NEW w \in Workers, Fault(w)
  PROVE  TypeOK'
<1> USE Unchanged DEF TypeOK
<1>0. task[w] \in Docs
  BY DEF WorkerTypes, Fault, StageRaises, DbError, SoftLimitUnloaded, SoftLimitLoaded,
     SoftLimitCommitted, SoftLimitHandler, SoftLimitBetween,
         SoftLimitValidation, SoftLimitPlain, SoftLimitExtraction,
         SoftLimitConfidence, SoftLimitFinal, RetryUnconfirmed, HardLimit,
         WorkerCrash
<1>1. CASE StageRaises(w)
  BY <1>0, <1>1, GotoType DEF StageRaises, PCs
<1>2. CASE DbError(w)
  BY <1>0, <1>2, GotoType, AbandonJobType, LoseType DEF DbError, SessionLost, PCs
<1>3. CASE SoftLimitBetween(w)
  <2>1. JobTypes'
    BY <1>0, <1>3 DEF SoftLimitBetween, JobTypes, WorkerTypes
  <2>2. QED
    BY <1>0, <1>3, <2>1, GotoType DEF SoftLimitBetween, PCs
<1>4. CASE SoftLimitValidation(w)
  <2>1. DocTypes'
    <3>1. CASE UNCHANGED docVars
      BY <3>1
    <3>2. CASE WriteValidation(w) /\ UNCHANGED error
               /\ \E item \in {FALSE, task[w] \in Oversized} :
                    flagged' = [flagged EXCEPT ![task[w]] = @ \/ item]
      BY <1>0, <3>2 DEF WriteValidation, DocTypes, Status
    <3>3. QED
      BY <1>4, <3>1, <3>2 DEF SoftLimitValidation
  <2>2. QED
    BY <1>0, <1>4, <2>1, GotoType DEF SoftLimitValidation, PCs
<1>5. CASE SoftLimitPlain(w)
  BY <1>0, <1>5, GotoType DEF SoftLimitPlain, PCs
<1>6. CASE SoftLimitExtraction(w)
  <2>1. PICK k \in 0..NumPages[task[w]] :
          \/ SessionLost(w) /\ UNCHANGED reaperVars
          \/ /\ pages' = [pages EXCEPT ![task[w]] = @ + k]
             /\ Goto(w, "timeout")
             /\ UNCHANGED <<asked, answered, docVars, jobVars, brokerVars, reaperVars>>
    BY <1>6 DEF SoftLimitExtraction
  <2>2. CASE SessionLost(w) /\ UNCHANGED reaperVars
    BY <1>0, <2>2, GotoType, AbandonJobType DEF SessionLost, PCs
  <2>3. CASE ~(SessionLost(w) /\ UNCHANGED reaperVars)
    <3>1. RowTypes'
      BY <1>0, <2>1, <2>3, SizeAssumption DEF RowTypes
    <3>2. QED
      BY <1>0, <2>1, <2>3, <3>1, GotoType DEF PCs
  <2>4. QED
    BY <2>2, <2>3
<1>7. CASE SoftLimitConfidence(w)
  <2>1. NumQuestions[task[w]] \in Nat
    BY <1>0, SizeAssumption
  <2>2. RowTypes'
    BY <1>0, <1>7, <2>1, AddQuestionsType DEF SoftLimitConfidence
  <2>3. QED
    BY <1>0, <1>7, <2>2, GotoType DEF SoftLimitConfidence, PCs
<1>8. CASE SoftLimitFinal(w)
  <2>1. DocTypes'
    BY <1>0, <1>8 DEF SoftLimitFinal, WriteOutcome, DocTypes, Status
  <2>2. RowTypes'
    BY <1>0, <1>8, AddQuestionsType, SizeAssumption DEF SoftLimitFinal
  <2>3. QED
    BY <1>0, <1>8, <2>1, <2>2, GotoType DEF SoftLimitFinal, PCs
<1>9. CASE HardLimit(w)
  BY <1>9, AbandonJobType, VanishType, LoseType DEF HardLimit
<1>10. CASE WorkerCrash(w)
  <2>1. BrokerTypes'
    BY <1>0, <1>10, PublishType DEF WorkerCrash, WorkerTypes
  <2>2. QED
    BY <1>10, <2>1, AbandonJobType, VanishType, LoseType DEF WorkerCrash
<1>11. CASE RetryUnconfirmed(w)
  <2>1. retries[w] + 1 \in 0..MaxRetries
    BY <1>11, BoundAssumption DEF RetryUnconfirmed, WorkerTypes
  <2>2. BrokerTypes'
    BY <1>0, <1>11, <2>1, PublishType DEF RetryUnconfirmed
  <2>3. QED
    BY <1>11, <2>2, LoseType DEF RetryUnconfirmed
<1>12. CASE SoftLimitUnloaded(w)
  <2>1. ReaperTypes'
    BY <1>0, <1>12 DEF SoftLimitUnloaded, ReaperTypes
  <2>2. QED
    BY <1>0, <1>12, <2>1, GotoType DEF SoftLimitUnloaded, PCs
<1>13. CASE SoftLimitLoaded(w)
  BY <1>0, <1>13, GotoType DEF SoftLimitLoaded, PCs
<1>14. CASE SoftLimitCommitted(w)
  <2>1. JobTypes'
    BY <1>0, <1>14 DEF SoftLimitCommitted, JobTypes
  <2>2. QED
    BY <1>0, <1>14, <2>1, GotoType DEF SoftLimitCommitted, PCs
<1>15. CASE SoftLimitHandler(w)
  BY <1>0, <1>15, GotoType, LoseType DEF SoftLimitHandler, PCs
<1>16. QED
  BY <1>1, <1>2, <1>3, <1>4, <1>5, <1>6, <1>7, <1>8, <1>9, <1>10, <1>11, <1>12,
     <1>13, <1>14, <1>15 DEF Fault

LEMMA DeliverType ==
  ASSUME TypeOK, NEW w \in Workers, NEW d \in Docs, NEW r \in 0..MaxRetries,
         Deliver(w, d, r)
  PROVE  TypeOK'
<1> USE Unchanged DEF TypeOK
<1>1. BrokerTypes'
  <2>1. queue[d][r] - 1 \in Nat
    <3>1. queue[d] \in [0..MaxRetries -> Nat]
      BY DEF BrokerTypes
    <3>2. queue[d][r] \in Nat
      BY <3>1
    <3>3. queue[d][r] > 0
      BY DEF Deliver
    <3>4. QED
      BY <3>2, <3>3
  <2>2. queue' = [queue EXCEPT ![d] = [queue[d] EXCEPT ![r] = queue[d][r] - 1]]
    BY DEF Deliver
  <2>3. [queue[d] EXCEPT ![r] = queue[d][r] - 1] \in [0..MaxRetries -> Nat]
    BY <2>1 DEF BrokerTypes
  <2>4. UNCHANGED upload
    BY DEF Deliver
  <2>5. QED
    BY <2>2, <2>3, <2>4 DEF BrokerTypes
<1>2. WorkerTypes'
  BY DEF Deliver, WorkerTypes, PCs
<1>3. QED
  BY <1>1, <1>2 DEF Deliver

LEMMA TypeStep == TypeOK /\ [Next]_vars => TypeOK'
<1> SUFFICES ASSUME TypeOK, [Next]_vars PROVE TypeOK'
  OBVIOUS
<1>1. ASSUME NEW d \in Docs,
             \/ CommitDocument(d) \/ Enqueue(d) \/ EnqueueUnconfirmed(d)
             \/ EnqueueFails(d) \/ ApiCrash(d) \/ Age(d)
      PROVE  TypeOK'
  BY <1>1, OutsideType
<1>2. CASE Receive
  BY <1>2, DeliverType DEF Receive
<1>3. ASSUME NEW w \in Workers, Progress(w) \/ Fault(w)
      PROVE  TypeOK'
  BY <1>3, ProgressType, FaultType
<1>4. CASE ReaperQuery
  <2>1. PICK d \in Docs : TRUE
    BY <1>4 DEF ReaperQuery, StaleDocs
  <2>2. QED
    BY <1>4, OutsideType
<1>5. CASE ReaperCommit
  <2>1. PICK d \in Docs : TRUE
    BY <1>5 DEF ReaperCommit, TypeOK, ReaperTypes
  <2>2. QED
    BY <1>5, OutsideType
<1>6. CASE ReaperFails
  <2>1. PICK d \in Docs : TRUE
    BY <1>6 DEF ReaperFails, TypeOK, ReaperTypes
  <2>2. QED
    BY <1>6, OutsideType
<1>7. CASE UNCHANGED vars
  BY <1>7, Unchanged DEF vars, TypeOK
<1>8. QED
  BY <1>1, <1>2, <1>3, <1>4, <1>5, <1>6, <1>7 DEF Next

(* The type invariant, for every value of the constants: a retry carries   *)
(* at most MaxRetries, no execution leaves the six stages, and whatever is *)
(* under way has a document.                                               *)
THEOREM TypeCorrect == Spec => []TypeOK
<1>1. Init => TypeOK
  BY BoundAssumption DEF Init, TypeOK, DocTypes, RowTypes, JobTypes, BrokerTypes,
     WorkerTypes, ReaperTypes, Status, Stages, PCs
<1>2. QED
  BY <1>1, TypeStep, PTL DEF Spec

-----------------------------------------------------------------------------
(* Extraction.  Most steps write no rows, complete no document, take back  *)
(* no job but the last one, and let no execution pass stage 3: they keep   *)
(* the invariant.                                                          *)

LEMMA RowsKept ==
  ASSUME TypeOK, ExtractionInv, UNCHANGED rowVars,
         \A d \in Docs : /\ status'[d] = "COMPLETED" => status[d] = "COMPLETED"
                         /\ done[d] \ {6} \subseteq done'[d],
         \A w \in Workers :
           /\ pc'[w] \in {"idle", "start"} => stage'[w] = 1
           /\ pc'[w] = "final" => stage'[w] = 6
           /\ Working(w)' => 1..(stage'[w] - 1) \subseteq done'[task'[w]]
           /\ PastPages(w)' => PastPages(w) /\ task'[w] = task[w]
  PROVE  ExtractionInv'
<1> USE DEF ExtractionInv, rowVars
<1>1. ExtractedOnce'
  BY DEF ExtractedOnce
<1>2. CompletedIsWhole'
  BY DEF CompletedIsWhole
<1>3. StageOrder'
  BY DEF StageOrder
<1>4. (\A d \in Docs : asked[d] > 0 => pages[d] = NumPages[d])'
  OBVIOUS
<1>5. (\A w \in Workers : PastPages(w) =>
         pages[task[w]] = NumPages[task[w]] /\ asked[task[w]] = 0)'
  OBVIOUS
<1>6. (\A v, w \in Workers :
         v # w /\ PastPages(v) /\ PastPages(w) /\ task[v] = task[w]
           => NumPages[task[v]] = 0)'
  OBVIOUS
<1>7. QED
  BY <1>1, <1>2, <1>3, <1>4, <1>5, <1>6

(* The step touches the control of one execution only. *)
OnlyMoves(w) ==
  \A v \in Workers \ {w} :
    pc'[v] = pc[v] /\ task'[v] = task[v] /\ stage'[v] = stage[v]

LEMMA GotoMoves ==
  ASSUME TypeOK, NEW w \in Workers, NEW label \in PCs, Goto(w, label)
  PROVE  /\ OnlyMoves(w)
         /\ pc'[w] = label /\ task'[w] = task[w] /\ stage'[w] = stage[w]
BY DEF TypeOK, WorkerTypes, Goto, OnlyMoves

LEMMA VanishMoves ==
  ASSUME TypeOK, NEW w \in Workers, Vanish(w)
  PROVE  OnlyMoves(w) /\ pc'[w] = "idle" /\ stage'[w] = 1
BY DEF TypeOK, WorkerTypes, Vanish, OnlyMoves

LEMMA NextStageMoves ==
  ASSUME TypeOK, NEW w \in Workers, NextStage(w)
  PROVE  /\ OnlyMoves(w) /\ task'[w] = task[w]
         /\ stage[w] = 6 => pc'[w] = "committed"
         /\ stage[w] # 6 => pc'[w] = "create" /\ stage'[w] = stage[w] + 1
BY DEF TypeOK, WorkerTypes, NextStage, OnlyMoves, Stages

LEMMA CompleteJobGrows ==
  ASSUME TypeOK, NEW w \in Workers, task[w] \in Docs, CompleteJob(w)
  PROVE  /\ \A d \in Docs : done[d] \subseteq done'[d]
         /\ done'[task[w]] = done[task[w]] \cup {stage[w]}
BY DEF TypeOK, JobTypes, CompleteJob

(* Steps of one execution that write no rows. *)
LEMMA MoveKept ==
  ASSUME TypeOK, ExtractionInv, UNCHANGED rowVars,
         \A d \in Docs : /\ status'[d] = "COMPLETED" => status[d] = "COMPLETED"
                         /\ done[d] \ {6} \subseteq done'[d],
         NEW w \in Workers, OnlyMoves(w),
         pc'[w] \in {"idle", "start"} => stage'[w] = 1,
         pc'[w] = "final" => stage'[w] = 6,
         Working(w)' => 1..(stage'[w] - 1) \subseteq done'[task'[w]],
         PastPages(w)' => PastPages(w) /\ task'[w] = task[w]
  PROVE  ExtractionInv'
<1>1. ASSUME NEW v \in Workers, v # w
      PROVE  /\ pc'[v] \in {"idle", "start"} => stage'[v] = 1
             /\ pc'[v] = "final" => stage'[v] = 6
             /\ Working(v)' => 1..(stage'[v] - 1) \subseteq done'[task'[v]]
             /\ PastPages(v)' => PastPages(v) /\ task'[v] = task[v]
  <2>1. pc'[v] = pc[v] /\ task'[v] = task[v] /\ stage'[v] = stage[v]
    BY <1>1 DEF OnlyMoves
  <2>2. Working(v)' => 1..(stage'[v] - 1) \subseteq done'[task'[v]]
    <3>1. Working(v) => task[v] \in Docs
      BY DEF Working, TypeOK, WorkerTypes
    <3>2. 6 \notin 1..(stage[v] - 1)
      BY DEF TypeOK, WorkerTypes, Stages
    <3>3. QED
      BY <2>1, <3>1, <3>2 DEF Working, ExtractionInv, StageOrder
  <2>3. QED
    BY <2>1, <2>2 DEF Working, PastPages, ExtractionInv, StageOrder
<1>2. QED
  BY <1>1, RowsKept


(* Nothing outside the executions can break it. *)
LEMMA OutsideKept ==
  ASSUME TypeOK, ExtractionInv, UNCHANGED <<rowVars, jobVars, workerVars>>,
         \A d \in Docs : status'[d] = "COMPLETED" => status[d] = "COMPLETED"
  PROVE  ExtractionInv'
<1>1. UNCHANGED rowVars /\ done' = done
  BY DEF jobVars
<1>2. pc' = pc /\ task' = task /\ stage' = stage
  BY DEF workerVars
<1>3. ASSUME NEW w \in Workers
      PROVE  /\ pc'[w] \in {"idle", "start"} => stage'[w] = 1
             /\ pc'[w] = "final" => stage'[w] = 6
             /\ Working(w)' => 1..(stage'[w] - 1) \subseteq done'[task'[w]]
             /\ PastPages(w)' => PastPages(w) /\ task'[w] = task[w]
  BY <1>1, <1>2 DEF ExtractionInv, StageOrder, Working, PastPages
<1>4. QED
  BY <1>1, <1>3, RowsKept

LEMMA OutsideSafe ==
  ASSUME TypeOK, ExtractionInv, NEW d \in Docs,
         \/ CommitDocument(d) \/ Enqueue(d) \/ EnqueueUnconfirmed(d)
         \/ EnqueueFails(d) \/ ApiCrash(d)
         \/ Age(d) \/ ReaperQuery \/ ReaperCommit \/ ReaperFails
  PROVE  ExtractionInv'
<1>1. UNCHANGED <<rowVars, jobVars, workerVars>>
  BY DEF CommitDocument, Enqueue, EnqueueUnconfirmed, EnqueueFails, ApiCrash,
         Age, ReaperQuery, ReaperCommit, ReaperFails
<1>2. ASSUME NEW e \in Docs, status'[e] = "COMPLETED"
      PROVE  status[e] = "COMPLETED"
  <2>1. CASE CommitDocument(d) \/ EnqueueFails(d)
    BY <1>2, <2>1 DEF CommitDocument, EnqueueFails, SetFailed, SetStatus, TypeOK, DocTypes
  <2>2. CASE ReaperCommit
    BY <1>2, <2>2 DEF ReaperCommit
  <2>3. CASE UNCHANGED status
    BY <1>2, <2>3
  <2>4. QED
    BY <2>1, <2>2, <2>3
       DEF Enqueue, EnqueueUnconfirmed, ApiCrash, Age, ReaperQuery, ReaperFails, docVars
<1>3. QED
  BY <1>1, <1>2, OutsideKept

LEMMA DeliverSafe ==
  ASSUME TypeOK, ExtractionInv, NEW w \in Workers, NEW d \in Docs,
         NEW r \in 0..MaxRetries, Deliver(w, d, r)
  PROVE  ExtractionInv'
<1>1. OnlyMoves(w) /\ pc'[w] = "start" /\ stage'[w] = stage[w] /\ stage[w] = 1
  BY DEF Deliver, OnlyMoves, TypeOK, WorkerTypes, ExtractionInv, StageOrder
<1>2. UNCHANGED rowVars /\ status' = status /\ done' = done
  BY DEF Deliver, docVars, jobVars
<1>3. ~Working(w)' /\ ~PastPages(w)'
  BY <1>1 DEF Working, PastPages
<1>4. QED
  BY <1>1, <1>2, <1>3, MoveKept

(* An execution leaves its stages without having written rows. *)
LEMMA LeaveKept ==
  ASSUME TypeOK, ExtractionInv, UNCHANGED rowVars,
         \A d \in Docs : /\ status'[d] = "COMPLETED" => status[d] = "COMPLETED"
                         /\ done[d] \ {6} \subseteq done'[d],
         NEW w \in Workers, OnlyMoves(w),
         pc'[w] = "idle" => stage'[w] = 1,
         pc'[w] \in {"idle", "handler", "timeout", "retry", "ack"}
  PROVE  ExtractionInv'
<1>1. ~Working(w)' /\ ~PastPages(w)'
  BY DEF Working, PastPages
<1>2. QED
  BY <1>1, MoveKept

LEMMA SessionLostSafe ==
  ASSUME TypeOK, ExtractionInv, NEW w \in Workers, SessionLost(w)
  PROVE  ExtractionInv'
<1>1. OnlyMoves(w) /\ pc'[w] \in {"retry", "ack"}
  BY GotoMoves DEF SessionLost, PCs
<1>2. UNCHANGED rowVars /\ status' = status /\ done' = done
  BY DEF SessionLost, AbandonJob, docVars
<1>3. QED
  BY <1>1, <1>2, LeaveKept

(* A stage that writes no rows is done; the next one begins. *)
LEMMA NextStageKept ==
  ASSUME TypeOK, ExtractionInv, UNCHANGED rowVars,
         \A d \in Docs : status'[d] = "COMPLETED" => status[d] = "COMPLETED",
         NEW w \in Workers, pc[w] = "stage", stage[w] \in {1, 2, 4, 5},
         CompleteJob(w), NextStage(w)
  PROVE  ExtractionInv'
<1>1. task[w] \in Docs
  BY DEF TypeOK, WorkerTypes
<1>2. /\ OnlyMoves(w) /\ task'[w] = task[w]
      /\ pc'[w] = "create" /\ stage'[w] = stage[w] + 1
  BY NextStageMoves
<1>3. /\ \A d \in Docs : done[d] \subseteq done'[d]
      /\ done'[task[w]] = done[task[w]] \cup {stage[w]}
  BY <1>1, CompleteJobGrows
<1>4. 1..(stage[w] - 1) \subseteq done[task[w]]
  BY DEF ExtractionInv, StageOrder, Working
<1>5. 1..(stage'[w] - 1) \subseteq done'[task'[w]]
  <2>1. 1..(stage'[w] - 1) = 1..(stage[w] - 1) \cup {stage[w]}
    BY <1>2
  <2>2. QED
    BY <1>2, <1>3, <1>4, <2>1
<1>6. PastPages(w)' => PastPages(w)
  BY <1>2 DEF PastPages, Working
<1>7. QED
  BY <1>2, <1>3, <1>5, <1>6, MoveKept


-----------------------------------------------------------------------------
(* The steps that write rows.                                              *)

(* k pages are inserted where they do not clash: no execution of the       *)
(* document can be past stage 3, and it has no question.                   *)
LEMMA NoClashMeansFirst ==
  ASSUME TypeOK, ExtractionInv, NEW d \in Docs, NEW k \in 0..NumPages[d],
         ~PagesClash(d, k), k > 0
  PROVE  /\ pages[d] = 0 /\ NumPages[d] > 0 /\ asked[d] = 0
         /\ status[d] # "COMPLETED"
         /\ \A v \in Workers : task[v] = d => ~PastPages(v)
BY SizeAssumption
   DEF PagesClash, TypeOK, RowTypes, ExtractionInv, ExtractedOnce, CompletedIsWhole

LEMMA ExtractionSafe ==
  ASSUME TypeOK, ExtractionInv, NEW w \in Workers, ExtractionDone(w)
  PROVE  ExtractionInv'
<1> DEFINE d == task[w]
           n == NumPages[d]
<1>1. d \in Docs /\ n \in Nat
  BY SizeAssumption DEF TypeOK, WorkerTypes, ExtractionDone
<1>2. pc[w] = "stage" /\ stage[w] = 3 /\ ~PagesClash(d, n)
  BY DEF ExtractionDone
<1>3. /\ OnlyMoves(w) /\ task'[w] = d
      /\ pc'[w] = "create" /\ stage'[w] = 4
  BY <1>2, NextStageMoves DEF ExtractionDone
<1>4. /\ \A e \in Docs : done[e] \subseteq done'[e]
      /\ done'[d] = done[d] \cup {3}
  BY <1>1, <1>2, CompleteJobGrows DEF ExtractionDone
<1>5. UNCHANGED <<asked, answered, status>>
  BY DEF ExtractionDone, docVars
<1>6. pages'[d] = n /\ \A e \in Docs \ {d} : pages'[e] = pages[e]
  <2>1. pages[d] + n = n
    BY <1>1, <1>2 DEF PagesClash, TypeOK, RowTypes, ExtractionInv, ExtractedOnce
  <2>2. QED
    BY <1>1, <2>1 DEF ExtractionDone, TypeOK, RowTypes
<1>7. asked[d] = 0
  <2>1. CASE n > 0
    BY <1>1, <1>2, <2>1, NoClashMeansFirst
  <2>2. CASE n = 0
    BY <1>1, <2>2, SizeAssumption DEF TypeOK, RowTypes, ExtractionInv, ExtractedOnce
  <2>3. QED
    BY <1>1, <2>1, <2>2
<1>8. ASSUME NEW v \in Workers, v # w, PastPages(v), task[v] = d
      PROVE  n = 0
  BY <1>1, <1>2, <1>8, NoClashMeansFirst
<1>9. ExtractedOnce'
  BY <1>1, <1>5, <1>6 DEF ExtractionInv, ExtractedOnce, TypeOK, RowTypes
<1>10. CompletedIsWhole'
  BY <1>1, <1>4, <1>5, <1>6 DEF ExtractionInv, CompletedIsWhole
<1>11. StageOrder'
  <2>1. 1..(stage'[w] - 1) \subseteq done'[task'[w]]
    <3>1. 1..(3 - 1) \subseteq done[d]
      BY <1>2 DEF ExtractionInv, StageOrder, Working
    <3>2. 1..(4 - 1) = 1..(3 - 1) \cup {3}
      OBVIOUS
    <3>3. QED
      BY <1>3, <1>4, <3>1, <3>2
  <2>2. ASSUME NEW v \in Workers, v # w, Working(v)'
        PROVE  1..(stage'[v] - 1) \subseteq done'[task'[v]]
    BY <1>3, <1>4, <2>2
       DEF OnlyMoves, Working, ExtractionInv, StageOrder, TypeOK, WorkerTypes
  <2>3. QED
    BY <1>3, <2>1, <2>2 DEF StageOrder, OnlyMoves, ExtractionInv
<1>12. (\A e \in Docs : asked[e] > 0 => pages[e] = NumPages[e])'
  BY <1>5, <1>6 DEF ExtractionInv
<1>13. (\A v \in Workers : PastPages(v) =>
          pages[task[v]] = NumPages[task[v]] /\ asked[task[v]] = 0)'
  BY <1>3, <1>5, <1>6, <1>7
     DEF OnlyMoves, PastPages, Working, ExtractionInv, TypeOK, WorkerTypes
<1>14. (\A u, v \in Workers :
          u # v /\ PastPages(u) /\ PastPages(v) /\ task[u] = task[v]
            => NumPages[task[u]] = 0)'
  BY <1>3, <1>8 DEF OnlyMoves, PastPages, Working, ExtractionInv
<1>15. QED
  BY <1>9, <1>10, <1>11, <1>12, <1>13, <1>14 DEF ExtractionInv

(* Questions are inserted by an execution that then leaves its stages. *)
LEMMA QuestionsSafe ==
  ASSUME TypeOK, ExtractionInv, NEW w \in Workers, PastPages(w),
         NEW q \in 0..NumQuestions[task[w]], NEW a \in 0..q,
         AddQuestions(task[w], q, a), OnlyMoves(w),
         pc'[w] \in {"committed", "handler", "timeout", "retry", "ack"},
         \A d \in Docs :
           /\ done[d] \subseteq done'[d]
           /\ status'[d] = "COMPLETED" =>
                \/ status[d] = "COMPLETED"
                \/ /\ d = task[w] /\ q = NumQuestions[d] /\ a = q
                   /\ 1..5 \subseteq done'[d]
  PROVE  ExtractionInv'
<1> DEFINE d == task[w]
           n == NumQuestions[d]
<1>1. d \in Docs /\ NumPages[d] \in Nat /\ n \in Nat
  BY SizeAssumption DEF TypeOK, WorkerTypes, PastPages, Working
<1>2. pages[d] = NumPages[d] /\ asked[d] = 0 /\ answered[d] = 0
  BY <1>1 DEF ExtractionInv, ExtractedOnce, TypeOK, RowTypes
<1>3. pages' = pages /\ asked'[d] = q /\ answered'[d] = a
  BY <1>1, <1>2 DEF AddQuestions, TypeOK, RowTypes
<1>4. \A e \in Docs \ {d} : asked'[e] = asked[e] /\ answered'[e] = answered[e]
  BY <1>1 DEF AddQuestions, TypeOK, RowTypes
<1>5. ~Working(w)' /\ ~PastPages(w)'
  BY DEF Working, PastPages
<1>6. ExtractedOnce'
  BY <1>1, <1>3, <1>4 DEF ExtractionInv, ExtractedOnce
<1>7. CompletedIsWhole'
  <2>1. ASSUME NEW e \in Docs \ {d}, status'[e] = "COMPLETED"
        PROVE  /\ pages'[e] = NumPages[e] /\ asked'[e] = NumQuestions[e]
               /\ answered'[e] = NumQuestions[e] /\ 1..5 \subseteq done'[e]
    BY <1>3, <1>4, <2>1 DEF ExtractionInv, CompletedIsWhole
  <2>2. ASSUME status'[d] = "COMPLETED"
        PROVE  /\ pages'[d] = NumPages[d] /\ asked'[d] = n
               /\ answered'[d] = n /\ 1..5 \subseteq done'[d]
    <3>1. CASE status[d] = "COMPLETED"
      BY <1>1, <1>2, <1>3, <3>1 DEF ExtractionInv, CompletedIsWhole
    <3>2. CASE status[d] # "COMPLETED"
      BY <1>1, <1>2, <1>3, <2>2, <3>2
    <3>3. QED
      BY <3>1, <3>2
  <2>3. QED
    BY <2>1, <2>2 DEF CompletedIsWhole
<1>8. StageOrder'
  <2>1. ASSUME NEW v \in Workers, v # w, Working(v)'
        PROVE  1..(stage'[v] - 1) \subseteq done'[task'[v]]
    BY <2>1 DEF OnlyMoves, Working, ExtractionInv, StageOrder, TypeOK, WorkerTypes
  <2>2. QED
    BY <1>5, <2>1 DEF StageOrder, OnlyMoves, ExtractionInv
<1>9. (\A e \in Docs : asked[e] > 0 => pages[e] = NumPages[e])'
  BY <1>2, <1>3, <1>4 DEF ExtractionInv
<1>10. (\A v \in Workers : PastPages(v) =>
          pages[task[v]] = NumPages[task[v]] /\ asked[task[v]] = 0)'
  <2>1. ASSUME NEW v \in Workers, PastPages(v)'
        PROVE  pages'[task'[v]] = NumPages[task'[v]] /\ asked'[task'[v]] = 0
    <3>1. v # w /\ task'[v] = task[v] /\ PastPages(v) /\ task[v] \in Docs
      BY <1>5, <2>1 DEF OnlyMoves, PastPages, Working, TypeOK, WorkerTypes
    <3>2. CASE task[v] = d
      <4>1. NumPages[d] = 0
        BY <3>1, <3>2 DEF ExtractionInv
      <4>2. q = 0
        BY <1>1, <4>1, SizeAssumption
      <4>3. QED
        BY <1>2, <1>3, <3>1, <3>2, <4>2
    <3>3. CASE task[v] # d
      BY <1>3, <1>4, <3>1, <3>3 DEF ExtractionInv
    <3>4. QED
      BY <3>2, <3>3
  <2>2. QED
    BY <2>1
<1>11. (\A u, v \in Workers :
          u # v /\ PastPages(u) /\ PastPages(v) /\ task[u] = task[v]
            => NumPages[task[u]] = 0)'
  BY <1>5 DEF OnlyMoves, PastPages, Working, ExtractionInv
<1>12. QED
  BY <1>6, <1>7, <1>8, <1>9, <1>10, <1>11 DEF ExtractionInv


LEMMA ProgressSafe ==
  ASSUME TypeOK, ExtractionInv, NEW w \in Workers, Progress(w)
  PROVE  ExtractionInv'
<1>1. CASE Start(w)
  <2>1. OnlyMoves(w) /\ pc'[w] = "create" /\ stage'[w] = 1
    BY <1>1, GotoMoves DEF Start, PCs, ExtractionInv, StageOrder
  <2>2. UNCHANGED rowVars /\ done' = done
    BY <1>1 DEF Start, jobVars
  <2>3. \A d \in Docs : status'[d] = "COMPLETED" => status[d] = "COMPLETED"
    BY <1>1 DEF Start, SetStatus, TypeOK, DocTypes
  <2>4. ~PastPages(w)' /\ 1..(stage'[w] - 1) \subseteq done'[task'[w]]
    BY <2>1 DEF PastPages
  <2>5. QED
    BY <2>1, <2>2, <2>3, <2>4, MoveKept
<1>2. CASE CreateJob(w)
  <2>1. /\ OnlyMoves(w) /\ pc[w] = "create" /\ pc'[w] = "stage"
        /\ stage'[w] = stage[w] /\ task'[w] = task[w]
    BY <1>2 DEF CreateJob, OnlyMoves, TypeOK, WorkerTypes
  <2>2. UNCHANGED rowVars /\ done' = done /\ status' = status
    BY <1>2 DEF CreateJob, jobVars, docVars
  <2>3. /\ PastPages(w)' => PastPages(w)
        /\ 1..(stage'[w] - 1) \subseteq done'[task'[w]]
    BY <2>1, <2>2 DEF PastPages, Working, ExtractionInv, StageOrder
  <2>4. QED
    BY <2>1, <2>2, <2>3, MoveKept
<1>3. CASE ValidationDone(w)
  <2>1. UNCHANGED rowVars
    BY <1>3 DEF ValidationDone
  <2>2. \A d \in Docs : status'[d] = "COMPLETED" => status[d] = "COMPLETED"
    BY <1>3 DEF ValidationDone, WriteValidation, TypeOK, DocTypes
  <2>3. QED
    BY <1>3, <2>1, <2>2, NextStageKept DEF ValidationDone
<1>4. CASE PlainStageDone(w)
  <2>1. UNCHANGED rowVars /\ status' = status
    BY <1>4 DEF PlainStageDone, docVars
  <2>2. QED
    BY <1>4, <2>1, NextStageKept DEF PlainStageDone
<1>5. CASE ExtractionDone(w)
  BY <1>5, ExtractionSafe
<1>6. CASE ExtractionClash(w)
  BY <1>6, SessionLostSafe DEF ExtractionClash
<1>7. CASE FinalRead(w)
  <2>1. /\ OnlyMoves(w) /\ pc[w] = "stage" /\ pc'[w] = "final"
        /\ stage'[w] = stage[w] /\ stage[w] = 6 /\ task'[w] = task[w]
    BY <1>7 DEF FinalRead, OnlyMoves, TypeOK, WorkerTypes
  <2>2. UNCHANGED rowVars /\ done' = done /\ status' = status
    BY <1>7 DEF FinalRead, jobVars, docVars
  <2>3. /\ PastPages(w)' => PastPages(w)
        /\ 1..(stage'[w] - 1) \subseteq done'[task'[w]]
    BY <2>1, <2>2 DEF PastPages, Working, ExtractionInv, StageOrder
  <2>4. QED
    BY <2>1, <2>2, <2>3, MoveKept
<1>8. CASE FinalCommit(w)
  <2>1. task[w] \in Docs /\ stage[w] = 6 /\ Working(w) /\ PastPages(w)
    BY <1>8 DEF FinalCommit, FinalDone, TypeOK, WorkerTypes, ExtractionInv, StageOrder,
                Working, PastPages
  <2>2. OnlyMoves(w) /\ pc'[w] = "committed"
    BY <1>8, <2>1, NextStageMoves DEF FinalCommit
  <2>3. \A d \in Docs : done[d] \subseteq done'[d]
    BY <1>8, <2>1, CompleteJobGrows DEF FinalCommit
  <2>4. 1..5 \subseteq done'[task[w]]
    <3>1. 1..(6 - 1) \subseteq done[task[w]]
      BY <2>1 DEF ExtractionInv, StageOrder
    <3>2. QED
      BY <2>1, <2>3, <3>1
  <2>5. \A d \in Docs : status'[d] = "COMPLETED" => status[d] = "COMPLETED" \/ d = task[w]
    BY <1>8 DEF FinalCommit, WriteOutcome, TypeOK, DocTypes
  <2>6. NumQuestions[task[w]] \in 0..NumQuestions[task[w]]
    BY <2>1, SizeAssumption
  <2>7. AddQuestions(task[w], NumQuestions[task[w]], NumQuestions[task[w]])
    BY <1>8 DEF FinalCommit
  <2>8. QED
    BY <2>1, <2>2, <2>3, <2>4, <2>5, <2>6, <2>7, QuestionsSafe
<1>9. CASE MarkFailed(w) \/ MarkTimedOut(w)
  <2>1. OnlyMoves(w) /\ pc'[w] \in {"retry", "ack"}
    BY <1>9, GotoMoves DEF MarkFailed, MarkTimedOut, PCs
  <2>2. UNCHANGED rowVars /\ done' = done
    BY <1>9 DEF MarkFailed, MarkTimedOut, jobVars
  <2>3. \A d \in Docs : status'[d] = "COMPLETED" => status[d] = "COMPLETED"
    BY <1>9 DEF MarkFailed, MarkTimedOut, SetFailed, SetStatus, TypeOK, DocTypes
  <2>4. QED
    BY <2>1, <2>2, <2>3, LeaveKept
<1>10. CASE PublishRetry(w) \/ GiveUp(w)
  <2>1. OnlyMoves(w) /\ pc'[w] = "ack"
    BY <1>10, GotoMoves DEF PublishRetry, GiveUp, PCs
  <2>2. UNCHANGED rowVars /\ done' = done /\ status' = status
    BY <1>10 DEF PublishRetry, GiveUp, jobVars, docVars
  <2>3. QED
    BY <2>1, <2>2, LeaveKept
<1>11. CASE Ack(w)
  <2>1. OnlyMoves(w) /\ pc'[w] = "idle" /\ stage'[w] = 1
    BY <1>11, VanishMoves DEF Ack
  <2>2. UNCHANGED rowVars /\ done' = done /\ status' = status
    BY <1>11 DEF Ack, jobVars, docVars
  <2>3. QED
    BY <2>1, <2>2, LeaveKept
<1>12. CASE FinalDone(w)
  <2>1. OnlyMoves(w) /\ pc'[w] = "ack"
    BY <1>12, GotoMoves DEF FinalDone, PCs
  <2>2. UNCHANGED rowVars /\ done' = done /\ status' = status
    BY <1>12 DEF FinalDone, jobVars, docVars
  <2>3. QED
    BY <2>1, <2>2, LeaveKept
<1>13. QED
  BY <1>1, <1>2, <1>3, <1>4, <1>5, <1>6, <1>7, <1>8, <1>9, <1>10, <1>11, <1>12
     DEF Progress


(* A soft limit lets k pages be inserted and ends the execution. *)
LEMMA PagePrefixSafe ==
  ASSUME TypeOK, ExtractionInv, NEW w \in Workers, pc[w] = "stage",
         NEW k \in 0..NumPages[task[w]], ~PagesClash(task[w], k),
         pages' = [pages EXCEPT ![task[w]] = @ + k], Goto(w, "timeout"),
         UNCHANGED <<asked, answered, docVars, jobVars>>
  PROVE  ExtractionInv'
<1>1. OnlyMoves(w) /\ pc'[w] = "timeout"
  BY GotoMoves DEF PCs
<1>2. done' = done /\ status' = status /\ asked' = asked /\ answered' = answered
  BY DEF docVars, jobVars
<1>3. task[w] \in Docs
  BY DEF TypeOK, WorkerTypes
<1>4. CASE k = 0
  <2>1. pages' = pages
    BY <1>3, <1>4 DEF TypeOK, RowTypes
  <2>2. UNCHANGED rowVars
    BY <1>2, <2>1 DEF rowVars
  <2>3. QED
    BY <1>1, <1>2, <2>2, LeaveKept
<1>5. CASE k > 0
  <2> DEFINE d == task[w]
  <2>1. /\ pages[d] = 0 /\ NumPages[d] > 0 /\ asked[d] = 0
        /\ status[d] # "COMPLETED"
        /\ \A v \in Workers : task[v] = d => ~PastPages(v)
    BY <1>3, <1>5, NoClashMeansFirst
  <2>2. pages'[d] = k /\ \A e \in Docs \ {d} : pages'[e] = pages[e]
    BY <1>3, <2>1 DEF TypeOK, RowTypes
  <2>3. ~Working(w)'
    BY <1>1 DEF Working
  <2>4. ExtractedOnce'
    BY <1>2, <1>3, <2>2, SizeAssumption DEF ExtractionInv, ExtractedOnce
  <2>5. CompletedIsWhole'
    BY <1>2, <2>1, <2>2 DEF ExtractionInv, CompletedIsWhole
  <2>6. StageOrder'
    BY <1>1, <1>2, <2>3 DEF ExtractionInv, StageOrder, OnlyMoves, Working
  <2>7. (\A e \in Docs : asked[e] > 0 => pages[e] = NumPages[e])'
    BY <1>2, <2>1, <2>2 DEF ExtractionInv
  <2>8. ASSUME NEW v \in Workers, PastPages(v)'
        PROVE  PastPages(v) /\ task'[v] = task[v] /\ v # w /\ task[v] \in Docs \ {d}
    BY <1>1, <2>1, <2>3, <2>8
       DEF OnlyMoves, PastPages, Working, TypeOK, WorkerTypes
  <2>9. (\A v \in Workers : PastPages(v) =>
           pages[task[v]] = NumPages[task[v]] /\ asked[task[v]] = 0)'
    BY <1>2, <2>2, <2>8 DEF ExtractionInv
  <2>10. (\A u, v \in Workers :
            u # v /\ PastPages(u) /\ PastPages(v) /\ task[u] = task[v]
              => NumPages[task[u]] = 0)'
    BY <2>8 DEF ExtractionInv
  <2>11. QED
    BY <2>4, <2>5, <2>6, <2>7, <2>9, <2>10 DEF ExtractionInv
<1>6. QED
  BY <1>4, <1>5, SizeAssumption, <1>3


LEMMA FaultSafe ==
  ASSUME TypeOK, ExtractionInv, NEW w \in Workers, Fault(w)
  PROVE  ExtractionInv'
<1>1. CASE StageRaises(w)
  <2>1. OnlyMoves(w) /\ pc'[w] = "handler"
    BY <1>1, GotoMoves DEF StageRaises, PCs
  <2>2. UNCHANGED rowVars /\ done' = done /\ status' = status
    BY <1>1 DEF StageRaises, jobVars, docVars
  <2>3. QED
    BY <2>1, <2>2, LeaveKept
<1>2. CASE DbError(w)
  BY <1>2, SessionLostSafe DEF DbError
<1>3. CASE SoftLimitBetween(w)
  <2>1. OnlyMoves(w) /\ pc'[w] = "timeout"
    BY <1>3, GotoMoves DEF SoftLimitBetween, PCs
  <2>2. UNCHANGED rowVars /\ done' = done /\ status' = status
    BY <1>3 DEF SoftLimitBetween, docVars
  <2>3. QED
    BY <2>1, <2>2, LeaveKept
<1>4. CASE SoftLimitValidation(w)
  <2>1. OnlyMoves(w) /\ pc'[w] = "timeout"
    BY <1>4, GotoMoves DEF SoftLimitValidation, PCs
  <2>2. UNCHANGED rowVars /\ done' = done
    BY <1>4 DEF SoftLimitValidation, jobVars
  <2>3. \A d \in Docs : status'[d] = "COMPLETED" => status[d] = "COMPLETED"
    BY <1>4 DEF SoftLimitValidation, WriteValidation, TypeOK, DocTypes, docVars
  <2>4. QED
    BY <2>1, <2>2, <2>3, LeaveKept
<1>5. CASE SoftLimitPlain(w)
  <2>1. OnlyMoves(w) /\ pc'[w] = "timeout"
    BY <1>5, GotoMoves DEF SoftLimitPlain, PCs
  <2>2. UNCHANGED rowVars /\ done' = done /\ status' = status
    BY <1>5 DEF SoftLimitPlain, jobVars, docVars
  <2>3. QED
    BY <2>1, <2>2, LeaveKept
<1>6. CASE SoftLimitExtraction(w)
  <2>1. PICK k \in 0..NumPages[task[w]] :
          \/ SessionLost(w)
          \/ /\ ~PagesClash(task[w], k)
             /\ pages' = [pages EXCEPT ![task[w]] = @ + k]
             /\ Goto(w, "timeout")
             /\ UNCHANGED <<asked, answered, docVars, jobVars, brokerVars, reaperVars>>
    BY <1>6 DEF SoftLimitExtraction
  <2>2. CASE SessionLost(w)
    BY <2>2, SessionLostSafe
  <2>3. CASE ~SessionLost(w)
    BY <1>6, <2>1, <2>3, PagePrefixSafe DEF SoftLimitExtraction
  <2>4. QED
    BY <2>2, <2>3
<1>7. CASE SoftLimitConfidence(w)
  <2>0. PICK q \in 0..NumQuestions[task[w]] :
          \E a \in 0..q : AddQuestions(task[w], q, a)
    BY <1>7 DEF SoftLimitConfidence
  <2>1. PICK a \in 0..q : AddQuestions(task[w], q, a)
    BY <2>0
  <2>2. OnlyMoves(w) /\ pc'[w] = "timeout"
    BY <1>7, GotoMoves DEF SoftLimitConfidence, PCs
  <2>3. PastPages(w)
    BY <1>7 DEF SoftLimitConfidence, PastPages, Working
  <2>4. done' = done /\ status' = status
    BY <1>7 DEF SoftLimitConfidence, jobVars, docVars
  <2>5. QED
    BY <2>1, <2>2, <2>3, <2>4, QuestionsSafe
<1>8. CASE SoftLimitFinal(w)
  <2>1. task[w] \in Docs /\ stage[w] = 6 /\ Working(w) /\ PastPages(w)
    BY <1>8 DEF SoftLimitFinal, TypeOK, WorkerTypes, ExtractionInv, StageOrder,
                Working, PastPages
  <2>2. OnlyMoves(w) /\ pc'[w] = "timeout"
    BY <1>8, GotoMoves DEF SoftLimitFinal, PCs
  <2>3. done' = done
    BY <1>8 DEF SoftLimitFinal, jobVars
  <2>4. 1..(6 - 1) \subseteq done[task[w]]
    BY <2>1 DEF ExtractionInv, StageOrder
  <2>5. \A d \in Docs : status'[d] = "COMPLETED" => status[d] = "COMPLETED" \/ d = task[w]
    BY <1>8 DEF SoftLimitFinal, WriteOutcome, TypeOK, DocTypes
  <2>6. NumQuestions[task[w]] \in 0..NumQuestions[task[w]]
    BY <2>1, SizeAssumption
  <2>7. AddQuestions(task[w], NumQuestions[task[w]], NumQuestions[task[w]])
    BY <1>8 DEF SoftLimitFinal
  <2>8. 1..5 \subseteq done'[task[w]]
    BY <2>3, <2>4
  <2>9. QED
    BY <2>1, <2>2, <2>3, <2>5, <2>6, <2>7, <2>8, QuestionsSafe
<1>9. CASE HardLimit(w)
  <2>1. OnlyMoves(w) /\ pc'[w] = "idle" /\ stage'[w] = 1
    BY <1>9, VanishMoves DEF HardLimit
  <2>2. UNCHANGED rowVars /\ done' = done /\ status' = status
    BY <1>9 DEF HardLimit, AbandonJob, docVars
  <2>3. QED
    BY <2>1, <2>2, LeaveKept
<1>10. CASE WorkerCrash(w)
  <2>1. OnlyMoves(w) /\ pc'[w] = "idle" /\ stage'[w] = 1
    BY <1>10, VanishMoves DEF WorkerCrash
  <2>2. UNCHANGED rowVars /\ done' = done /\ status' = status
    BY <1>10 DEF WorkerCrash, AbandonJob, docVars
  <2>3. QED
    BY <2>1, <2>2, LeaveKept
<1>11. CASE RetryUnconfirmed(w)
  <2>1. UNCHANGED <<rowVars, jobVars, workerVars>> /\ status' = status
    BY <1>11 DEF RetryUnconfirmed, docVars
  <2>2. QED
    BY <2>1, OutsideKept
<1>12. CASE SoftLimitUnloaded(w) \/ SoftLimitLoaded(w) \/ SoftLimitHandler(w)
  <2>1. OnlyMoves(w) /\ pc'[w] \in {"ack", "timeout", "retry"}
    BY <1>12, GotoMoves DEF SoftLimitUnloaded, SoftLimitLoaded, SoftLimitHandler, PCs
  <2>2. UNCHANGED rowVars /\ done' = done /\ status' = status
    BY <1>12 DEF SoftLimitUnloaded, SoftLimitLoaded, SoftLimitHandler, jobVars, docVars
  <2>3. QED
    BY <2>1, <2>2, LeaveKept
<1>13. CASE SoftLimitCommitted(w)
  <2>1. OnlyMoves(w) /\ pc'[w] = "timeout"
    BY <1>13, GotoMoves DEF SoftLimitCommitted, PCs
  <2>2. UNCHANGED rowVars /\ status' = status
    BY <1>13 DEF SoftLimitCommitted, docVars
  <2>3. \A d \in Docs : done[d] \ {6} \subseteq done'[d]
    BY <1>13 DEF SoftLimitCommitted, TypeOK, JobTypes
  <2>4. QED
    BY <2>1, <2>2, <2>3, LeaveKept
<1>14. QED
  BY <1>1, <1>2, <1>3, <1>4, <1>5, <1>6, <1>7, <1>8, <1>9, <1>10, <1>11, <1>12, <1>13
     DEF Fault

-----------------------------------------------------------------------------
LEMMA ExtractionStep == TypeOK /\ ExtractionInv /\ [Next]_vars => ExtractionInv'
<1> SUFFICES ASSUME TypeOK, ExtractionInv, [Next]_vars PROVE ExtractionInv'
  OBVIOUS
<1>1. ASSUME NEW d \in Docs,
             \/ CommitDocument(d) \/ Enqueue(d) \/ EnqueueUnconfirmed(d)
             \/ EnqueueFails(d) \/ ApiCrash(d) \/ Age(d)
      PROVE  ExtractionInv'
  BY <1>1, OutsideSafe
<1>2. CASE Receive
  BY <1>2, DeliverSafe DEF Receive
<1>3. ASSUME NEW w \in Workers, Progress(w) \/ Fault(w)
      PROVE  ExtractionInv'
  BY <1>3, ProgressSafe, FaultSafe
<1>4. CASE ReaperQuery \/ ReaperCommit \/ ReaperFails
  <2>1. PICK d \in Docs : TRUE
    BY <1>4 DEF ReaperQuery, ReaperCommit, ReaperFails, StaleDocs, TypeOK, ReaperTypes
  <2>2. QED
    BY <1>4, OutsideSafe
<1>5. CASE UNCHANGED vars
  <2>1. UNCHANGED <<rowVars, jobVars, workerVars>> /\ status' = status
    BY <1>5 DEF vars, docVars
  <2>2. QED
    BY <2>1, OutsideKept
<1>6. QED
  BY <1>1, <1>2, <1>3, <1>4, <1>5 DEF Next

(* However many executions of a document run, in whatever order and        *)
(* wherever they are cut short, its rows are those of one extraction.      *)
THEOREM ExtractionSafety == Spec => []ExtractionInv
<1>1. Init => ExtractionInv
  BY SizeAssumption DEF Init, ExtractionInv, ExtractedOnce, CompletedIsWhole,
     StageOrder, PastPages, Working, Stages
<1>2. QED
  BY <1>1, TypeCorrect, ExtractionStep, PTL DEF Spec

(* No page, question or answer of a document is ever stored twice. *)
THEOREM RowsOnce == Spec => []ExtractedOnce
<1>1. ExtractionInv => ExtractedOnce
  BY DEF ExtractionInv
<1>2. QED
  BY <1>1, ExtractionSafety, PTL

(* A document reported COMPLETED has all its rows and its first five jobs. *)
THEOREM CompletedWhole == Spec => []CompletedIsWhole
<1>1. ExtractionInv => CompletedIsWhole
  BY DEF ExtractionInv
<1>2. QED
  BY <1>1, ExtractionSafety, PTL

-----------------------------------------------------------------------------
(* The refinement of DocumentLedger.                                       *)

(* Row writes.  Everything they rely on is in ExtractionInv.               *)

RowsHonest(d) ==
  Ledger!PagesOnce(d) /\ Ledger!QuestionsOnce(d) /\ Ledger!AnswersWithQuestions(d)

LEMMA NoRowsHonest ==
  ASSUME UNCHANGED rowVars, NEW d
  PROVE  RowsHonest(d)
BY DEF RowsHonest, rowVars, Ledger!PagesOnce, Ledger!QuestionsOnce,
       Ledger!AnswersWithQuestions

(* k pages are inserted where the constraint allows it. *)
LEMMA PagesHonest ==
  ASSUME TypeOK, NEW e \in Docs, NEW k \in 0..NumPages[e], ~PagesClash(e, k),
         pages' = [pages EXCEPT ![e] = @ + k], UNCHANGED <<asked, answered>>,
         NEW d \in Docs
  PROVE  RowsHonest(d)
<1>0. pages \in [Docs -> Nat] /\ pages[e] \in Nat /\ NumPages[e] \in Nat
  BY SizeAssumption DEF TypeOK, RowTypes
<1>1. pages \in [Docs -> Nat] /\ pages[e] \in Nat /\ k \in 1..NumPages[e] \cup {0}
  BY <1>0
<1>2. Ledger!PagesOnce(d)
  <2>1. CASE d = e /\ k > 0
    <3>1. pages[e] = 0
      BY <1>1, <2>1 DEF PagesClash
    <3>2. QED
      BY <1>1, <2>1, <3>1 DEF Ledger!PagesOnce
  <2>2. CASE d # e \/ k = 0
    BY <1>1, <2>2 DEF Ledger!PagesOnce
  <2>3. QED
    BY <1>1, <2>1, <2>2
<1>3. QED
  BY <1>2 DEF RowsHonest, Ledger!QuestionsOnce, Ledger!AnswersWithQuestions

(* Stage 6 inserts q questions and a answers. *)
LEMMA QuestionsHonest ==
  ASSUME TypeOK, ExtractionInv, NEW w \in Workers, PastPages(w), task[w] \in Docs,
         NEW q \in 0..NumQuestions[task[w]], NEW a \in 0..q,
         AddQuestions(task[w], q, a), NEW d \in Docs
  PROVE  RowsHonest(d)
<1>1. /\ asked \in [Docs -> Nat] /\ answered \in [Docs -> Nat]
      /\ q \in Nat /\ a \in Nat /\ a <= q
      /\ NumQuestions[task[w]] \in Nat /\ q <= NumQuestions[task[w]]
  BY SizeAssumption DEF TypeOK, RowTypes
<1>2. asked[task[w]] = 0 /\ pages[task[w]] = NumPages[task[w]]
  BY DEF ExtractionInv
<1>3. answered[task[w]] = 0
  BY <1>1, <1>2 DEF ExtractionInv, ExtractedOnce
<1>4. CASE d # task[w]
  BY <1>1, <1>4 DEF AddQuestions, RowsHonest, Ledger!PagesOnce, Ledger!QuestionsOnce,
                    Ledger!AnswersWithQuestions
<1>5. CASE d = task[w]
  <2>1. asked'[d] = q /\ answered'[d] = a /\ pages' = pages
    BY <1>1, <1>2, <1>3, <1>5 DEF AddQuestions
  <2>2. QED
    BY <1>1, <1>2, <1>3, <1>5, <2>1 DEF RowsHonest, Ledger!PagesOnce,
       Ledger!QuestionsOnce, Ledger!AnswersWithQuestions
<1>6. QED
  BY <1>4, <1>5

LEMMA ProgressRows ==
  ASSUME TypeOK, ExtractionInv, NEW w \in Workers, Progress(w), NEW d \in Docs
  PROVE  RowsHonest(d)
<1>1. CASE ExtractionDone(w)
  <2>1. task[w] \in Docs /\ NumPages[task[w]] \in 0..NumPages[task[w]]
    BY <1>1, SizeAssumption DEF ExtractionDone, TypeOK, WorkerTypes
  <2>2. QED
    BY <1>1, <2>1, PagesHonest DEF ExtractionDone
<1>2. CASE FinalCommit(w)
  <2>1. /\ task[w] \in Docs /\ NumQuestions[task[w]] \in 0..NumQuestions[task[w]]
        /\ PastPages(w)
    BY <1>2, SizeAssumption DEF FinalCommit, FinalDone, TypeOK, WorkerTypes, PastPages,
       Working,
                                ExtractionInv, StageOrder
  <2>2. QED
    BY <1>2, <2>1, QuestionsHonest DEF FinalCommit
<1>3. CASE ~ExtractionDone(w) /\ ~FinalCommit(w)
  <2>1. UNCHANGED rowVars
    BY <1>3 DEF Progress, Start, CreateJob, ValidationDone, PlainStageDone,
       ExtractionClash,
                SessionLost, FinalRead, FinalDone, MarkFailed, MarkTimedOut, PublishRetry,
                GiveUp, Ack
  <2>2. QED
    BY <2>1, NoRowsHonest
<1>4. QED
  BY <1>1, <1>2, <1>3

LEMMA FaultRows ==
  ASSUME TypeOK, ExtractionInv, NEW w \in Workers, Fault(w), NEW d \in Docs
  PROVE  RowsHonest(d)
<1>1. CASE SoftLimitExtraction(w)
  <2>1. task[w] \in Docs
    BY <1>1 DEF SoftLimitExtraction, TypeOK, WorkerTypes
  <2>2. PICK k \in 0..NumPages[task[w]] :
          \/ SessionLost(w)
          \/ /\ ~PagesClash(task[w], k)
             /\ pages' = [pages EXCEPT ![task[w]] = @ + k]
             /\ UNCHANGED <<asked, answered>>
    BY <1>1 DEF SoftLimitExtraction
  <2>3. CASE SessionLost(w)
    BY <2>3, NoRowsHonest DEF SessionLost
  <2>4. QED
    BY <2>1, <2>2, <2>3, PagesHonest
<1>2. CASE SoftLimitConfidence(w)
  <2>1. task[w] \in Docs /\ PastPages(w)
    BY <1>2 DEF SoftLimitConfidence, TypeOK, WorkerTypes, PastPages, Working
  <2>2. QED
    BY <1>2, <2>1, QuestionsHonest DEF SoftLimitConfidence
<1>3. CASE SoftLimitFinal(w)
  <2>1. /\ task[w] \in Docs /\ NumQuestions[task[w]] \in 0..NumQuestions[task[w]]
        /\ PastPages(w)
    BY <1>3, SizeAssumption DEF SoftLimitFinal, TypeOK, WorkerTypes, PastPages, Working,
                                ExtractionInv, StageOrder
  <2>2. QED
    BY <1>3, <2>1, QuestionsHonest DEF SoftLimitFinal
<1>4. CASE ~SoftLimitExtraction(w) /\ ~SoftLimitConfidence(w) /\ ~SoftLimitFinal(w)
  <2>1. UNCHANGED rowVars
    BY <1>4 DEF Fault, StageRaises, DbError, SessionLost, SoftLimitUnloaded,
       SoftLimitLoaded,
     SoftLimitCommitted, SoftLimitHandler, SoftLimitBetween,
                SoftLimitValidation, SoftLimitPlain, RetryUnconfirmed, HardLimit,
                WorkerCrash
  <2>2. QED
    BY <2>1, NoRowsHonest
<1>5. QED
  BY <1>1, <1>2, <1>3, <1>4

-----------------------------------------------------------------------------
(* The status.  Whoever may still write it deals with a document that      *)
(* exists, so nobody creates one twice.                                    *)

Created(d) == status[d] # "none"

CreatedInv ==
  /\ \A d \in Docs : Created(d) <=> upload[d] # "none"
  /\ \A d \in Docs, r \in 0..MaxRetries : queue[d][r] > 0 => Created(d)
  /\ \A w \in Workers : pc[w] # "idle" => Created(task[w])
  /\ \A d \in reaping : Created(d)

(* What a step does to the status and to those who may write it. *)
StatusMoves(d) ==
  /\ status'[d] # status[d] => status'[d] \notin {"none", "QUEUED"} /\ Created(d)
  /\ upload'[d] = "none" <=> upload[d] = "none"
  /\ \A r \in 0..MaxRetries : queue'[d][r] > 0 => Created(d)

LEMMA MovesCreated ==
  ASSUME TypeOK, CreatedInv,
         \A d \in Docs : StatusMoves(d),
         \A w \in Workers : pc'[w] # "idle" => task'[w] \in Docs /\ Created(task'[w]),
         reaping' \subseteq Docs, \A d \in reaping' : Created(d)
  PROVE  CreatedInv'
BY DEF CreatedInv, StatusMoves, Created

(* A step of an execution that writes the status of its document at most,  *)
(* publishes its task at most, and keeps its task or lets it go.           *)
LEMMA WorkerMoves ==
  ASSUME TypeOK, CreatedInv, NEW w \in Workers, pc[w] # "idle",
         reaping' = reaping, upload' = upload,
         \A v \in Workers \ {w} : pc'[v] = pc[v] /\ task'[v] = task[v],
         pc'[w] # "idle" => task'[w] = task[w],
         \A d \in Docs : status'[d] # status[d] =>
           d = task[w] /\ status'[d] \notin {"none", "QUEUED"},
         \A d \in Docs : d # task[w] => queue'[d] = queue[d]
  PROVE  CreatedInv' /\ \A d \in Docs : StatusMoves(d)
<1>1. task[w] \in Docs /\ Created(task[w])
  BY DEF TypeOK, WorkerTypes, CreatedInv
<1>2. \A d \in Docs : StatusMoves(d)
  BY <1>1 DEF StatusMoves, CreatedInv
<1>3. \A v \in Workers : pc'[v] # "idle" => task'[v] \in Docs /\ Created(task'[v])
  BY <1>1 DEF TypeOK, WorkerTypes, CreatedInv
<1>4. QED
  BY <1>2, <1>3, MovesCreated DEF TypeOK, ReaperTypes, CreatedInv

LEMMA ProgressMoves ==
  ASSUME TypeOK, CreatedInv, NEW w \in Workers, Progress(w)
  PROVE  CreatedInv' /\ \A d \in Docs : StatusMoves(d)
<1> USE DEF TypeOK, WorkerTypes, DocTypes, BrokerTypes, Goto, SetStatus,
            docVars, brokerVars, reaperVars
<1>1. CASE Start(w)
  BY <1>1, WorkerMoves DEF Start
<1>2. CASE CreateJob(w)
  BY <1>2, WorkerMoves DEF CreateJob
<1>3. CASE ValidationDone(w)
  BY <1>3, WorkerMoves DEF ValidationDone, WriteValidation, NextStage
<1>4. CASE PlainStageDone(w)
  BY <1>4, WorkerMoves DEF PlainStageDone, NextStage
<1>5. CASE ExtractionDone(w)
  BY <1>5, WorkerMoves DEF ExtractionDone, NextStage
<1>6. CASE ExtractionClash(w)
  BY <1>6, WorkerMoves DEF ExtractionClash, SessionLost
<1>7. CASE FinalRead(w)
  BY <1>7, WorkerMoves DEF FinalRead
<1>8. CASE FinalCommit(w)
  BY <1>8, WorkerMoves DEF FinalCommit, WriteOutcome, NextStage
<1>9. CASE MarkFailed(w)
  BY <1>9, WorkerMoves DEF MarkFailed, SetFailed
<1>10. CASE MarkTimedOut(w)
  BY <1>10, WorkerMoves DEF MarkTimedOut, SetFailed
<1>11. CASE PublishRetry(w)
  BY <1>11, WorkerMoves DEF PublishRetry, Publish
<1>12. CASE GiveUp(w)
  BY <1>12, WorkerMoves DEF GiveUp
<1>13. CASE Ack(w)
  BY <1>13, WorkerMoves DEF Ack, Vanish
<1>14. CASE FinalDone(w)
  BY <1>14, WorkerMoves DEF FinalDone
<1>15. QED
  BY <1>1, <1>2, <1>3, <1>4, <1>5, <1>6, <1>7, <1>8, <1>9, <1>10, <1>11, <1>12, <1>13,
     <1>14 DEF Progress

LEMMA FaultMoves ==
  ASSUME TypeOK, CreatedInv, NEW w \in Workers, Fault(w)
  PROVE  CreatedInv' /\ \A d \in Docs : StatusMoves(d)
<1> USE DEF TypeOK, WorkerTypes, DocTypes, BrokerTypes, Goto, docVars, brokerVars,
            reaperVars, Lose
<1>1. CASE StageRaises(w)
  BY <1>1, WorkerMoves DEF StageRaises
<1>2. CASE DbError(w)
  BY <1>2, WorkerMoves DEF DbError, SessionLost
<1>3. CASE SoftLimitBetween(w)
  BY <1>3, WorkerMoves DEF SoftLimitBetween
<1>4. CASE SoftLimitValidation(w)
  BY <1>4, WorkerMoves DEF SoftLimitValidation, WriteValidation
<1>5. CASE SoftLimitPlain(w)
  BY <1>5, WorkerMoves DEF SoftLimitPlain
<1>6. CASE SoftLimitExtraction(w)
  BY <1>6, WorkerMoves DEF SoftLimitExtraction, SessionLost
<1>7. CASE SoftLimitConfidence(w)
  BY <1>7, WorkerMoves DEF SoftLimitConfidence
<1>8. CASE SoftLimitFinal(w)
  BY <1>8, WorkerMoves DEF SoftLimitFinal, WriteOutcome
<1>9. CASE RetryUnconfirmed(w)
  BY <1>9, WorkerMoves DEF RetryUnconfirmed, Publish, workerVars
<1>10. CASE HardLimit(w)
  BY <1>10, WorkerMoves DEF HardLimit, Vanish
<1>11. CASE WorkerCrash(w)
  BY <1>11, WorkerMoves DEF WorkerCrash, Publish, Vanish
<1>12. CASE SoftLimitUnloaded(w) \/ SoftLimitLoaded(w)
  BY <1>12, WorkerMoves DEF SoftLimitUnloaded, SoftLimitLoaded
<1>13. CASE SoftLimitCommitted(w) \/ SoftLimitHandler(w)
  BY <1>13, WorkerMoves DEF SoftLimitCommitted, SoftLimitHandler
<1>14. QED
  BY <1>1, <1>2, <1>3, <1>4, <1>5, <1>6, <1>7, <1>8, <1>9, <1>10, <1>11, <1>12, <1>13
     DEF Fault

LEMMA OutsideMoves ==
  ASSUME TypeOK, CreatedInv,
         \/ \E e \in Docs : \/ Enqueue(e) \/ EnqueueUnconfirmed(e)
                           \/ EnqueueFails(e) \/ ApiCrash(e) \/ Age(e)
         \/ Receive \/ ReaperQuery \/ ReaperCommit \/ ReaperFails
         \/ UNCHANGED vars
  PROVE  CreatedInv' /\ \A d \in Docs : StatusMoves(d)
<1> USE BoundAssumption DEF TypeOK, DocTypes, BrokerTypes, WorkerTypes, ReaperTypes,
        docVars, brokerVars, workerVars, reaperVars, CreatedInv, Created, StatusMoves
<1>1. ASSUME NEW e \in Docs, Enqueue(e)
      PROVE  CreatedInv' /\ \A d \in Docs : StatusMoves(d)
  BY <1>1 DEF Enqueue, Publish
<1>2. ASSUME NEW e \in Docs, EnqueueUnconfirmed(e)
      PROVE  CreatedInv' /\ \A d \in Docs : StatusMoves(d)
  BY <1>2 DEF EnqueueUnconfirmed, Publish, Lose
<1>3. ASSUME NEW e \in Docs, EnqueueFails(e)
      PROVE  CreatedInv' /\ \A d \in Docs : StatusMoves(d)
  BY <1>3 DEF EnqueueFails, SetFailed, SetStatus
<1>4. ASSUME NEW e \in Docs, ApiCrash(e)
      PROVE  CreatedInv' /\ \A d \in Docs : StatusMoves(d)
  BY <1>4 DEF ApiCrash, Lose
<1>5. ASSUME NEW e \in Docs, Age(e)
      PROVE  CreatedInv' /\ \A d \in Docs : StatusMoves(d)
  BY <1>5 DEF Age
<1>6. CASE Receive
  <2>1. PICK w \in Workers, d \in Docs, r \in 0..MaxRetries : Deliver(w, d, r)
    BY <1>6 DEF Receive
  <2>2. QED
    BY <2>1 DEF Deliver
<1>7. CASE ReaperQuery
  BY <1>7 DEF ReaperQuery, StaleDocs
<1>8. CASE ReaperCommit
  BY <1>8 DEF ReaperCommit
<1>9. CASE ReaperFails
  BY <1>9 DEF ReaperFails
<1>10. CASE UNCHANGED vars
  BY <1>10 DEF vars
<1>11. QED
  BY <1>1, <1>2, <1>3, <1>4, <1>5, <1>6, <1>7, <1>8, <1>9, <1>10

LEMMA CommitMoves ==
  ASSUME TypeOK, CreatedInv, NEW e \in Docs, CommitDocument(e)
  PROVE  /\ CreatedInv'
         /\ status[e] = "none" /\ status'[e] = "QUEUED"
         /\ \A d \in Docs \ {e} : status'[d] = status[d]
BY DEF TypeOK, DocTypes, BrokerTypes, WorkerTypes, ReaperTypes, CommitDocument, SetStatus,
       workerVars, reaperVars, CreatedInv, Created

-----------------------------------------------------------------------------
(* The refinement. *)

LEMMA MovesHonest ==
  ASSUME CompletedIsWhole', NEW d \in Docs, StatusMoves(d)
  PROVE  Ledger!StatusHonest(d)
BY DEF CompletedIsWhole, StatusMoves, Created, Ledger!StatusHonest, Ledger!Whole

LEMMA LedgerStep ==
  TypeOK /\ ExtractionInv /\ CreatedInv /\ [Next]_vars
    => CreatedInv' /\ [Ledger!Next]_Ledger!vars
<1> SUFFICES ASSUME TypeOK, ExtractionInv, CreatedInv, [Next]_vars
             PROVE  CreatedInv' /\ Ledger!Next
  OBVIOUS
<1> DEFINE Step == CreatedInv' /\ \A d \in Docs : RowsHonest(d) /\ Ledger!StatusHonest(d)
<1> SUFFICES Step
  BY DEF RowsHonest, Ledger!Next
<1>1. CompletedIsWhole'
  BY ExtractionStep DEF ExtractionInv
<1>2. ASSUME NEW e \in Docs, CommitDocument(e)
      PROVE  Step
  <2>1. \A d \in Docs : RowsHonest(d)
    BY <1>2, NoRowsHonest DEF CommitDocument
  <2>2. \A d \in Docs : Ledger!StatusHonest(d)
    BY <1>2, CommitMoves DEF Ledger!StatusHonest
  <2>3. QED
    BY <1>2, <2>1, <2>2, CommitMoves
<1>3. CASE \/ \E e \in Docs : \/ Enqueue(e) \/ EnqueueUnconfirmed(e)
                            \/ EnqueueFails(e) \/ ApiCrash(e) \/ Age(e)
           \/ Receive \/ ReaperQuery \/ ReaperCommit \/ ReaperFails
           \/ UNCHANGED vars
  <2>1. UNCHANGED rowVars
    BY <1>3 DEF Enqueue, EnqueueUnconfirmed, EnqueueFails, ApiCrash, Age, Receive,
                Deliver, ReaperQuery, ReaperCommit, ReaperFails, vars
  <2>2. QED
    BY <1>1, <1>3, <2>1, NoRowsHonest, OutsideMoves, MovesHonest
<1>4. ASSUME NEW w \in Workers, Progress(w)
      PROVE  Step
  BY <1>1, <1>4, ProgressRows, ProgressMoves, MovesHonest
<1>5. ASSUME NEW w \in Workers, Fault(w)
      PROVE  Step
  BY <1>1, <1>5, FaultRows, FaultMoves, MovesHonest
<1>6. QED
  BY <1>2, <1>3, <1>4, <1>5 DEF Next

(* The pipeline, with all its retries, redeliveries and losses, keeps what *)
(* the document store promises: every step of it is one the ledger allows. *)
THEOREM ImplementsLedger == Spec => LedgerSpec
<1>1. Init => CreatedInv /\ Ledger!Init
  BY BoundAssumption DEF Init, CreatedInv, Created, Ledger!Init
<1>2. QED
  BY <1>1, LedgerStep, TypeCorrect, ExtractionSafety, PTL
     DEF Spec, LedgerSpec, Ledger!Spec

-----------------------------------------------------------------------------
(* What is kept until something is lost.                                   *)

(* The invariant, document by document.                                    *)

(* The execution may still write its document or publish its task. *)
Live(w) == pc[w] \notin {"idle", "ack"}

(* The upload request, a task in the queue and a live execution exclude    *)
(* each other, and there is one of each at most.                           *)
OneClaim(d) ==
  /\ \A r \in 0..MaxRetries :
       queue[d][r] > 0 => upload[d] = "over" /\ queue[d][r] = 1
  /\ \A r, s \in 0..MaxRetries : queue[d][r] > 0 /\ queue[d][s] > 0 => r = s
  /\ \A w \in Workers : task[w] = d /\ Live(w) =>
       upload[d] = "over" /\ \A r \in 0..MaxRetries : queue[d][r] = 0
  /\ \A v, w \in Workers :
       task[v] = d /\ task[w] = d /\ Live(v) /\ Live(w) => v = w

(* A QUEUED document has one of them, unless its execution ended without   *)
(* having loaded it. *)
SomeClaim(d) ==
  status[d] = "QUEUED" =>
    \/ d \in unloaded
    \/ upload[d] = "stored"
    \/ \E r \in 0..MaxRetries : queue[d][r] > 0
    \/ \E w \in Workers : task[w] = d /\ pc[w] \in {"start", "timeout"}

(* COMPLETED comes last. *)
CompletedIsLast(d) ==
  status[d] = "COMPLETED" =>
    /\ upload[d] = "over"
    /\ \A r \in 0..MaxRetries : queue[d][r] = 0
    /\ \A w \in Workers :
         task[w] = d => pc[w] \in {"idle", "committed", "timeout", "ack"}

(* A document is PROCESSING because somebody works on it, or because every *)
(* execution of it clashes in stage 3: only the latter grow stale.         *)
ProcessingForCause(d) ==
  status[d] = "PROCESSING" =>
    \/ pages[d] > 0
    \/ \E w \in Workers :
         task[w] = d /\ pc[w] \in {"create", "stage", "final", "handler", "timeout"}

ReapedClashes(d) ==
  d \in reaping \/ (stale[d] /\ status[d] = "PROCESSING") =>
    /\ pages[d] > 0 /\ status[d] # "COMPLETED"
    /\ \A w \in Workers : task[w] = d => ~PastPages(w)

(* What the execution has read of the status is still there. *)
ReadHolds(w) ==
  /\ pc[w] = "final" => seen[w] = status[task[w]]
  /\ pc[w] = "create" /\ stage[w] = 1 => status[task[w]] # "PARTIAL"
  /\ pc[w] = "stage" /\ stage[w] = 1 => seen[w] # "PARTIAL"

(* From stage 2 on an oversized document is PARTIAL, unless the execution  *)
(* is about to clash. *)
CutIsPartial(w) ==
  /\ Working(w) /\ stage[w] >= 2 /\ task[w] \in Oversized
  /\ PastPages(w) \/ pages[task[w]] = 0
  => status[task[w]] = "PARTIAL"

CutNotCompleted(d) ==
  /\ skipped[d] => d \in Oversized
  /\ d \in Oversized => status[d] # "COMPLETED"

DocInv(d) ==
  /\ OneClaim(d) /\ SomeClaim(d) /\ CompletedIsLast(d)
  /\ ProcessingForCause(d) /\ ReapedClashes(d) /\ CutNotCompleted(d)
  /\ \A w \in Workers : task[w] = d => ReadHolds(w) /\ CutIsPartial(w)

LosslessInv == losses = 0 => \A d \in Docs : DocInv(d)

IdleHasNoTask == \A w \in Workers : pc[w] = "idle" => task[w] = NoDoc

-----------------------------------------------------------------------------
(* A document nobody touches. *)
LEMMA Untouched ==
  ASSUME NEW d \in Docs, DocInv(d),
         /\ status'[d] = status[d] /\ stale'[d] = stale[d] /\ skipped'[d] = skipped[d]
         /\ pages'[d] = pages[d] /\ done'[d] = done[d]
         /\ upload'[d] = upload[d] /\ queue'[d] = queue[d]
         /\ d \in reaping' <=> d \in reaping
         /\ d \in unloaded => d \in unloaded',
         \A w \in Workers : \/ /\ task[w] # d /\ task'[w] # d
                            \/ /\ task'[w] = task[w] /\ pc'[w] = pc[w]
                               /\ stage'[w] = stage[w] /\ seen'[w] = seen[w]
  PROVE  DocInv(d)'
<1> USE DEF Live, PastPages, Working
<1>1. (OneClaim(d) /\ SomeClaim(d))'
  BY DEF DocInv, OneClaim, SomeClaim
<1>2. (CompletedIsLast(d) /\ ProcessingForCause(d))'
  BY DEF DocInv, CompletedIsLast, ProcessingForCause
<1>3. (ReapedClashes(d) /\ CutNotCompleted(d))'
  BY DEF DocInv, ReapedClashes, CutNotCompleted
<1>4. (\A w \in Workers : task[w] = d => ReadHolds(w) /\ CutIsPartial(w))'
  BY DEF DocInv, ReadHolds, CutIsPartial
<1>5. QED
  BY <1>1, <1>2, <1>3, <1>4 DEF DocInv

(* A live execution has its document for itself, so its step has to be     *)
(* looked at from its own side only.                                       *)
Alone(w) ==
  /\ upload[task[w]] = "over"
  /\ \A r \in 0..MaxRetries : queue[task[w]][r] = 0
  /\ \A v \in Workers \ {w} : task[v] = task[w] => pc[v] = "ack"

OwnInv(w) ==
  LET d == task[w] IN
  /\ status[d] = "QUEUED" => d \in unloaded \/ pc[w] \in {"start", "timeout"}
  /\ status[d] = "COMPLETED" => pc[w] \in {"committed", "timeout", "ack"}
  /\ status[d] = "PROCESSING" =>
       pages[d] > 0 \/ pc[w] \in {"create", "stage", "final", "handler", "timeout"}
  /\ d \in reaping \/ (stale[d] /\ status[d] = "PROCESSING") =>
       pages[d] > 0 /\ status[d] # "COMPLETED" /\ ~PastPages(w)
  /\ ReadHolds(w) /\ CutIsPartial(w) /\ CutNotCompleted(d)

LEMMA LiveIsAlone ==
  ASSUME TypeOK, IdleHasNoTask, NEW w \in Workers, Live(w), DocInv(task[w])
  PROVE  Alone(w) /\ OwnInv(w)
<1>1. task[w] \in Docs /\ task[w] # NoDoc /\ \A v \in Workers : task[v] = task[w] => pc[v] # "idle"
  BY DocsAssumption DEF TypeOK, WorkerTypes, Live, IdleHasNoTask
<1>2. Alone(w)
  BY <1>1 DEF Alone, DocInv, OneClaim, Live
<1>3. OwnInv(w)
  <2>1. status[task[w]] = "QUEUED" => task[w] \in unloaded \/ pc[w] \in {"start", "timeout"}
    BY <1>1, <1>2 DEF DocInv, SomeClaim, Alone
  <2>2. status[task[w]] = "PROCESSING" => pages[task[w]] > 0
          \/ pc[w] \in {"create", "stage", "final", "handler", "timeout"}
    BY <1>1, <1>2 DEF DocInv, ProcessingForCause, Alone
  <2>3. status[task[w]] = "COMPLETED" => pc[w] \in {"committed", "timeout", "ack"}
    BY <1>1 DEF DocInv, CompletedIsLast, Live
  <2>4. QED
    BY <2>1, <2>2, <2>3 DEF OwnInv, DocInv, ReapedClashes
<1>4. QED
  BY <1>2, <1>3

LEMMA AloneSuffices ==
  ASSUME NEW w \in Workers, (pc[w] # "idle")', Alone(w)', OwnInv(w)'
  PROVE  DocInv(task[w])'
<1> USE DEF Live, PastPages, Working
<1>1. (OneClaim(task[w]) /\ SomeClaim(task[w]))'
  BY DEF OneClaim, SomeClaim, Alone, OwnInv
<1>2. CompletedIsLast(task[w])'
  BY DEF CompletedIsLast, Alone, OwnInv
<1>3. ProcessingForCause(task[w])'
  BY DEF ProcessingForCause, OwnInv
<1>4. (ReapedClashes(task[w]) /\ CutNotCompleted(task[w]))'
  BY DEF ReapedClashes, Alone, OwnInv
<1>5. (\A v \in Workers : task[v] = task[w] => ReadHolds(v) /\ CutIsPartial(v))'
  BY DEF ReadHolds, CutIsPartial, Alone, OwnInv
<1>6. QED
  BY <1>1, <1>2, <1>3, <1>4, <1>5 DEF DocInv

(* w changes itself and its document, and publishes nothing. *)
OwnStep(w) ==
  /\ task'[w] = task[w] /\ pc'[w] # "idle"
  /\ \A v \in Workers \ {w} :
       pc'[v] = pc[v] /\ task'[v] = task[v] /\ stage'[v] = stage[v] /\ seen'[v] = seen[v]
  /\ \A d \in Docs \ {task[w]} :
       /\ status'[d] = status[d] /\ stale'[d] = stale[d] /\ skipped'[d] = skipped[d]
       /\ pages'[d] = pages[d] /\ done'[d] = done[d]
  /\ UNCHANGED <<upload, queue, reaping>>
  /\ unloaded \subseteq unloaded'

LEMMA OwnStepKeeps ==
  ASSUME TypeOK, IdleHasNoTask, NEW w \in Workers, Live(w), OwnStep(w),
         \A d \in Docs : DocInv(d), OwnInv(w)'
  PROVE  IdleHasNoTask' /\ \A d \in Docs : DocInv(d)'
<1>1. task[w] \in Docs
  BY DEF TypeOK, WorkerTypes, Live
<1>2. Alone(w)
  BY <1>1, LiveIsAlone
<1>3. Alone(w)'
  BY <1>2 DEF Alone, OwnStep
<1>4. DocInv(task[w])'
  BY <1>3, AloneSuffices DEF OwnStep
<1>5. ASSUME NEW d \in Docs \ {task[w]}
      PROVE  DocInv(d)'
  BY Untouched DEF OwnStep
<1>6. ASSUME NEW d \in Docs
      PROVE  DocInv(d)'
  BY <1>4, <1>5 DEF OwnStep
<1>7. QED
  BY <1>6 DEF IdleHasNoTask, OwnStep

-----------------------------------------------------------------------------
(* Actions of an execution that keeps its claim or gives it up.            *)
OwnAction(w) ==
  \/ Start(w) \/ CreateJob(w) \/ ValidationDone(w) \/ PlainStageDone(w)
  \/ ExtractionDone(w) \/ ExtractionClash(w) \/ FinalRead(w)
  \/ FinalCommit(w) \/ FinalDone(w) \/ MarkFailed(w) \/ MarkTimedOut(w) \/ GiveUp(w)
  \/ StageRaises(w) \/ SoftLimitBetween(w) \/ SoftLimitValidation(w)
  \/ SoftLimitPlain(w) \/ SoftLimitExtraction(w) \/ SoftLimitConfidence(w)
  \/ SoftLimitFinal(w) \/ SoftLimitCommitted(w)
  \/ SoftLimitUnloaded(w) \/ SoftLimitLoaded(w)

LEMMA OwnActionSteps ==
  ASSUME TypeOK, ExtractionInv, NEW w \in Workers, OwnAction(w), Alone(w), OwnInv(w)
  PROVE  Live(w) /\ OwnStep(w) /\ OwnInv(w)'
<1> task[w] \in Docs
  BY DEF OwnAction, Start, CreateJob, ValidationDone, PlainStageDone, ExtractionDone,
     ExtractionClash, FinalRead, FinalCommit, FinalDone, MarkFailed, MarkTimedOut, GiveUp,
     StageRaises, SoftLimitUnloaded, SoftLimitLoaded,
     SoftLimitCommitted, SoftLimitHandler, SoftLimitBetween, SoftLimitValidation,
     SoftLimitPlain,
     SoftLimitExtraction, SoftLimitConfidence, SoftLimitFinal, TypeOK, WorkerTypes
<1> USE DEF TypeOK, WorkerTypes, DocTypes, RowTypes, JobTypes, docVars, rowVars, jobVars,
        brokerVars, reaperVars, Goto, NextStage, CompleteJob, OwnStep, Live
<1>0. /\ pages[task[w]] <= NumPages[task[w]]
      /\ pc[w] = "final" => stage[w] = 6
      /\ pc[w] = "start" => stage[w] = 1
      /\ NumPages[task[w]] \in Nat
  BY SizeAssumption DEF ExtractionInv, ExtractedOnce, StageOrder
<1>1. CASE Start(w)
  <2>1. Live(w) /\ OwnStep(w)
    BY <1>1 DEF Start, SetStatus
  <2>2. OwnInv(w)'
    BY <1>0, <1>1 DEF Start, SetStatus, OwnInv, ReadHolds, CutIsPartial,
       CutNotCompleted, PastPages, Working, Stages
  <2>3. QED
    BY <2>1, <2>2
<1>2. CASE CreateJob(w)
  <2>1. Live(w) /\ OwnStep(w)
    BY <1>2 DEF CreateJob
  <2>2. OwnInv(w)'
    BY <1>0, <1>2 DEF CreateJob, OwnInv, ReadHolds, CutIsPartial,
       CutNotCompleted, PastPages, Working, Stages
  <2>3. QED
    BY <2>1, <2>2
<1>3. CASE ValidationDone(w)
  <2>1. Live(w) /\ OwnStep(w)
    BY <1>3 DEF ValidationDone, WriteValidation
  <2>2. OwnInv(w)'
    BY <1>0, <1>3 DEF ValidationDone, WriteValidation, OwnInv, ReadHolds, CutIsPartial,
       CutNotCompleted, PastPages, Working, Stages
  <2>3. QED
    BY <2>1, <2>2
<1>4. CASE PlainStageDone(w)
  <2>1. Live(w) /\ OwnStep(w)
    BY <1>4 DEF PlainStageDone
  <2>2. OwnInv(w)'
    BY <1>0, <1>4 DEF PlainStageDone, OwnInv, ReadHolds, CutIsPartial,
       CutNotCompleted, PastPages, Working, Stages
  <2>3. QED
    BY <2>1, <2>2
<1>5. CASE ExtractionDone(w)
  <2>1. Live(w) /\ OwnStep(w)
    BY <1>5 DEF ExtractionDone, PagesClash
  <2>2. OwnInv(w)'
    BY <1>0, <1>5 DEF ExtractionDone, PagesClash, OwnInv, ReadHolds, CutIsPartial,
       CutNotCompleted, PastPages, Working, Stages
  <2>3. QED
    BY <2>1, <2>2
<1>6. CASE ExtractionClash(w)
  <2>1. Live(w) /\ OwnStep(w)
    BY <1>6 DEF ExtractionClash, SessionLost, AbandonJob, PagesClash
  <2>2. OwnInv(w)'
    BY <1>0, <1>6 DEF ExtractionClash, SessionLost, AbandonJob, PagesClash, OwnInv,
       ReadHolds, CutIsPartial,
       CutNotCompleted, PastPages, Working, Stages
  <2>3. QED
    BY <2>1, <2>2
<1>7. CASE FinalRead(w)
  <2>1. Live(w) /\ OwnStep(w)
    BY <1>7 DEF FinalRead
  <2>2. OwnInv(w)'
    BY <1>0, <1>7 DEF FinalRead, OwnInv, ReadHolds, CutIsPartial,
       CutNotCompleted, PastPages, Working, Stages
  <2>3. QED
    BY <2>1, <2>2
<1>8. CASE FinalCommit(w)
  <2>1. Live(w) /\ OwnStep(w)
    BY <1>8 DEF FinalCommit, WriteOutcome, AddQuestions
  <2>2. OwnInv(w)'
    BY <1>0, <1>8 DEF FinalCommit, WriteOutcome, AddQuestions, OwnInv, ReadHolds,
       CutIsPartial,
       CutNotCompleted, PastPages, Working, Stages
  <2>3. QED
    BY <2>1, <2>2
<1>9. CASE MarkFailed(w)
  <2>1. Live(w) /\ OwnStep(w)
    BY <1>9 DEF MarkFailed, SetFailed, SetStatus
  <2>2. OwnInv(w)'
    BY <1>0, <1>9 DEF MarkFailed, SetFailed, SetStatus, OwnInv, ReadHolds, CutIsPartial,
       CutNotCompleted, PastPages, Working, Stages
  <2>3. QED
    BY <2>1, <2>2
<1>10. CASE MarkTimedOut(w)
  <2>1. Live(w) /\ OwnStep(w)
    BY <1>10 DEF MarkTimedOut, SetFailed, SetStatus
  <2>2. OwnInv(w)'
    BY <1>0, <1>10 DEF MarkTimedOut, SetFailed, SetStatus, OwnInv, ReadHolds,
       CutIsPartial,
       CutNotCompleted, PastPages, Working, Stages
  <2>3. QED
    BY <2>1, <2>2
<1>11. CASE GiveUp(w)
  <2>1. Live(w) /\ OwnStep(w)
    BY <1>11 DEF GiveUp
  <2>2. OwnInv(w)'
    BY <1>0, <1>11 DEF GiveUp, OwnInv, ReadHolds, CutIsPartial,
       CutNotCompleted, PastPages, Working, Stages
  <2>3. QED
    BY <2>1, <2>2
<1>12. CASE StageRaises(w)
  <2>1. Live(w) /\ OwnStep(w)
    BY <1>12 DEF StageRaises
  <2>2. OwnInv(w)'
    BY <1>0, <1>12 DEF StageRaises, OwnInv, ReadHolds, CutIsPartial,
       CutNotCompleted, PastPages, Working, Stages
  <2>3. QED
    BY <2>1, <2>2
<1>13. CASE SoftLimitBetween(w)
  <2>1. Live(w) /\ OwnStep(w)
    BY <1>13 DEF SoftLimitBetween
  <2>2. OwnInv(w)'
    BY <1>0, <1>13 DEF SoftLimitBetween, OwnInv, ReadHolds, CutIsPartial,
       CutNotCompleted, PastPages, Working, Stages
  <2>3. QED
    BY <2>1, <2>2
<1>14. CASE SoftLimitValidation(w)
  <2>1. Live(w) /\ OwnStep(w)
    BY <1>14 DEF SoftLimitValidation, WriteValidation
  <2>2. OwnInv(w)'
    BY <1>0, <1>14 DEF SoftLimitValidation, WriteValidation, OwnInv, ReadHolds,
       CutIsPartial,
       CutNotCompleted, PastPages, Working, Stages
  <2>3. QED
    BY <2>1, <2>2
<1>15. CASE SoftLimitPlain(w)
  <2>1. Live(w) /\ OwnStep(w)
    BY <1>15 DEF SoftLimitPlain
  <2>2. OwnInv(w)'
    BY <1>0, <1>15 DEF SoftLimitPlain, OwnInv, ReadHolds, CutIsPartial,
       CutNotCompleted, PastPages, Working, Stages
  <2>3. QED
    BY <2>1, <2>2
<1>16. CASE SoftLimitExtraction(w)
  <2>1. Live(w) /\ OwnStep(w)
    BY <1>16 DEF SoftLimitExtraction, SessionLost, AbandonJob, PagesClash
  <2>2. OwnInv(w)'
    BY <1>0, <1>16 DEF SoftLimitExtraction, SessionLost, AbandonJob, PagesClash,
       OwnInv, ReadHolds, CutIsPartial,
       CutNotCompleted, PastPages, Working, Stages
  <2>3. QED
    BY <2>1, <2>2
<1>17. CASE SoftLimitConfidence(w)
  <2>1. Live(w) /\ OwnStep(w)
    BY <1>17 DEF SoftLimitConfidence, AddQuestions
  <2>2. OwnInv(w)'
    BY <1>0, <1>17 DEF SoftLimitConfidence, AddQuestions, OwnInv, ReadHolds, CutIsPartial,
       CutNotCompleted, PastPages, Working, Stages
  <2>3. QED
    BY <2>1, <2>2
<1>18. CASE SoftLimitFinal(w)
  <2>1. Live(w) /\ OwnStep(w)
    BY <1>18 DEF SoftLimitFinal, WriteOutcome, AddQuestions
  <2>2. OwnInv(w)'
    BY <1>0, <1>18 DEF SoftLimitFinal, WriteOutcome, AddQuestions, OwnInv, ReadHolds,
       CutIsPartial,
       CutNotCompleted, PastPages, Working, Stages
  <2>3. QED
    BY <2>1, <2>2
<1>19. CASE FinalDone(w)
  <2>1. Live(w) /\ OwnStep(w)
    BY <1>19 DEF FinalDone
  <2>2. OwnInv(w)'
    BY <1>0, <1>19 DEF FinalDone, OwnInv, ReadHolds, CutIsPartial, CutNotCompleted,
       PastPages, Working, Stages
  <2>3. QED
    BY <2>1, <2>2
<1>20. CASE SoftLimitCommitted(w)
  <2>1. Live(w) /\ OwnStep(w)
    BY <1>20 DEF SoftLimitCommitted
  <2>2. OwnInv(w)'
    BY <1>0, <1>20 DEF SoftLimitCommitted, OwnInv, ReadHolds, CutIsPartial,
       CutNotCompleted, PastPages, Working, Stages
  <2>3. QED
    BY <2>1, <2>2
<1>21. CASE SoftLimitUnloaded(w) \/ SoftLimitLoaded(w)
  <2>1. Live(w) /\ OwnStep(w)
    BY <1>21 DEF SoftLimitUnloaded, SoftLimitLoaded
  <2>2. OwnInv(w)'
    BY <1>0, <1>21 DEF SoftLimitUnloaded, SoftLimitLoaded, OwnInv, ReadHolds,
       CutIsPartial, CutNotCompleted, PastPages, Working, Stages
  <2>3. QED
    BY <2>1, <2>2
<1>22. QED
  BY <1>1, <1>2, <1>3, <1>4, <1>5, <1>6, <1>7, <1>8, <1>9, <1>10, <1>11, <1>12, <1>13,
     <1>14, <1>15, <1>16, <1>17, <1>18, <1>19, <1>20, <1>21 DEF OwnAction

-----------------------------------------------------------------------------
(* Claims that change hands, and the steps of those who hold none.         *)

LEMMA QueueOne ==
  ASSUME TypeOK, NEW d \in Docs, NEW r \in 0..MaxRetries,
         \/ /\ Publish(d, r)
            /\ \A s \in 0..MaxRetries : queue[d][s] = 0
         \/ /\ queue' = [queue EXCEPT ![d][r] = @ - 1]
            /\ \A s \in 0..MaxRetries : queue[d][s] = IF s = r THEN 1 ELSE 0
  PROVE  /\ \A s \in 0..MaxRetries : queue'[d][s] =
              IF s = r /\ queue[d][s] = 0 THEN 1 ELSE 0
         /\ \A e \in Docs \ {d} : queue'[e] = queue[e]
<1>1. queue \in [Docs -> [0..MaxRetries -> Nat]]
  BY DEF TypeOK, BrokerTypes
<1>2. CASE Publish(d, r) /\ \A s \in 0..MaxRetries : queue[d][s] = 0
  <2>1. queue'[d] = [queue[d] EXCEPT ![r] = @ + 1]
    BY <1>1, <1>2 DEF Publish
  <2>2. \A s \in 0..MaxRetries : queue'[d][s] = IF s = r THEN 0 + 1 ELSE 0
    BY <1>1, <1>2, <2>1
  <2>3. QED
    BY <1>1, <1>2, <2>2 DEF Publish
<1>3. CASE /\ queue' = [queue EXCEPT ![d][r] = @ - 1]
           /\ \A s \in 0..MaxRetries : queue[d][s] = IF s = r THEN 1 ELSE 0
  <2>1. queue'[d] = [queue[d] EXCEPT ![r] = @ - 1]
    BY <1>1, <1>3
  <2>2. \A s \in 0..MaxRetries : queue'[d][s] = IF s = r THEN 1 - 1 ELSE 0
    BY <1>1, <1>3, <2>1
  <2>3. QED
    BY <1>1, <1>3, <2>2
<1>4. QED
  BY <1>2, <1>3

LEMMA RetryPublished ==
  ASSUME TypeOK, IdleHasNoTask, NEW w \in Workers, PublishRetry(w),
         \A d \in Docs : DocInv(d)
  PROVE  \A d \in Docs : DocInv(d)'
<1>1. task[w] \in Docs /\ Live(w) /\ retries[w] + 1 \in 0..MaxRetries
  BY BoundAssumption DEF PublishRetry, TypeOK, WorkerTypes, Live
<1>2. Alone(w) /\ OwnInv(w)
  BY <1>1, LiveIsAlone
<1>3. DocInv(task[w])'
  <2> DEFINE e == task[w]
  <2> USE DEF PublishRetry, Publish, Goto, docVars, rowVars, jobVars, reaperVars
  <2>1. \A r \in 0..MaxRetries : queue'[e][r] = IF r = retries[w] + 1 THEN 1 ELSE 0
    <3>1. \A s \in 0..MaxRetries : queue[e][s] = 0
      BY <1>2 DEF Alone
    <3>2. \A r \in 0..MaxRetries : queue'[e][r] =
            IF r = retries[w] + 1 /\ queue[e][r] = 0 THEN 1 ELSE 0
      BY <1>1, <3>1, QueueOne
    <3>3. QED
      BY <3>1, <3>2
  <2>2. /\ task'[w] = e /\ upload'[e] = "over"
        /\ \A v \in Workers : task'[v] = e => pc'[v] = "ack"
    BY <1>1, <1>2 DEF Alone, TypeOK, WorkerTypes
  <2>3. (OneClaim(e) /\ SomeClaim(e))'
    BY <1>1, <2>1, <2>2 DEF OneClaim, SomeClaim, Live
  <2>4. (CompletedIsLast(e) /\ ProcessingForCause(e) /\ ReapedClashes(e) /\ CutNotCompleted(e))'
    BY <1>1, <1>2, <2>2 DEF OwnInv, CompletedIsLast, ProcessingForCause, ReapedClashes,
       CutNotCompleted, PastPages, Working, Live
  <2>5. (\A v \in Workers : task[v] = e => ReadHolds(v) /\ CutIsPartial(v))'
    BY <2>2 DEF ReadHolds, CutIsPartial, Working
  <2>6. QED
    BY <2>2, <2>3, <2>4, <2>5 DEF DocInv
<1>4. ASSUME NEW d \in Docs \ {task[w]}
      PROVE  DocInv(d)'
  BY Untouched DEF PublishRetry, Publish, Goto, docVars, rowVars, jobVars, reaperVars,
     TypeOK, BrokerTypes, WorkerTypes
<1>5. QED
  BY <1>3, <1>4 DEF PublishRetry, Goto

LEMMA Delivered ==
  ASSUME TypeOK, ExtractionInv, IdleHasNoTask, NEW w \in Workers, NEW e \in Docs,
         NEW r \in 0..MaxRetries, Deliver(w, e, r), \A d \in Docs : DocInv(d)
  PROVE  \A d \in Docs : DocInv(d)'
<1> USE DEF Deliver, docVars, rowVars, jobVars, reaperVars, TypeOK, WorkerTypes
<1>1. /\ task'[w] = e /\ pc'[w] = "start" /\ stage'[w] = 1
      /\ \A v \in Workers \ {w} : pc'[v] = pc[v] /\ task'[v] = task[v]
  BY DEF ExtractionInv, StageOrder
<1>2. /\ upload[e] = "over" /\ queue[e][r] = 1
      /\ \A s \in 0..MaxRetries : queue[e][s] > 0 => s = r
      /\ \A v \in Workers : task[v] = e => ~Live(v)
  BY DEF DocInv, OneClaim
<1>3. \A s \in 0..MaxRetries : queue'[e][s] = 0
  <2>1. \A s \in 0..MaxRetries : queue[e][s] = IF s = r THEN 1 ELSE 0
    <3>1. \A s \in 0..MaxRetries : queue[e][s] \in Nat
      BY DEF BrokerTypes
    <3>2. QED
      BY <1>2, <3>1
  <2>2. \A s \in 0..MaxRetries : queue'[e][s] = IF s = r /\ queue[e][s] = 0 THEN 1 ELSE 0
    BY <2>1, QueueOne
  <2>3. QED
    BY <2>1, <2>2
<1>4. DocInv(e)'
  <2>1. (OneClaim(e) /\ SomeClaim(e))'
    BY <1>1, <1>2, <1>3 DEF OneClaim, SomeClaim, Live
  <2>2. (CompletedIsLast(e) /\ ProcessingForCause(e) /\ ReapedClashes(e) /\ CutNotCompleted(e))'
    BY <1>1, <1>2 DEF DocInv, CompletedIsLast, ProcessingForCause, ReapedClashes,
       CutNotCompleted, PastPages, Working, Live
  <2>3. (\A v \in Workers : task[v] = e => ReadHolds(v) /\ CutIsPartial(v))'
    BY <1>1, <1>2 DEF ReadHolds, CutIsPartial, Working, Live
  <2>4. QED
    BY <2>1, <2>2, <2>3 DEF DocInv
<1>5. ASSUME NEW d \in Docs \ {e}, task[w] # d
      PROVE  DocInv(d)'
  BY <1>1, <1>5, Untouched DEF BrokerTypes
<1>6. QED
  BY <1>4, <1>5, DocsAssumption DEF IdleHasNoTask

LEMMA Acknowledged ==
  ASSUME TypeOK, NEW w \in Workers, Ack(w), \A d \in Docs : DocInv(d)
  PROVE  \A d \in Docs : DocInv(d)'
<1> SUFFICES ASSUME NEW d \in Docs PROVE DocInv(d)'
  OBVIOUS
<1> USE DEF Ack, Vanish, docVars, rowVars, jobVars, brokerVars, reaperVars, TypeOK,
WorkerTypes
<1>1. /\ pc[w] = "ack" /\ task'[w] # d
      /\ \A v \in Workers \ {w} : /\ pc'[v] = pc[v] /\ task'[v] = task[v]
                                  /\ stage'[v] = stage[v] /\ seen'[v] = seen[v]
  BY DocsAssumption
<1>2. (OneClaim(d) /\ SomeClaim(d) /\ CompletedIsLast(d))'
  BY <1>1 DEF DocInv, OneClaim, SomeClaim, CompletedIsLast, Live
<1>3. ProcessingForCause(d)'
  BY <1>1 DEF DocInv, ProcessingForCause
<1>4. (ReapedClashes(d) /\ CutNotCompleted(d))'
  BY <1>1 DEF DocInv, ReapedClashes, CutNotCompleted, PastPages, Working
<1>5. (\A v \in Workers : task[v] = d => ReadHolds(v) /\ CutIsPartial(v))'
  BY <1>1 DEF DocInv, ReadHolds, CutIsPartial, PastPages, Working
<1>6. QED
  BY <1>2, <1>3, <1>4, <1>5 DEF DocInv

(* The upload request and the clock change one document. *)
LEMMA UploadKeeps ==
  ASSUME TypeOK, NEW e \in Docs,
         CommitDocument(e) \/ Enqueue(e) \/ EnqueueFails(e),
         \A d \in Docs : DocInv(d)
  PROVE  \A d \in Docs : DocInv(d)'
<1>1. /\ upload[e] # "over" /\ upload'[e] \in {"stored", "over"}
      /\ UNCHANGED <<rowVars, jobVars, workerVars, reaperVars>>
  BY DEF CommitDocument, Enqueue, EnqueueFails, TypeOK, BrokerTypes
<1>2. \A d \in Docs \ {e} :
        /\ status'[d] = status[d] /\ stale'[d] = stale[d] /\ skipped'[d] = skipped[d]
        /\ upload'[d] = upload[d] /\ queue'[d] = queue[d]
  BY DEF CommitDocument, Enqueue, EnqueueFails, SetFailed, SetStatus, Publish, docVars,
         TypeOK, DocTypes, BrokerTypes
<1>3. ASSUME NEW d \in Docs \ {e}
      PROVE  DocInv(d)'
  BY <1>1, <1>2, Untouched DEF rowVars, jobVars, workerVars, reaperVars
<1>4. /\ \A w \in Workers : task[w] = e => ~Live(w)
      /\ \A r \in 0..MaxRetries : queue[e][r] = 0
      /\ status[e] # "COMPLETED"
  <2>1. \A r \in 0..MaxRetries : queue[e][r] \in Nat
    BY DEF TypeOK, BrokerTypes
  <2>2. QED
    BY <1>1, <2>1 DEF DocInv, OneClaim, CompletedIsLast
<1>5. \A w \in Workers : task'[w] = e => pc'[w] \in {"idle", "ack"}
  BY <1>1, <1>4 DEF workerVars, Live
<1>6. (OneClaim(e) /\ SomeClaim(e))'
  <2>1. CASE Enqueue(e)
    <3>1. 0 \in 0..MaxRetries /\ upload'[e] = "over"
      BY <2>1, BoundAssumption DEF Enqueue, TypeOK, BrokerTypes
    <3>2. \A r \in 0..MaxRetries : queue'[e][r] = IF r = 0 THEN 1 ELSE 0
      BY <1>4, <2>1, <3>1, QueueOne DEF Enqueue
    <3>3. QED
      BY <1>5, <3>1, <3>2 DEF OneClaim, SomeClaim, Live
  <2>2. CASE CommitDocument(e) \/ EnqueueFails(e)
    <3>1. queue' = queue /\ (status'[e] = "QUEUED" => upload'[e] = "stored")
      BY <2>2 DEF CommitDocument, EnqueueFails, SetFailed, SetStatus, TypeOK, DocTypes,
                  BrokerTypes
    <3>2. QED
      BY <1>4, <1>5, <3>1 DEF OneClaim, SomeClaim, Live
  <2>3. QED
    BY <2>1, <2>2
<1>7. /\ status'[e] \in {status[e], "QUEUED", "FAILED"} /\ skipped'[e] = skipped[e]
      /\ stale'[e] \in {stale[e], FALSE}
      /\ status'[e] = "PROCESSING" => status[e] = "PROCESSING"
  BY DEF CommitDocument, Enqueue, EnqueueFails, SetFailed, SetStatus, docVars, TypeOK,
     DocTypes
<1>8. (CompletedIsLast(e) /\ ProcessingForCause(e) /\ CutNotCompleted(e))'
  BY <1>1, <1>4, <1>7 DEF rowVars, jobVars, workerVars, DocInv, CompletedIsLast,
     ProcessingForCause, CutNotCompleted
<1>9. ReapedClashes(e)'
  BY <1>1, <1>7 DEF rowVars, jobVars, workerVars, reaperVars, DocInv, ReapedClashes,
     PastPages, Working, TypeOK, DocTypes
<1>10. (\A w \in Workers : task[w] = e => ReadHolds(w) /\ CutIsPartial(w))'
  BY <1>5 DEF ReadHolds, CutIsPartial, Working
<1>11. QED
  BY <1>3, <1>6, <1>8, <1>9, <1>10 DEF DocInv

LEMMA AgeKeeps ==
  ASSUME TypeOK, NEW e \in Docs, Age(e), \A d \in Docs : DocInv(d)
  PROVE  \A d \in Docs : DocInv(d)'
<1> SUFFICES ASSUME NEW d \in Docs PROVE DocInv(d)'
  OBVIOUS
<1>1. /\ UNCHANGED <<status, skipped, rowVars, jobVars, brokerVars, workerVars,
                     reaperVars>>
      /\ stale'[d] # stale[d] => d = e
  BY DEF Age, TypeOK, DocTypes
<1>2. CASE d = e
  <2>1. ReapedClashes(d)'
    BY <1>1, <1>2 DEF Age, rowVars, jobVars, workerVars, DocInv, ReapedClashes,
       ProcessingForCause, CompletedIsLast, PastPages, Working
  <2>2. (OneClaim(d) /\ SomeClaim(d) /\ CompletedIsLast(d))'
    BY <1>1 DEF jobVars, brokerVars, workerVars, reaperVars, DocInv, OneClaim,
       SomeClaim, CompletedIsLast, Live
  <2>3. (ProcessingForCause(d) /\ CutNotCompleted(d))'
    BY <1>1 DEF rowVars, workerVars, DocInv, ProcessingForCause, CutNotCompleted
  <2>4. (\A w \in Workers : task[w] = d => ReadHolds(w) /\ CutIsPartial(w))'
    BY <1>1 DEF rowVars, workerVars, DocInv, ReadHolds, CutIsPartial, PastPages, Working
  <2>5. QED
    BY <2>1, <2>2, <2>3, <2>4 DEF DocInv
<1>3. CASE d # e
  BY <1>1, <1>3, Untouched DEF rowVars, jobVars, brokerVars, workerVars, reaperVars
<1>4. QED
  BY <1>2, <1>3

LEMMA ReaperKeeps ==
  ASSUME TypeOK, ExtractionInv, ReaperQuery \/ ReaperCommit, \A d \in Docs : DocInv(d)
  PROVE  \A d \in Docs : DocInv(d)'
<1> SUFFICES ASSUME NEW d \in Docs PROVE DocInv(d)'
  OBVIOUS
<1> USE DEF docVars, rowVars, jobVars, brokerVars, workerVars, TypeOK, DocTypes
<1>1. CASE ReaperQuery
  <2>1. (ReapedClashes(d))'
    BY <1>1 DEF DocInv, ReaperQuery, StaleDocs, ReapedClashes, PastPages, Working
  <2>2. QED
    BY <1>1, <2>1 DEF ReaperQuery, DocInv, OneClaim, SomeClaim, CompletedIsLast,
       ProcessingForCause, CutNotCompleted, ReadHolds, CutIsPartial, Live, PastPages,
       Working
<1>2. CASE ReaperCommit /\ d \notin reaping
  BY <1>2, Untouched DEF ReaperCommit
<1>3. CASE ReaperCommit /\ d \in reaping
  <2>1. /\ pages[d] > 0
        /\ \A w \in Workers : task[w] = d => ~PastPages(w) /\ pc[w] # "final"
    BY <1>3 DEF DocInv, ReapedClashes, ExtractionInv, StageOrder, PastPages, Working
  <2>2. status'[d] = "FAILED" /\ stale'[d] = FALSE /\ d \notin reaping'
    BY <1>3 DEF ReaperCommit
  <2>3. (OneClaim(d) /\ SomeClaim(d))'
    BY <1>3, <2>2 DEF ReaperCommit, DocInv, OneClaim, SomeClaim, Live
  <2>4. (CompletedIsLast(d) /\ ProcessingForCause(d) /\ ReapedClashes(d) /\ CutNotCompleted(d))'
    BY <1>3, <2>1, <2>2 DEF ReaperCommit, DocInv, CompletedIsLast, ProcessingForCause,
       ReapedClashes, CutNotCompleted
  <2>5. (\A w \in Workers : task[w] = d => ReadHolds(w) /\ CutIsPartial(w))'
    BY <1>3, <2>1, <2>2 DEF ReaperCommit, DocInv, RowTypes, ReadHolds, CutIsPartial,
       PastPages, Working
  <2>6. QED
    BY <2>3, <2>4, <2>5 DEF DocInv
<1>4. QED
  BY <1>1, <1>2, <1>3

-----------------------------------------------------------------------------
(* The invariant holds. *)

LEMMA IdleStep == TypeOK /\ IdleHasNoTask /\ [Next]_vars => IdleHasNoTask'
<1> SUFFICES ASSUME TypeOK, IdleHasNoTask, [Next]_vars PROVE IdleHasNoTask'
  OBVIOUS
<1> USE DEF TypeOK, WorkerTypes, IdleHasNoTask, workerVars, Goto, Vanish, NextStage
<1>1. ASSUME NEW w \in Workers, Progress(w)
      PROVE  IdleHasNoTask'
  BY <1>1 DEF Progress, Start, CreateJob, ValidationDone, PlainStageDone, ExtractionDone,
     ExtractionClash, SessionLost, FinalRead, FinalCommit, FinalDone, MarkFailed,
     MarkTimedOut,
     PublishRetry, GiveUp, Ack
<1>2. ASSUME NEW w \in Workers, Fault(w)
      PROVE  IdleHasNoTask'
  BY <1>2 DEF Fault, StageRaises, DbError, SessionLost, SoftLimitUnloaded,
     SoftLimitLoaded,
     SoftLimitCommitted, SoftLimitHandler, SoftLimitBetween,
     SoftLimitValidation, SoftLimitPlain, SoftLimitExtraction, SoftLimitConfidence,
     SoftLimitFinal, RetryUnconfirmed, HardLimit, WorkerCrash
<1>3. CASE Receive
  BY <1>3 DEF Receive, Deliver
<1>4. CASE ~Receive /\ ~\E w \in Workers : Progress(w) \/ Fault(w)
  BY <1>4 DEF Next, CommitDocument, Enqueue, EnqueueUnconfirmed, EnqueueFails,
     ApiCrash, Age,
     ReaperQuery, ReaperCommit, ReaperFails, vars
<1>5. QED
  BY <1>1, <1>2, <1>3, <1>4

(* What has not been lost now was not lost before. *)
LEMMA NoLoss ==
  ASSUME TypeOK, [Next]_vars, losses' = 0
  PROVE  losses = 0 /\ ~Lose /\ ~ReaperFails
<1>1. losses = 0
  BY DEF Next, CommitDocument, Enqueue, EnqueueUnconfirmed, EnqueueFails, ApiCrash, Age,
     Receive, Deliver, Progress, Start, CreateJob, ValidationDone, PlainStageDone,
     ExtractionDone, ExtractionClash, FinalRead, FinalCommit, FinalDone, MarkFailed,
     MarkTimedOut,
     PublishRetry, GiveUp, Ack, Fault, StageRaises, DbError, SoftLimitUnloaded,
     SoftLimitLoaded,
     SoftLimitCommitted, SoftLimitHandler, SoftLimitBetween,
     SoftLimitValidation, SoftLimitPlain, SoftLimitExtraction, SoftLimitConfidence,
     SoftLimitFinal, RetryUnconfirmed, HardLimit, WorkerCrash, ReaperQuery, ReaperCommit,
     ReaperFails, vars, reaperVars, Lose, TypeOK, ReaperTypes
<1>2. ~(Lose \/ ReaperFails)
  BY <1>1 DEF Lose, ReaperFails
<1> QED BY <1>1, <1>2

LEMMA LosslessStep ==
  TypeOK /\ ExtractionInv /\ IdleHasNoTask /\ LosslessInv /\ [Next]_vars => LosslessInv'
<1> SUFFICES ASSUME TypeOK, ExtractionInv, IdleHasNoTask, LosslessInv, [Next]_vars,
                    losses' = 0
             PROVE  \A d \in Docs : DocInv(d)'
  BY DEF LosslessInv
<1>1. losses = 0 /\ ~Lose /\ ~ReaperFails
  BY NoLoss
<1>2. \A d \in Docs : DocInv(d)
  BY <1>1 DEF LosslessInv
<1>3. ~(Lose \/ ReaperFails)
  BY <1>1
<1>4. ASSUME NEW w \in Workers, OwnAction(w)
      PROVE  \A d \in Docs : DocInv(d)'
  <2>1. task[w] \in Docs /\ Live(w)
    BY <1>4 DEF OwnAction, Start, CreateJob, ValidationDone, PlainStageDone,
       ExtractionDone,
       ExtractionClash, FinalRead, FinalCommit, FinalDone, MarkFailed, MarkTimedOut,
       GiveUp,
       StageRaises, SoftLimitUnloaded, SoftLimitLoaded,
     SoftLimitCommitted, SoftLimitHandler, SoftLimitBetween, SoftLimitValidation,
     SoftLimitPlain,
       SoftLimitExtraction, SoftLimitConfidence, SoftLimitFinal, TypeOK, WorkerTypes, Live
  <2>2. Alone(w) /\ OwnInv(w)
    BY <1>2, <2>1, LiveIsAlone
  <2>3. QED
    BY <1>1, <1>2, <1>4, <2>2, OwnActionSteps, OwnStepKeeps
<1>5. ASSUME NEW w \in Workers, Progress(w) \/ Fault(w)
      PROVE  \A d \in Docs : DocInv(d)'
  <2>1. CASE PublishRetry(w)
    BY <1>2, <2>1, RetryPublished
  <2>2. CASE Ack(w)
    BY <1>2, <2>2, Acknowledged
  <2>3. CASE ~PublishRetry(w) /\ ~Ack(w)
    BY <1>3, <1>4, <1>5, <2>3 DEF Progress, Fault, OwnAction, DbError, RetryUnconfirmed,
       SoftLimitHandler, HardLimit, WorkerCrash
  <2>4. QED
    BY <2>1, <2>2, <2>3
<1>6. CASE Receive
  BY <1>2, <1>6, Delivered DEF Receive
<1>7. ASSUME NEW e \in Docs,
             \/ CommitDocument(e) \/ Enqueue(e) \/ EnqueueUnconfirmed(e)
             \/ EnqueueFails(e) \/ ApiCrash(e) \/ Age(e)
      PROVE  \A d \in Docs : DocInv(d)'
  BY <1>2, <1>3, <1>7, UploadKeeps, AgeKeeps DEF EnqueueUnconfirmed, ApiCrash
<1>8. CASE ReaperQuery \/ ReaperCommit
  BY <1>2, <1>8, ReaperKeeps
<1>9. CASE UNCHANGED vars
  BY <1>2, <1>9, Untouched DEF vars, docVars, rowVars, jobVars, brokerVars, workerVars,
     reaperVars
<1>10. QED
  BY <1>3, <1>5, <1>6, <1>7, <1>8, <1>9 DEF Next

(* Until something is lost every document has one claim to be processed,   *)
(* and what its execution has read of it stays true.                       *)
THEOREM LosslessSafety == Spec => [](IdleHasNoTask /\ LosslessInv)
<1>1. Init => IdleHasNoTask /\ LosslessInv
  BY DEF Init, IdleHasNoTask, LosslessInv, DocInv, OneClaim, SomeClaim, CompletedIsLast,
     ProcessingForCause, ReapedClashes, CutNotCompleted, ReadHolds, CutIsPartial, Live,
     Working, PastPages
<1>2. QED
  BY <1>1, IdleStep, LosslessStep, TypeCorrect, ExtractionSafety, PTL DEF Spec

(* Two workers work on one document only after a loss: neither a retry nor *)
(* the reaper starts an execution beside one that is under way.            *)
THEOREM OneAtATime == Spec => []OneExecution
<1>1. TypeOK /\ IdleHasNoTask /\ LosslessInv => OneExecution
  BY DEF TypeOK, WorkerTypes, IdleHasNoTask, LosslessInv, DocInv, OneClaim, Live,
     OneExecution
<1>2. QED
  BY <1>1, TypeCorrect, LosslessSafety, PTL

(* No QUEUED document is forgotten without a loss. *)
THEOREM QueuedNotForgotten == Spec => []QueuedIsPending
<1>1. LosslessInv => QueuedIsPending
  BY DEF LosslessInv, DocInv, SomeClaim, QueuedIsPending
<1>2. QED
  BY <1>1, LosslessSafety, PTL

(* A document cut off at the page limit is not COMPLETED without a loss.   *)
THEOREM CutIsNotCompleted == Spec => []SkippedNotCompleted
<1>1. LosslessInv => SkippedNotCompleted
  BY DEF LosslessInv, DocInv, CutNotCompleted, SkippedNotCompleted
<1>2. QED
  BY <1>1, LosslessSafety, PTL

(* Who may write the status of a document. *)
LEMMA StatusWriters ==
  ASSUME TypeOK, [Next]_vars, NEW d \in Docs, status'[d] # status[d]
  PROVE  \/ upload[d] # "over"
         \/ d \in reaping
         \/ \E w \in Workers : task[w] = d /\ Live(w) /\ pc[w] # "committed"
<1> USE DEF TypeOK, DocTypes, SetStatus, SetFailed, docVars, Live
<1>1. ASSUME NEW w \in Workers, Progress(w)
      PROVE  task[w] = d /\ Live(w) /\ pc[w] # "committed"
  BY <1>1 DEF Progress, Start, CreateJob, ValidationDone, WriteValidation, PlainStageDone,
     ExtractionDone, ExtractionClash, SessionLost, FinalRead, FinalCommit,
     WriteOutcome, FinalDone,
     MarkFailed, MarkTimedOut, PublishRetry, GiveUp, Ack
<1>2. ASSUME NEW w \in Workers, Fault(w)
      PROVE  task[w] = d /\ Live(w) /\ pc[w] # "committed"
  BY <1>2 DEF Fault, StageRaises, DbError, SessionLost, SoftLimitUnloaded,
     SoftLimitLoaded,
     SoftLimitCommitted, SoftLimitHandler, SoftLimitBetween,
     SoftLimitValidation, WriteValidation, SoftLimitPlain, SoftLimitExtraction,
     SoftLimitConfidence, SoftLimitFinal, WriteOutcome, RetryUnconfirmed, HardLimit,
     WorkerCrash
<1>3. CASE ~\E w \in Workers : Progress(w) \/ Fault(w)
  BY <1>3 DEF Next, CommitDocument, Enqueue, EnqueueUnconfirmed, EnqueueFails,
     ApiCrash, Age,
     Receive, Deliver, ReaperQuery, ReaperCommit, ReaperFails, vars
<1>4. QED
  BY <1>1, <1>2, <1>3

(* Without a loss the outcome of the sixth stage is overwritten by the     *)
(* soft limit's handler of its own execution at most: by no other handler, *)
(* no other execution, and no reaper that selected the document earlier.   *)
THEOREM CompletedStays == Spec => CompletedIsFinal
<1>1. TypeOK /\ LosslessInv /\ [Next]_vars =>
        [\A d \in Docs :
           /\ losses = 0
           /\ status[d] = "COMPLETED" /\ status'[d] # "COMPLETED"
           => \E w \in Workers : task[w] = d /\ pc[w] = "timeout"]_vars
  <2> SUFFICES ASSUME TypeOK, LosslessInv, [Next]_vars, NEW d \in Docs, losses = 0,
                      status[d] = "COMPLETED", status'[d] # "COMPLETED"
               PROVE  \E w \in Workers : task[w] = d /\ pc[w] = "timeout"
    OBVIOUS
  <2>1. DocInv(d)
    BY DEF LosslessInv
  <2>2. /\ upload[d] = "over" /\ d \notin reaping
        /\ \A w \in Workers :
             task[w] = d => pc[w] \in {"idle", "committed", "timeout", "ack"}
    BY <2>1 DEF DocInv, CompletedIsLast, ReapedClashes
  <2>3. PICK w \in Workers : task[w] = d /\ Live(w) /\ pc[w] # "committed"
    BY <2>2, StatusWriters
  <2>4. QED
    BY <2>2, <2>3 DEF Live
<1>2. QED
  BY <1>1, TypeCorrect, LosslessSafety, PTL DEF Spec, CompletedIsFinal

-----------------------------------------------------------------------------
(* Work runs down.                                                         *)

(* The steps a live execution takes before it is over, at most. *)
Left(w) ==
  CASE pc[w] = "start" -> 16
    [] pc[w] = "create" -> 17 - 2 * stage[w]
    [] pc[w] = "stage" -> 16 - 2 * stage[w]
    [] pc[w] = "final" -> 3
    [] pc[w] \in {"committed", "handler"} -> 2
    [] pc[w] \in {"timeout", "retry"} -> 1
    [] OTHER -> 0

(* A task is good for 17 steps, its delivery and its execution, and so is  *)
(* each retry it has left; a document has two more, its row's commit and   *)
(* its first task's publication.                                           *)
After(r) == 17 * (MaxRetries - r)
AllSteps == 17 * (MaxRetries + 1) + 2

Claims(d, n) ==
  \/ upload[d] = "none" /\ n = AllSteps
  \/ upload[d] = "stored" /\ n = AllSteps - 1
  \/ \E r \in 0..MaxRetries : queue[d][r] > 0 /\ n = After(r) + 17
  \/ \E w \in Workers : task[w] = d /\ Live(w) /\ n = After(retries[w]) + Left(w)

(* The numbers of steps that somebody may still spend on the document. *)
Work(d) == {n \in 0..AllSteps : Claims(d, n)}

(* A step that uploads or processes the document. *)
Moves(d) ==
  \/ upload'[d] # upload[d]
  \/ \E w \in Workers, r \in 0..MaxRetries : Deliver(w, d, r)
  \/ \E w \in Workers : task[w] = d /\ Live(w) /\ (Progress(w) \/ Fault(w))

Lowered(d) == Work(d) # {} /\ \A m \in Work(d), n \in Work(d)' : n < m

(* Until something is lost a document is processed in a bounded number of  *)
(* steps, whatever its stages raise and wherever the soft limit strikes:   *)
(* every step of its upload, its tasks or their executions lowers what is  *)
(* left, and no other step adds to it.                                     *)
RunsDown ==
  [][losses' = 0 =>
       \A d \in Docs : IF Moves(d) THEN Lowered(d) ELSE Work(d)' = Work(d)]_vars

LEMMA AfterType ==
  /\ MaxRetries \in Nat /\ AllSteps \in Nat
  /\ \A r \in 0..MaxRetries : After(r) \in Nat /\ After(r) + 19 <= AllSteps
  /\ \A r \in 0..MaxRetries : r < MaxRetries => After(r + 1) + 17 = After(r)
  /\ After(0) + 19 = AllSteps
BY BoundAssumption DEF After, AllSteps

LeftTypes == \A w \in Workers : Left(w) \in 0..16 /\ (Live(w) => Left(w) > 0)

LEMMA LeftType == TypeOK => LeftTypes
<1> SUFFICES ASSUME TypeOK, NEW w \in Workers
             PROVE  Left(w) \in 0..16 /\ (Live(w) => Left(w) > 0)
  BY DEF LeftTypes
<1>1. stage[w] \in 1..6 /\ pc[w] \in PCs
  BY DEF TypeOK, WorkerTypes, Stages
<1> QED BY <1>1 DEF Left, Live, PCs

(* Who has a claim says how much work is left. *)
OnlyExecution(w) == Live(w) /\ Alone(w)

NoExecution(d) == \A w \in Workers : task[w] = d => ~Live(w)

OnlyMessage(d, r) ==
  /\ upload[d] = "over" /\ NoExecution(d)
  /\ \A s \in 0..MaxRetries : queue[d][s] > 0 <=> s = r

OnlyUpload(d) ==
  /\ NoExecution(d) /\ \A s \in 0..MaxRetries : ~(queue[d][s] > 0)

LEMMA WorkOfClaims ==
  TypeOK =>
    /\ \A w \in Workers :
         OnlyExecution(w) => Work(task[w]) = {After(retries[w]) + Left(w)}
    /\ \A d \in Docs : \A r \in 0..MaxRetries : OnlyMessage(d, r) => Work(d) = {After(r) + 17}
    /\ \A d \in Docs : OnlyUpload(d) =>
         /\ upload[d] = "none" => Work(d) = {AllSteps}
         /\ upload[d] = "stored" => Work(d) = {AllSteps - 1}
         /\ upload[d] = "over" => Work(d) = {}
<1> SUFFICES ASSUME TypeOK
             PROVE  /\ \A w \in Workers :
                         OnlyExecution(w) => Work(task[w]) = {After(retries[w]) + Left(w)}
                    /\ \A d \in Docs : \A r \in 0..MaxRetries :
                         OnlyMessage(d, r) => Work(d) = {After(r) + 17}
                    /\ \A d \in Docs : OnlyUpload(d) =>
                         /\ upload[d] = "none" => Work(d) = {AllSteps}
                         /\ upload[d] = "stored" => Work(d) = {AllSteps - 1}
                         /\ upload[d] = "over" => Work(d) = {}
  OBVIOUS
<1>1. ASSUME NEW w \in Workers, OnlyExecution(w)
      PROVE  Work(task[w]) = {After(retries[w]) + Left(w)}
  <2>1. /\ After(retries[w]) + Left(w) \in 0..AllSteps
        /\ task[w] \in Docs
    BY <1>1, AfterType, LeftType DEF LeftTypes, TypeOK, WorkerTypes, OnlyExecution, Live
  <2>2. \A n : Claims(task[w], n) <=> n = After(retries[w]) + Left(w)
    <3>1. /\ upload[task[w]] = "over" /\ \A r \in 0..MaxRetries : ~(queue[task[w]][r] > 0)
          /\ \A v \in Workers : task[v] = task[w] /\ Live(v) => v = w
      BY <1>1 DEF OnlyExecution, Alone, Live
    <3> QED BY <1>1, <3>1 DEF Claims, OnlyExecution
  <2> QED BY <2>1, <2>2 DEF Work
<1>2. ASSUME NEW d \in Docs, NEW r \in 0..MaxRetries, OnlyMessage(d, r)
      PROVE  Work(d) = {After(r) + 17}
  <2>1. After(r) + 17 \in 0..AllSteps
    BY AfterType
  <2>2. \A n : Claims(d, n) <=> n = After(r) + 17
    BY <1>2 DEF Claims, OnlyMessage, NoExecution
  <2> QED BY <2>1, <2>2 DEF Work
<1>3. ASSUME NEW d \in Docs, OnlyUpload(d)
      PROVE  /\ upload[d] = "none" => Work(d) = {AllSteps}
             /\ upload[d] = "stored" => Work(d) = {AllSteps - 1}
             /\ upload[d] = "over" => Work(d) = {}
  <2>1. AllSteps \in 0..AllSteps /\ AllSteps - 1 \in 0..AllSteps
    BY AfterType, BoundAssumption DEF AllSteps
  <2>2. /\ \A w \in Workers : ~(task[w] = d /\ Live(w))
        /\ \A r \in 0..MaxRetries : ~(queue[d][r] > 0)
    BY <1>3 DEF OnlyUpload, NoExecution
  <2>3. \A n : Claims(d, n) <=> (\/ upload[d] = "none" /\ n = AllSteps
                                 \/ upload[d] = "stored" /\ n = AllSteps - 1)
    BY <2>2 DEF Claims
  <2>4. CASE upload[d] = "none"
    BY <2>1, <2>3, <2>4 DEF Work
  <2>5. CASE upload[d] = "stored"
    BY <2>1, <2>3, <2>5 DEF Work
  <2>6. CASE upload[d] = "over"
    BY <2>3, <2>6 DEF Work
  <2> QED BY <2>4, <2>5, <2>6
<1> QED BY <1>1, <1>2, <1>3

(* A document without a step of its own keeps its work. *)
LEMMA WorkFrame ==
  ASSUME NEW d \in Docs, upload'[d] = upload[d], queue'[d] = queue[d],
         \A w \in Workers :
           \/ (task[w] # d \/ ~Live(w)) /\ (task'[w] # d \/ ~Live(w)')
           \/ /\ task'[w] = task[w] /\ pc'[w] = pc[w]
              /\ stage'[w] = stage[w] /\ retries'[w] = retries[w]
  PROVE  Work(d)' = Work(d)
<1>1. ASSUME NEW w \in Workers
      PROVE  /\ (task'[w] = d /\ Live(w)') <=> (task[w] = d /\ Live(w))
             /\ task[w] = d /\ Live(w) => retries'[w] = retries[w] /\ Left(w)' = Left(w)
  BY DEF Live, Left
<1>2. \A n : Claims(d, n)' <=> Claims(d, n)
  BY <1>1 DEF Claims
<1> QED BY <1>2 DEF Work

(* An execution that goes on has fewer steps left. *)
LEMMA OwnActionLowers ==
  ASSUME TypeOK, ExtractionInv, NEW w \in Workers, OwnAction(w)
  PROVE  /\ task[w] \in Docs /\ Live(w) /\ retries' = retries
         /\ Live(w)' => Left(w)' < Left(w)
<1>1. /\ task[w] \in Docs /\ Live(w) /\ retries' = retries
      /\ \/ /\ pc[w] \in {"start", "create", "stage", "final", "committed", "handler",
                         "timeout", "retry"}
            /\ pc'[w] = "ack"
         \/ pc[w] = "start" /\ pc'[w] \in {"create", "timeout"} /\ stage'[w] = stage[w]
         \/ pc[w] = "create" /\ pc'[w] \in {"stage", "timeout"} /\ stage'[w] = stage[w]
         \/ pc[w] = "stage" /\ pc'[w] = "create" /\ stage'[w] = stage[w] + 1
         \/ /\ pc[w] = "stage" /\ pc'[w] \in {"final", "handler", "timeout", "retry"}
            /\ stage'[w] = stage[w] /\ (pc'[w] = "final" => stage[w] = 6)
         \/ pc[w] = "final" /\ pc'[w] \in {"committed", "timeout"}
         \/ pc[w] = "committed" /\ pc'[w] = "timeout"
         \/ pc[w] = "handler" /\ pc'[w] = "retry"
  BY DEF OwnAction, Start, CreateJob, ValidationDone, PlainStageDone,
     ExtractionDone, ExtractionClash, FinalRead, FinalCommit, FinalDone, MarkFailed,
     MarkTimedOut,
     GiveUp, StageRaises, SoftLimitUnloaded, SoftLimitLoaded,
     SoftLimitCommitted, SoftLimitHandler, SoftLimitBetween, SoftLimitValidation,
     SoftLimitPlain,
     SoftLimitExtraction, SoftLimitConfidence, SoftLimitFinal, SessionLost, Goto,
     NextStage, TypeOK, WorkerTypes, Live, ExtractionInv, StageOrder
<1>2. stage[w] \in 1..6
  BY DEF TypeOK, WorkerTypes, Stages
<1>4. ASSUME Live(w)'
      PROVE  Left(w)' < Left(w)
  <2>1. CASE pc[w] = "start" /\ pc'[w] \in {"create", "timeout"} /\ stage'[w] = stage[w]
    BY <1>2, <2>1 DEF Left
  <2>2. CASE pc[w] = "create" /\ pc'[w] \in {"stage", "timeout"} /\ stage'[w] = stage[w]
    BY <1>2, <2>2 DEF Left
  <2>3. CASE pc[w] = "stage" /\ pc'[w] = "create" /\ stage'[w] = stage[w] + 1
    BY <1>2, <2>3 DEF Left
  <2>4. CASE /\ pc[w] = "stage" /\ pc'[w] \in {"final", "handler", "timeout", "retry"}
             /\ stage'[w] = stage[w] /\ (pc'[w] = "final" => stage[w] = 6)
    BY <1>2, <2>4 DEF Left
  <2>5. CASE \/ pc[w] = "final" /\ pc'[w] \in {"committed", "timeout"}
             \/ pc[w] = "committed" /\ pc'[w] = "timeout"
    BY <2>5 DEF Left
  <2>6. CASE pc[w] = "handler" /\ pc'[w] = "retry"
    BY <2>6 DEF Left
  <2> QED BY <1>1, <1>4, <2>1, <2>2, <2>3, <2>4, <2>5, <2>6 DEF Live
<1> QED BY <1>1, <1>4

(* A state in which every document has one claim at most. *)
Settled == TypeOK /\ ExtractionInv /\ IdleHasNoTask /\ \A d \in Docs : DocInv(d)

(* What its claim says of the work of a document. *)
WorkKnown ==
  /\ \A w \in Workers : Live(w) => Work(task[w]) = {After(retries[w]) + Left(w)}
  /\ \A d \in Docs : \A r \in 0..MaxRetries : queue[d][r] > 0 => Work(d) = {After(r) + 17}
  /\ \A d \in Docs :
       /\ upload[d] = "none" => Work(d) = {AllSteps}
       /\ upload[d] = "stored" => Work(d) = {AllSteps - 1}
       /\ upload[d] = "over" /\ OnlyUpload(d) => Work(d) = {}

LEMMA WorkIs == Settled => WorkKnown
<1> SUFFICES ASSUME Settled PROVE WorkKnown
  OBVIOUS
<1> USE DEF Settled
<1>1. ASSUME NEW w \in Workers, Live(w)
      PROVE  OnlyExecution(w)
  <2>1. task[w] \in Docs
    BY <1>1 DEF TypeOK, WorkerTypes, Live
  <2> QED BY <1>1, <2>1, LiveIsAlone DEF OnlyExecution
<1>2. ASSUME NEW d \in Docs, NEW r \in 0..MaxRetries, queue[d][r] > 0
      PROVE  OnlyMessage(d, r)
  BY <1>2 DEF DocInv, OneClaim, OnlyMessage, NoExecution
<1>3. ASSUME NEW d \in Docs, upload[d] # "over"
      PROVE  OnlyUpload(d)
  BY <1>3 DEF DocInv, OneClaim, OnlyUpload, NoExecution
<1>4. ASSUME NEW d \in Docs
      PROVE  /\ upload[d] = "none" => Work(d) = {AllSteps}
             /\ upload[d] = "stored" => Work(d) = {AllSteps - 1}
             /\ upload[d] = "over" /\ OnlyUpload(d) => Work(d) = {}
  BY <1>3, WorkOfClaims
<1> QED BY <1>1, <1>2, <1>4, WorkOfClaims DEF WorkKnown

LEMMA Lowers ==
  ASSUME NEW d \in Docs, NEW m \in Nat, Work(d) = {m},
         Work(d)' = {} \/ \E n \in Nat : n < m /\ Work(d)' = {n}
  PROVE  Lowered(d)
BY DEF Lowered

(* The upload's commit leaves the message to be published; publishing it   *)
(* leaves the delivery and the execution.                                  *)
LEMMA UploadLowers ==
  ASSUME Settled, Settled', NEW d \in Docs, [Next]_vars, ~Lose, upload'[d] # upload[d]
  PROVE  Lowered(d)
<1>1. CommitDocument(d) \/ Enqueue(d) \/ EnqueueFails(d)
  BY DEF Settled, Next, CommitDocument, Enqueue, EnqueueUnconfirmed, EnqueueFails, ApiCrash,
     Age, Receive, Deliver, Progress, Start, CreateJob, ValidationDone, PlainStageDone,
     ExtractionDone, ExtractionClash, FinalRead, FinalCommit, FinalDone, MarkFailed,
     MarkTimedOut,
     PublishRetry, GiveUp, Ack, Fault, StageRaises, DbError, SoftLimitUnloaded,
     SoftLimitLoaded,
     SoftLimitCommitted, SoftLimitHandler, SoftLimitBetween,
     SoftLimitValidation, SoftLimitPlain, SoftLimitExtraction, SoftLimitConfidence,
     SoftLimitFinal, RetryUnconfirmed, HardLimit, WorkerCrash, ReaperQuery, ReaperCommit,
     ReaperFails, vars, brokerVars, SessionLost, TypeOK, BrokerTypes
<1>2. WorkKnown /\ WorkKnown'
  BY WorkIs, PTL
<1>3. CASE CommitDocument(d)
  <2>1. upload[d] = "none" /\ upload'[d] = "stored"
    BY <1>3 DEF CommitDocument, Settled, TypeOK, BrokerTypes
  <2>2. Work(d) = {AllSteps} /\ Work(d)' = {AllSteps - 1}
    BY <1>2, <2>1 DEF WorkKnown
  <2>3. AllSteps - 1 \in Nat /\ AllSteps - 1 < AllSteps /\ AllSteps \in Nat
    BY BoundAssumption DEF AllSteps
  <2> QED BY <2>2, <2>3, Lowers
<1>4. CASE Enqueue(d)
  <2>1. /\ upload[d] = "stored" /\ queue'[d][0] > 0 /\ 0 \in 0..MaxRetries
    BY <1>4, BoundAssumption DEF Enqueue, Publish, Settled, TypeOK, BrokerTypes
  <2>2. Work(d) = {AllSteps - 1} /\ Work(d)' = {After(0) + 17}
    BY <1>2, <2>1 DEF WorkKnown
  <2>3. After(0) + 17 \in Nat /\ After(0) + 17 < AllSteps - 1 /\ AllSteps - 1 \in Nat
    BY BoundAssumption DEF AllSteps, After
  <2> QED BY <2>2, <2>3, Lowers
<1>5. CASE EnqueueFails(d)
  <2>1. upload[d] = "stored" /\ upload'[d] = "over" /\ UNCHANGED <<queue, pc, task>>
    BY <1>5 DEF EnqueueFails, workerVars, Settled, TypeOK, BrokerTypes
  <2>2. OnlyUpload(d)'
    BY <2>1 DEF Settled, DocInv, OneClaim, OnlyUpload, NoExecution, Live
  <2>3. Work(d) = {AllSteps - 1} /\ Work(d)' = {}
    BY <1>2, <2>1, <2>2 DEF WorkKnown
  <2>4. AllSteps - 1 \in Nat
    BY BoundAssumption DEF AllSteps
  <2> QED BY <2>3, <2>4, Lowers
<1> QED BY <1>1, <1>3, <1>4, <1>5

(* Its delivery is the first of the 17 steps of a message. *)
LEMMA DeliverLowers ==
  ASSUME Settled, Settled', NEW w \in Workers, NEW d \in Docs, NEW r \in 0..MaxRetries,
         Deliver(w, d, r)
  PROVE  Lowered(d)
<1>1. WorkKnown /\ WorkKnown'
  BY WorkIs, PTL
<1>2. queue[d][r] > 0 /\ task'[w] = d /\ pc'[w] = "start" /\ retries'[w] = r
  BY DEF Deliver, Settled, TypeOK, WorkerTypes
<1>3. Live(w)' /\ Left(w)' = 16
  BY <1>2 DEF Live, Left
<1>4. Work(d) = {After(r) + 17} /\ Work(d)' = {After(r) + 16}
  BY <1>1, <1>2, <1>3 DEF WorkKnown, After
<1>5. After(r) \in Nat
  BY AfterType
<1>6. After(r) + 16 \in Nat /\ After(r) + 17 \in Nat /\ After(r) + 16 < After(r) + 17
  BY <1>5
<1> QED BY <1>4, <1>6, Lowers

(* An execution goes on, comes to its end or leaves a message for the next *)
(* one, which has one retry less.                                          *)
LEMMA ExecutionLowers ==
  ASSUME Settled, Settled', NEW w \in Workers, NEW d \in Docs, task[w] = d,
         Progress(w) \/ Fault(w), ~Lose, Live(w)
  PROVE  Lowered(d)
<1>1. WorkKnown /\ WorkKnown'
  BY WorkIs, PTL
<1>2. retries[w] \in 0..MaxRetries
  BY DEF Settled, TypeOK, WorkerTypes, Live
<1>3. Alone(w) /\ OwnInv(w)
  BY <1>2, LiveIsAlone DEF Settled
<1>4. After(retries[w]) \in Nat /\ Left(w) \in Nat /\ Left(w) > 0
  BY <1>2, AfterType, LeftType DEF LeftTypes, Settled
<1>5. Work(d) = {After(retries[w]) + Left(w)}
  BY <1>1 DEF WorkKnown
<1>6. CASE OwnAction(w)
  <2>1. OwnStep(w)
    BY <1>3, <1>6, OwnActionSteps DEF Settled
  <2>2. retries' = retries /\ task'[w] = d /\ (Live(w)' => Left(w)' < Left(w))
    BY <1>6, <2>1, OwnActionLowers DEF Settled, OwnStep
  <2>3. CASE Live(w)'
    <3>1. Left(w)' \in Nat
      <4>1. LeftTypes'
        BY LeftType, PTL DEF Settled
      <4> QED BY <4>1 DEF LeftTypes
    <3>2. Work(d)' = {After(retries[w]) + Left(w)'}
      BY <1>1, <2>2, <2>3 DEF WorkKnown, After
    <3>3. /\ After(retries[w]) + Left(w)' < After(retries[w]) + Left(w)
          /\ After(retries[w]) + Left(w)' \in Nat
          /\ After(retries[w]) + Left(w) \in Nat
      BY <1>4, <2>2, <2>3, <3>1
    <3> QED BY <1>2, <1>5, <3>2, <3>3, Lowers
  <2>4. CASE ~Live(w)'
    <3>1. \A v \in Workers : task'[v] = d => ~Live(v)'
      BY <1>3, <2>1, <2>4 DEF Alone, OwnStep, Live
    <3>2. upload'[d] = "over" /\ \A r \in 0..MaxRetries : queue'[d][r] = 0
      BY <1>3, <2>1 DEF Alone, OwnStep
    <3>3. OnlyUpload(d)'
      BY <2>2, <3>1, <3>2 DEF OnlyUpload, NoExecution
    <3>4. Work(d)' = {}
      BY <1>1, <1>2, <3>2, <3>3 DEF WorkKnown
    <3>5. After(retries[w]) + Left(w) \in Nat
      BY <1>4
    <3> QED BY <1>2, <1>5, <3>4, <3>5, Lowers
  <2> QED BY <2>3, <2>4
<1>7. CASE PublishRetry(w)
  <2>1. retries[w] + 1 \in 0..MaxRetries /\ queue'[d][retries[w] + 1] > 0
    BY <1>2, <1>7, BoundAssumption DEF PublishRetry, Publish, Settled, TypeOK, BrokerTypes
  <2>2. Work(d)' = {After(retries[w] + 1) + 17}
    BY <1>1, <1>2, <2>1 DEF WorkKnown, After
  <2>3. After(retries[w] + 1) + 17 = After(retries[w])
    BY <1>2, <2>1, BoundAssumption DEF After
  <2>4. /\ After(retries[w]) < After(retries[w]) + Left(w)
        /\ After(retries[w]) + Left(w) \in Nat
    BY <1>4
  <2> QED BY <1>2, <1>4, <1>5, <2>2, <2>3, <2>4, Lowers
<1>8. OwnAction(w) \/ PublishRetry(w)
  BY DEF Progress, Fault, OwnAction, Ack, Live, DbError, RetryUnconfirmed,
     SoftLimitHandler, HardLimit, WorkerCrash
<1> QED BY <1>6, <1>7, <1>8

(* Every other step leaves the work of the document alone. *)
LEMMA OthersKeepWork ==
  ASSUME Settled, NEW d \in Docs, [Next]_vars, ~Lose, ~ReaperFails, ~Moves(d)
  PROVE  Work(d)' = Work(d)
<1> USE DEF Settled, TypeOK, WorkerTypes, BrokerTypes, brokerVars, workerVars
<1>1. upload'[d] = upload[d]
  BY DEF Moves
<1>2. ASSUME NEW w \in Workers, Progress(w) \/ Fault(w)
      PROVE  Work(d)' = Work(d)
  <2>1. ~(task[w] = d /\ Live(w))
    BY <1>2 DEF Moves
  <2>2. /\ queue'[d] = queue[d]
        /\ task'[w] # d \/ ~Live(w)'
        /\ \A v \in Workers \ {w} : /\ task'[v] = task[v] /\ pc'[v] = pc[v]
                                    /\ stage'[v] = stage[v] /\ retries'[v] = retries[v]
    <3>1. CASE Ack(w)
      BY <2>1, <3>1 DEF Ack, Vanish, Live
    <3>2. CASE PublishRetry(w)
      BY <2>1, <3>2 DEF PublishRetry, Publish, Goto, Live
    <3>3. CASE OwnAction(w)
      <4>1. Live(w) /\ task[w] \in Docs
        BY <3>3, OwnActionLowers
      <4>2. OwnStep(w)
        BY <3>3, <4>1, LiveIsAlone, OwnActionSteps
      <4>3. \A v \in Workers : retries'[v] = retries[v]
        BY <3>3, OwnActionLowers
      <4> QED BY <2>1, <4>1, <4>2, <4>3 DEF OwnStep
    <3> QED BY <1>2, <3>1, <3>2, <3>3 DEF Progress, Fault, OwnAction, DbError,
              RetryUnconfirmed, SoftLimitHandler, HardLimit, WorkerCrash
  <2> QED BY <1>1, <2>1, <2>2, WorkFrame
<1>3. ASSUME NEW w \in Workers, NEW e \in Docs, NEW r \in 0..MaxRetries, Deliver(w, e, r)
      PROVE  Work(d)' = Work(d)
  <2>1. e # d
    BY <1>3 DEF Moves
  <2>2. /\ queue'[d] = queue[d] /\ ~Live(w) /\ task'[w] # d
        /\ \A v \in Workers \ {w} : /\ task'[v] = task[v] /\ pc'[v] = pc[v]
                                    /\ stage'[v] = stage[v] /\ retries'[v] = retries[v]
    BY <1>3, <2>1 DEF Deliver, Live
  <2> QED BY <1>1, <2>2, WorkFrame
<1>4. CASE ~Receive /\ ~\E w \in Workers : Progress(w) \/ Fault(w)
  <2>1. queue'[d] = queue[d] /\ UNCHANGED workerVars
    BY <1>1, <1>4 DEF Next, CommitDocument, Enqueue, EnqueueUnconfirmed, EnqueueFails,
       ApiCrash, Age, Publish, ReaperQuery, ReaperCommit, vars
  <2> QED BY <1>1, <2>1, WorkFrame
<1> QED BY <1>2, <1>3, <1>4 DEF Receive

(* Until something is lost no document is processed without end: every     *)
(* step of its upload, its task or its executions leaves fewer steps, of   *)
(* at most 17 for each of its MaxRetries + 1 tasks and two for its upload, *)
(* and no other step adds to them.                                         *)
THEOREM TasksRunDown == Spec => RunsDown
<1>1. TypeOK /\ ExtractionInv /\ IdleHasNoTask /\ LosslessInv
        /\ (TypeOK /\ ExtractionInv /\ IdleHasNoTask /\ LosslessInv)' /\ [Next]_vars =>
        [losses' = 0 =>
           \A d \in Docs : IF Moves(d) THEN Lowered(d) ELSE Work(d)' = Work(d)]_vars
  <2> SUFFICES ASSUME TypeOK, ExtractionInv, IdleHasNoTask, LosslessInv,
                      (TypeOK /\ ExtractionInv /\ IdleHasNoTask /\ LosslessInv)',
                      [Next]_vars, losses' = 0, NEW d \in Docs
               PROVE  IF Moves(d) THEN Lowered(d) ELSE Work(d)' = Work(d)
    OBVIOUS
  <2>1. losses = 0 /\ ~Lose /\ ~ReaperFails
    BY NoLoss
  <2>2. Settled /\ Settled'
    BY <2>1 DEF Settled, LosslessInv
  <2>3. CASE Moves(d)
    BY <2>1, <2>2, <2>3, UploadLowers, DeliverLowers, ExecutionLowers DEF Moves
  <2>4. CASE ~Moves(d)
    BY <2>1, <2>2, <2>4, OthersKeepWork
  <2> QED BY <2>3, <2>4
<1>2. QED
  BY <1>1, TypeCorrect, ExtractionSafety, LosslessSafety, PTL DEF Spec, RunsDown
=============================================================================

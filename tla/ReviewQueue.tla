---------------------------- MODULE ReviewQueue ----------------------------
(***************************************************************************)
(* The rows that readers see and how they come about: documents, the       *)
(* questions stage 6 inserts with their answers, and the review items that *)
(* stage 1 makes for the quality warnings of a document and stage 6 for    *)
(* each flagged question.  Reviewers resolve items while the pipeline adds *)
(* others.                                                                 *)
(*                                                                         *)
(* A document has one execution at a time here and is within the page      *)
(* limit; overlapping executions and the other statuses are in Pipeline.   *)
(* What is split up instead is stage 6: a question is flushed, its answer  *)
(* and its item go to the session after it, and created_at is taken at the *)
(* flush and not at the commit.                                            *)
(***************************************************************************)
EXTENDS Naturals, Sequences

CONSTANTS
  Docs,          \* documents
  Users,
  Owner,         \* documents.owner_id
  Warned,        \* documents with a quality warning
  NumQuestions,  \* questions stage 4 finds in a document
  Flagged,       \* questions below the threshold of acceptance
  MaxAttempts,   \* bound on the executions of each document
  Clients        \* each sends one request at a time

Questions == UNION {{d} \X (1..NumQuestions[d]) : d \in Docs}

ASSUME OwnerAssumption == Owner \in [Docs -> Users]
ASSUME WarnedAssumption == Warned \subseteq Docs
ASSUME SizeAssumption == NumQuestions \in [Docs -> Nat] /\ MaxAttempts \in [Docs -> Nat]
ASSUME FlaggedAssumption == Flagged \subseteq Questions

(* A row of review_items.  n tells the items of one document apart: the    *)
(* question it is about, or the execution that made it.                    *)
Item(d, entity, n) == [doc |-> d, entity |-> entity, n |-> n]
Items == [doc : Docs, entity : {"DOCUMENT", "QUESTION"}, n : Nat]

VARIABLES
  status,    \* documents.status, "none" before the row exists
  pc,        \* what the document's execution does next
  attempt,   \* executions started
  paged,     \* documents whose page rows exist
  drafted,   \* question rows flushed by the running stage 6
  asked,     \* committed question rows
  answered,  \* committed answer rows
  docLog,    \* documents in the order of created_at
  itemLog,   \* flushed review items in the order of created_at
  visible,   \* committed review items
  resolved,  \* items with the column resolved set
  req        \* the PATCH request of each client

runVars == <<pc, attempt, paged, drafted>>
tableVars == <<status, asked, answered, docLog>>
itemVars == <<itemLog, visible, resolved>>
vars == <<runVars, tableVars, itemVars, req>>

NoRequest == [pc |-> "idle"]
RequestStates ==
  {NoRequest} \cup
  [pc : {"loaded", "committed"}, item : Items, want : BOOLEAN,
   old : BOOLEAN, raced : BOOLEAN]

RunTypes ==
  /\ status \in [Docs -> {"none", "QUEUED", "PROCESSING", "COMPLETED", "FAILED"}]
  /\ pc \in [Docs -> {"none", "waiting", "validating", "extracting",
                      "scoring", "failing", "timeout", "over"}]
  /\ attempt \in [Docs -> Nat] /\ \A d \in Docs : attempt[d] <= MaxAttempts[d]
  /\ paged \in SUBSET Docs
  /\ drafted \in [Docs -> Nat] /\ \A d \in Docs : drafted[d] <= NumQuestions[d]
  /\ asked \in [Docs -> Nat] /\ answered \in [Docs -> Nat]
  /\ docLog \in Seq(Docs)

Logged(i) == \E j \in DOMAIN itemLog : itemLog[j] = i

ItemTypes ==
  /\ itemLog \in Seq(Items)
  /\ \A i, j \in DOMAIN itemLog : itemLog[i] = itemLog[j] => i = j
  /\ \A i \in visible : Logged(i)
  /\ resolved \subseteq visible

(* The types of the variables; an item is made once, and only what was     *)
(* flushed can be visible.                                                 *)
TypeOK == RunTypes /\ ItemTypes /\ req \in [Clients -> RequestStates]

Init ==
  /\ status = [d \in Docs |-> "none"]
  /\ pc = [d \in Docs |-> "none"]
  /\ attempt = [d \in Docs |-> 0]
  /\ paged = {}
  /\ drafted = [d \in Docs |-> 0]
  /\ asked = [d \in Docs |-> 0]
  /\ answered = [d \in Docs |-> 0]
  /\ docLog = <<>>
  /\ itemLog = <<>>
  /\ visible = {}
  /\ resolved = {}
  /\ req = [c \in Clients |-> NoRequest]

-----------------------------------------------------------------------------
(* The pipeline.                                                           *)

Goto(d, label) == pc' = [pc EXCEPT ![d] = label]

(* A message for d is in the queue again, as often as the model allows. *)
Again(d) == IF attempt[d] < MaxAttempts[d] THEN "waiting" ELSE "over"

Upload(d) ==
  /\ status[d] = "none"
  /\ status' = [status EXCEPT ![d] = "QUEUED"]
  /\ docLog' = Append(docLog, d)
  /\ Goto(d, "waiting")
  /\ UNCHANGED <<attempt, paged, drafted, asked, answered, itemVars, req>>

Start(d) ==
  /\ pc[d] = "waiting" /\ attempt[d] < MaxAttempts[d]
  /\ status' = [status EXCEPT ![d] = "PROCESSING"]
  /\ attempt' = [attempt EXCEPT ![d] = @ + 1]
  /\ Goto(d, "validating")
  /\ UNCHANGED <<paged, drafted, asked, answered, docLog, itemVars, req>>

(* _create_review_item, and the flush that gives the item its created_at. *)
File(i) == itemLog' = Append(itemLog, i)

(* Stage 1: every execution makes the items of the warnings again. *)
Validate(d) ==
  /\ pc[d] = "validating"
  /\ IF d \in Warned
       THEN LET i == Item(d, "DOCUMENT", attempt[d]) IN
            File(i) /\ visible' = visible \cup {i}
       ELSE UNCHANGED <<itemLog, visible>>
  /\ Goto(d, "extracting")
  /\ UNCHANGED <<attempt, paged, drafted, tableVars, resolved, req>>

(* Stages 2 to 5, of which only the page rows leave a trace. *)
Extract(d) ==
  /\ pc[d] = "extracting" /\ d \notin paged
  /\ paged' = paged \cup {d}
  /\ Goto(d, "scoring")
  /\ UNCHANGED <<attempt, drafted, tableVars, itemVars, req>>

(* The pages of an earlier execution are in the way: the session is lost,  *)
(* the handler cannot write FAILED, and the task is retried.               *)
ExtractionClash(d) ==
  /\ pc[d] = "extracting" /\ d \in paged
  /\ Goto(d, Again(d))
  /\ UNCHANGED <<attempt, paged, drafted, tableVars, itemVars, req>>

(* The item of the question flushed last is in the session, not flushed.   *)
Pending(d) == <<d, drafted[d]>> \in Flagged

FilePending(d, due) ==
  IF due THEN File(Item(d, "QUESTION", drafted[d])) ELSE UNCHANGED itemLog

(* Mutant: one question too many. *)
Mut_DraftOneMore(d) ==
  /\ pc[d] = "scoring" /\ drafted[d] <= NumQuestions[d]
  /\ FilePending(d, Pending(d))
  /\ drafted' = [drafted EXCEPT ![d] = @ + 1]
  /\ UNCHANGED <<pc, attempt, paged, tableVars, visible, resolved, req>>

(* db.flush() of the next question takes the previous one's item along. *)
Draft(d) ==
  /\ pc[d] = "scoring" /\ drafted[d] < NumQuestions[d]
  /\ FilePending(d, Pending(d))
  /\ drafted' = [drafted EXCEPT ![d] = @ + 1]
  /\ UNCHANGED <<pc, attempt, paged, tableVars, visible, resolved, req>>

Filed(d, log) ==
  {log[j] : j \in {k \in DOMAIN log : log[k].doc = d /\ log[k].entity = "QUESTION"}}

(* The commit of stage 6 when q questions and a answers are in the session *)
(* and, if due, the last question's item.                                  *)
CommitDrafts(d, q, a, due) ==
  /\ FilePending(d, due)
  /\ visible' = visible \cup Filed(d, itemLog')
  /\ asked' = [asked EXCEPT ![d] = @ + q]
  /\ answered' = [answered EXCEPT ![d] = @ + a]
  /\ drafted' = [drafted EXCEPT ![d] = 0]
  /\ UNCHANGED <<attempt, paged, docLog, resolved, req>>

Complete(d) ==
  /\ pc[d] = "scoring" /\ drafted[d] = NumQuestions[d]
  /\ CommitDrafts(d, drafted[d], drafted[d], Pending(d))
  /\ status' = [status EXCEPT ![d] = "COMPLETED"]
  /\ Goto(d, "over")

(* Mutant: the item is made before the answer. *)
Mut_SoftLimitItemFirst(d) ==
  /\ pc[d] = "scoring"
  /\ \/ CommitDrafts(d, drafted[d], drafted[d], Pending(d))
     \/ /\ drafted[d] > 0
        /\ \E due \in {FALSE, Pending(d)} :
             CommitDrafts(d, drafted[d], drafted[d] - 1, due)
  /\ Goto(d, "timeout")
  /\ UNCHANGED status

(* The soft limit strikes in stage 6 and _fail_job commits what is in the  *)
(* session: the last question may lack its item, or its answer as well.    *)
(* (What it does to the other stages is in Pipeline.)                      *)
SoftLimit(d) ==
  /\ pc[d] = "scoring"
  /\ \/ \E due \in {FALSE, Pending(d)} :
          CommitDrafts(d, drafted[d], drafted[d], due)
     \/ drafted[d] > 0 /\ CommitDrafts(d, drafted[d], drafted[d] - 1, FALSE)
  /\ Goto(d, "timeout")
  /\ UNCHANGED status

(* A stage raises before it has put anything in the session. *)
Raise(d) ==
  /\ pc[d] \in {"validating", "extracting", "scoring"} /\ drafted[d] = 0
  /\ Goto(d, "failing")
  /\ UNCHANGED <<attempt, paged, drafted, tableVars, itemVars, req>>

(* The outer handlers; only the one for exceptions retries. *)
MarkFailed(d) ==
  /\ pc[d] \in {"failing", "timeout"}
  /\ status' = [status EXCEPT ![d] = "FAILED"]
  /\ Goto(d, IF pc[d] = "failing" THEN Again(d) ELSE "over")
  /\ UNCHANGED <<attempt, paged, drafted, asked, answered, docLog, itemVars, req>>

(* The process or its session is lost with what was not committed, and the *)
(* task is delivered again or not.  The items it had flushed keep their    *)
(* place in the log, where nobody sees them.                               *)
Lost(d) ==
  /\ pc[d] \in {"validating", "extracting", "scoring", "failing", "timeout"}
  /\ drafted' = [drafted EXCEPT ![d] = 0]
  /\ \E next \in {Again(d), "over"} : Goto(d, next)
  /\ UNCHANGED <<attempt, paged, tableVars, itemVars, req>>

Reap(d) ==
  /\ status[d] = "PROCESSING" /\ pc[d] \in {"waiting", "over"}
  /\ status' = [status EXCEPT ![d] = "FAILED"]
  /\ UNCHANGED <<runVars, asked, answered, docLog, itemVars, req>>

-----------------------------------------------------------------------------
(* resolve_review_item.                                                    *)

(* The handler loads the item and checks who owns its document; anybody    *)
(* else gets the answer that there is no such item.                        *)
LoadItem(c) ==
  /\ req[c].pc = "idle"
  /\ \E i \in visible, user \in Users, want \in BOOLEAN :
       /\ Owner[i.doc] = user
       /\ req' = [req EXCEPT ![c] =
                    [pc |-> "loaded", item |-> i, want |-> want,
                     old |-> i \in resolved, raced |-> FALSE]]
  /\ UNCHANGED <<runVars, tableVars, itemVars>>

Under(c, i) == req[c].pc # "idle" /\ req[c].item = i

(* Mutant: the body's value is not looked at. *)
Mut_WrittenAlways(rec) == resolved \cup {rec.item}

(* An attribute that is set to the value loaded is not written. *)
Written(rec) ==
  IF rec.want = rec.old THEN resolved
  ELSE IF rec.want THEN resolved \cup {rec.item}
  ELSE resolved \ {rec.item}

(* The commit; `raced` is history: another request for the item committed  *)
(* while this one was under way.                                           *)
CommitItem(c) ==
  /\ req[c].pc = "loaded"
  /\ resolved' = Written(req[c])
  /\ req' = [s \in Clients |->
               IF s = c THEN [req[c] EXCEPT !.pc = "committed"]
               ELSE IF Under(s, req[c].item) THEN [req[s] EXCEPT !.raced = TRUE]
               ELSE req[s]]
  /\ UNCHANGED <<runVars, tableVars, itemLog, visible>>

(* The row is read again: what it says now is the response. *)
Respond(c) ==
  /\ req[c].pc = "committed"
  /\ req' = [req EXCEPT ![c] = NoRequest]
  /\ UNCHANGED <<runVars, tableVars, itemVars>>

-----------------------------------------------------------------------------
(* What the two question endpoints find; anything else is answered 404.    *)

GetQuestion(q, user) == q[2] \in 1..asked[q[1]] /\ Owner[q[1]] = user

GetQuestionAnswer(q, user) == GetQuestion(q, user) /\ q[2] <= answered[q[1]]

-----------------------------------------------------------------------------
Process(d) ==
  \/ Upload(d) \/ Start(d) \/ Validate(d) \/ Extract(d) \/ ExtractionClash(d)
  \/ Draft(d) \/ Complete(d)
  \/ SoftLimit(d) \/ Raise(d) \/ MarkFailed(d) \/ Lost(d) \/ Reap(d)

Next ==
  \/ \E d \in Docs : Process(d)
  \/ \E c \in Clients : LoadItem(c) \/ CommitItem(c) \/ Respond(c)

Spec == Init /\ [][Next]_vars

-----------------------------------------------------------------------------
(* Properties.                                                             *)

(* Whoever follows an item of the review queue to its question finds a     *)
(* flagged question and its answer row, also in a document that a soft     *)
(* limit has left half finished.                                           *)
ItemsLeadSomewhere ==
  \A i \in visible : i.entity = "QUESTION" =>
    LET q == <<i.doc, i.n>> IN
    q \in Flagged /\ GetQuestionAnswer(q, Owner[i.doc])

(* A COMPLETED document has an item for each of its flagged questions,     *)
(* however often it was tried.                                             *)
FlaggedAreQueued ==
  \A q \in Flagged :
    status[q[1]] = "COMPLETED" => Item(q[1], "QUESTION", q[2]) \in visible

(* The review queue and the questions agree. *)
QueueMatchesQuestions == ItemsLeadSomewhere /\ FlaggedAreQueued

(* The response to a reviewer says what was asked for, unless another      *)
(* request for the same item has committed in between: then the attribute  *)
(* may not have been written at all.                                       *)
ResolvedAsAsked ==
  \A c \in Clients :
    req[c].pc = "committed" /\ ~req[c].raced =>
      (req[c].want <=> req[c].item \in resolved)
=============================================================================

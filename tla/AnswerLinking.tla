---------------------------- MODULE AnswerLinking ----------------------------
(***************************************************************************)
(* Answer keys of one question paper.  A user links key documents to the   *)
(* paper while the documents are being processed; the paper's own pipeline *)
(* reads the links in stage 5, and a link made between two processed       *)
(* documents starts process_answer_key_linking, which matches again.       *)
(*                                                                         *)
(* Sources of answers (the paper's pipeline and one relink task per link   *)
(* request) run concurrently.  Each reads the links, then the pages of the *)
(* linked keys, then writes answer rows; every read and every commit is a  *)
(* step of its own.                                                        *)
(***************************************************************************)
EXTENDS Naturals, FiniteSets

CONSTANTS
  Keys,          \* answer key documents
  Questions,     \* questions of the paper
  Requests,      \* link requests
  Pipeline,      \* the stage 5 and 6 of the paper's pipeline
  None,          \* no answer from a linked document
  LinkFaults,    \* {"enqueue", "fail", "redeliver"} or a part of it
  MaxRedeliveries  \* bound on redeliveries of relink tasks

ASSUME KeysAssumption == None \notin Keys
ASSUME SourceAssumption == Pipeline \notin Requests
ASSUME LinkBoundAssumption == MaxRedeliveries \in Nat

Sources == Requests \cup {Pipeline}

VARIABLES
  paper,         \* documents.status of the paper
  keyStatus,     \* documents.status of each key
  pages,         \* the committed page rows of each key: none, or with text or blank
  links,         \* links[k]: number of ANSWER_KEY_FOR rows from the paper to k
  target,        \* the key a request links
  pc,            \* what a source does next
  wanted,        \* keys whose link a source has read
  found,         \* keys whose text a source has read
  loaded,        \* answer rows as a relink task's session loaded them
  answer,        \* answer[q]: the key the answer row of q comes from
  searched,      \* history: keys in whose texts committed answers were searched
  redeliveries

linkVars == <<links, target>>
docVars == <<paper, keyStatus, pages>>
workVars == <<wanted, found, loaded>>
answerVars == <<answer, searched>>
vars == <<docVars, linkVars, pc, workVars, answerVars, redeliveries>>

DocStatus == {"PROCESSING", "PARTIAL", "COMPLETED", "FAILED"}

RequestPCs == {"new", "checked", "linked", "queued", "texts", "rows", "commit",
               "refused", "over", "lost"}
PipelinePCs == {"queued", "texts", "commit", "over"}

Provenance == Keys \cup {None}

TypeOK ==
  /\ paper \in DocStatus
  /\ keyStatus \in [Keys -> DocStatus]
  /\ pages \in [Keys -> {"none", "blank", "text"}]
  /\ links \in [Keys -> Nat]
  /\ target \in [Requests -> Keys]
  /\ pc \in [Sources -> RequestPCs]
  /\ pc[Pipeline] \in PipelinePCs
  /\ wanted \in [Sources -> SUBSET Keys]
  /\ found \in [Sources -> SUBSET Keys]
  /\ loaded \in [Requests -> [Questions -> Provenance]]
  /\ answer \in [Questions -> Provenance]
  /\ searched \in SUBSET Keys
  /\ redeliveries \in Nat

NoAnswers == [q \in Questions |-> None]

(* All documents are under way; those with too many pages already say so.  *)
Init ==
  /\ paper \in {"PROCESSING", "PARTIAL"}
  /\ keyStatus \in [Keys -> {"PROCESSING", "PARTIAL"}]
  /\ pages = [k \in Keys |-> "none"]
  /\ links = [k \in Keys |-> 0]
  /\ target \in [Requests -> Keys]
  /\ pc = [s \in Sources |-> IF s = Pipeline THEN "queued" ELSE "new"]
  /\ wanted = [s \in Sources |-> {}]
  /\ found = [s \in Sources |-> {}]
  /\ loaded = [r \in Requests |-> NoAnswers]
  /\ answer = NoAnswers
  /\ searched = {}
  /\ redeliveries = 0

Step(s, from, to) == pc[s] = from /\ pc' = [pc EXCEPT ![s] = to]

-----------------------------------------------------------------------------
(* The keys' own pipelines: stage 3 commits the pages, stage 6 the status. *)
(* The pages of a key may all be blank, for want of a text or of OCR.      *)

CommitKeyPages(k) ==
  /\ pages[k] = "none" /\ keyStatus[k] \in {"PROCESSING", "PARTIAL"}
  /\ \E p \in {"blank", "text"} : pages' = [pages EXCEPT ![k] = p]
  /\ UNCHANGED <<paper, keyStatus, linkVars, pc, workVars, answerVars, redeliveries>>

FinishKey(k) ==
  /\ keyStatus[k] = "PROCESSING"
  /\ \E s \in {"COMPLETED", "FAILED"} :
       /\ s = "COMPLETED" => pages[k] # "none"
       /\ keyStatus' = [keyStatus EXCEPT ![k] = s]
  /\ UNCHANGED <<paper, pages, linkVars, pc, workVars, answerVars, redeliveries>>

-----------------------------------------------------------------------------
(* What every source does: get_linked_document_text, then the matching.    *)

Linked == {k \in Keys : links[k] > 0}


ReadLinks(s) ==
  /\ Step(s, "queued", "texts")
  /\ wanted' = [wanted EXCEPT ![s] = Linked]
  /\ UNCHANGED <<docVars, linkVars, found, loaded, answerVars, redeliveries>>

HaveText == {k \in Keys : pages[k] = "text"}

(* Mutant: the page query is not restricted to the linked documents. *)
Mut_TextsOfAll(s) == HaveText

(* A key without page rows, or with blank ones, contributes nothing. *)
TextsOf(s) == wanted[s] \cap HaveText

(* Mutant: the paper's pipeline gives up like a relink task does. *)
Mut_ReadTextsAlike(s) ==
  /\ Step(s, "texts", IF TextsOf(s) = {} THEN "over" ELSE "rows")
  /\ found' = [found EXCEPT ![s] = TextsOf(s)]
  /\ UNCHANGED <<docVars, linkVars, wanted, loaded, answerVars, redeliveries>>

(* Without any text a relink task returns.  The paper's pipeline goes on.  *)
ReadTexts(s) ==
  /\ IF s = Pipeline THEN Step(s, "texts", "commit")
     ELSE Step(s, "texts", IF TextsOf(s) = {} THEN "over" ELSE "rows")
  /\ found' = [found EXCEPT ![s] = TextsOf(s)]
  /\ UNCHANGED <<docVars, linkVars, wanted, loaded, answerVars, redeliveries>>

(* Stage 5 searches the texts of K as one text, in no particular order:    *)
(* one pattern for all of them, from the first header on, and answers left *)
(* over go to questions by their position.  So any question may get an     *)
(* answer from any key of K, and none of them need get one.                *)
Matches(K) == [Questions -> K \cup {None}]

(* Stage 6 of the paper inserts the answer rows; the status PARTIAL stays. *)
FinishPaper ==
  /\ Step(Pipeline, "commit", "over")
  /\ answer' \in Matches(found[Pipeline])
  /\ searched' = searched \cup found[Pipeline]
  /\ paper' = IF paper = "PARTIAL" THEN "PARTIAL" ELSE "COMPLETED"
  /\ UNCHANGED <<keyStatus, pages, linkVars, workVars, redeliveries>>

FailPaper ==
  /\ pc[Pipeline] # "over"
  /\ pc' = [pc EXCEPT ![Pipeline] = "over"]
  /\ paper' = "FAILED"
  /\ UNCHANGED <<keyStatus, pages, linkVars, workVars, answerVars, redeliveries>>

(* A relink task loads the answer rows ...                                 *)
LoadRows(r) ==
  /\ Step(r, "rows", "commit")
  /\ loaded' = [loaded EXCEPT ![r] = answer]
  /\ UNCHANGED <<docVars, linkVars, wanted, found, answerVars, redeliveries>>

(* Mutant: a question without a match has its row cleared. *)
Mut_Overwritten(r, m, q) == m[q] # loaded[r][q]

(* ... and updates those it has a match for whose value it changes.        *)
Overwritten(r, m, q) == m[q] # None /\ m[q] # loaded[r][q]

CommitRows(r) ==
  /\ Step(r, "commit", "over")
  /\ \E m \in Matches(found[r]) :
       answer' = [q \in Questions |-> IF Overwritten(r, m, q) THEN m[q] ELSE answer[q]]
  /\ searched' = searched \cup found[r]
  /\ UNCHANGED <<docVars, linkVars, workVars, redeliveries>>

-----------------------------------------------------------------------------
(* The link request.                                                       *)

CheckLink(r) ==
  /\ Step(r, "new", IF target[r] \in Linked THEN "refused" ELSE "checked")
  /\ UNCHANGED <<docVars, linkVars, workVars, answerVars, redeliveries>>

(* Mutant: no unique constraint stands behind the check. *)
Mut_LinkUnique(k) == TRUE

(* uq_document_link: the insert of a row that exists raises. *)
LinkUnique(k) == links[k] = 0

InsertLink(r) ==
  LET k == target[r] IN
  /\ Step(r, "checked", IF LinkUnique(k) THEN "linked" ELSE "refused")
  /\ links' = IF LinkUnique(k) THEN [links EXCEPT ![k] = @ + 1] ELSE links
  /\ UNCHANGED <<docVars, target, workVars, answerVars, redeliveries>>

(* Mutant: only the paper's status is looked at. *)
Mut_BothProcessed(k) == paper = "COMPLETED"

BothProcessed(k) == paper = "COMPLETED" /\ keyStatus[k] = "COMPLETED"

(* The statuses are read again after the commit; the failure to publish is *)
(* only logged.                                                            *)
Trigger(r) ==
  /\ \/ Step(r, "linked", IF BothProcessed(target[r]) THEN "queued" ELSE "over")
     \/ /\ "enqueue" \in LinkFaults /\ BothProcessed(target[r])
        /\ Step(r, "linked", "lost")
  /\ UNCHANGED <<docVars, linkVars, workVars, answerVars, redeliveries>>

(* The task's exception (a time limit, the database) is caught and logged, *)
(* and a lost child process is acknowledged: nothing is committed.         *)
RelinkFails(r) ==
  /\ "fail" \in LinkFaults /\ pc[r] \in {"queued", "texts", "rows", "commit"}
  /\ pc' = [pc EXCEPT ![r] = "lost"]
  /\ UNCHANGED <<docVars, linkVars, workVars, answerVars, redeliveries>>

(* With acks_late the task of a worker that goes away is delivered again,  *)
(* also when it had committed but not acknowledged.                        *)
RelinkRedelivered(r) ==
  /\ "redeliver" \in LinkFaults /\ redeliveries < MaxRedeliveries
  /\ pc[r] \in {"texts", "rows", "commit"} \/ (pc[r] = "over" /\ found[r] # {})
  /\ pc' = [pc EXCEPT ![r] = "queued"]
  /\ redeliveries' = redeliveries + 1
  /\ UNCHANGED <<docVars, linkVars, workVars, answerVars>>

-----------------------------------------------------------------------------
Relink(r) == ReadLinks(r) \/ ReadTexts(r) \/ LoadRows(r) \/ CommitRows(r)

LinkRequest(r) == CheckLink(r) \/ InsertLink(r) \/ Trigger(r)

PaperStages == ReadLinks(Pipeline) \/ ReadTexts(Pipeline) \/ FinishPaper

Next ==
  \/ \E k \in Keys : CommitKeyPages(k) \/ FinishKey(k)
  \/ PaperStages \/ FailPaper
  \/ \E r \in Requests : LinkRequest(r) \/ Relink(r) \/ RelinkFails(r) \/ RelinkRedelivered(r)

Spec == Init /\ [][Next]_vars

(* The API finishes a request whose link it has inserted, the workers take *)
(* relink tasks and the paper's pipeline comes to an end.                  *)
FairSpec ==
  /\ Spec
  /\ WF_vars(PaperStages)
  /\ \A r \in Requests : WF_vars(Trigger(r)) /\ WF_vars(Relink(r))

-----------------------------------------------------------------------------
(* Properties.                                                             *)

(* An answer shown for a question was read from pages of a key that is     *)
(* linked to the paper and whose texts a committed run has searched,       *)
(* whatever pipelines, relink tasks and redeliveries race.                 *)
AnswersOfLinks ==
  /\ \A q \in Questions : answer[q] # None => answer[q] \in searched
  /\ searched \subseteq Linked \cap HaveText

(* Of several requests for one link, however they interleave, at most one  *)
(* is told that it has created it.                                         *)
LinkedOnce ==
  \A r1, r2 \in Requests :
    /\ target[r1] = target[r2]
    /\ {pc[r1], pc[r2]} \cap {"new", "checked", "refused"} = {}
    => r1 = r2

(* No relink, not even one that has read an older set of links or older    *)
(* rows, turns a linked answer back into none.                             *)
NeverTakenBack ==
  [][\A q \in Questions : answer[q] # None => answer'[q] # None]_vars

(* A link made between two COMPLETED documents is honoured: unless its     *)
(* task fails, answers from a search in the key's text are committed (when *)
(* there is text to search).                                               *)
RelinkMatches ==
  \A r \in Requests :
    pc[r] = "queued" ~>
      target[r] \in searched \/ pages[target[r]] = "blank" \/ pc[r] = "lost"


(* The docstring of link_documents: after linking, the system will attempt *)
(* to match answers to questions.  Read here for the easiest case, where   *)
(* both documents reach COMPLETED, the key has text and nothing fails.     *)
LinkMatches ==
  \A k \in Keys :
    (k \in Linked \cap HaveText /\ BothProcessed(k)) ~> k \in searched

=============================================================================

------------------------ MODULE AnswerLinkingProofs ------------------------
(***************************************************************************)
(* Theorems of module AnswerLinking, for any keys, questions, requests,    *)
(* faults and numbers of redeliveries.                                     *)
(***************************************************************************)
EXTENDS AnswerLinking, TLAPS

-----------------------------------------------------------------------------
(* The inductive invariant.                                                *)

(* What a source has read stays true: links and pages are never deleted. *)
ReadsHold ==
  \A s \in Sources : wanted[s] \subseteq Linked /\ found[s] \subseteq Linked \cap HaveText

(* A request that got past its insert has its link, and no other has. *)
HasLinked(r) == pc[r] \notin {"new", "checked", "refused"}

LinksMade ==
  /\ LinkedOnce
  /\ \A r \in Requests : HasLinked(r) => target[r] \in Linked

(* Relink tasks come after the paper's own pipeline, which therefore finds *)
(* no answers.                                                             *)
PaperFirst ==
  /\ paper = "COMPLETED" => pc[Pipeline] = "over"
  /\ pc[Pipeline] # "over" =>
       /\ \A q \in Questions : answer[q] = None
       /\ \A r \in Requests :
            found[r] = {} /\ pc[r] \notin {"queued", "texts", "rows", "commit"}

LinkInv == TypeOK /\ ReadsHold /\ LinksMade /\ PaperFirst /\ AnswersOfLinks

-----------------------------------------------------------------------------
(* Steps.                                                                  *)

LEMMA SourceSets ==
  /\ Pipeline \in Sources
  /\ \A r \in Requests : r \in Sources /\ r # Pipeline
BY SourceAssumption DEF Sources

(* A value that stage 5 matches. *)
LEMMA MatchValues ==
  ASSUME NEW K \in SUBSET Keys, NEW m \in Matches(K)
  PROVE  /\ m \in [Questions -> Provenance]
         /\ \A q \in Questions : m[q] # None => m[q] \in K
BY DEF Matches, Provenance

(* Invariants about links hold when links and moves of requests stay. *)
LEMMA LinksKept ==
  ASSUME LinkInv, UNCHANGED linkVars, pc' \in [Sources -> RequestPCs],
         \A r \in Requests : HasLinked(r)' <=> HasLinked(r)
  PROVE  LinksMade'
BY DEF LinkInv, LinksMade, LinkedOnce, HasLinked, Linked, linkVars

LEMMA KeyStep ==
  ASSUME LinkInv, NEW k \in Keys, CommitKeyPages(k) \/ FinishKey(k)
  PROVE  LinkInv' /\ answer' = answer
<1> USE DEF LinkInv
<1>1. UNCHANGED <<paper, links, target, pc, wanted, found, loaded, answer, searched,
                 redeliveries>>
  BY DEF CommitKeyPages, FinishKey, linkVars, workVars, answerVars
<1>2. /\ HaveText \subseteq HaveText'
      /\ pages' \in [Keys -> {"none", "blank", "text"}]
      /\ keyStatus' \in [Keys -> DocStatus]
  BY DEF CommitKeyPages, FinishKey, TypeOK, DocStatus, HaveText
<1>3. TypeOK'
  BY <1>1, <1>2 DEF TypeOK
<1>4. ReadsHold' /\ AnswersOfLinks'
  BY <1>1, <1>2 DEF ReadsHold, AnswersOfLinks, Linked, HaveText
<1>5. LinksMade' /\ PaperFirst'
  BY <1>1 DEF LinksMade, LinkedOnce, HasLinked, Linked, PaperFirst
<1>6. QED
  BY <1>1, <1>3, <1>4, <1>5

LEMMA ReadLinksStep ==
  ASSUME LinkInv, NEW s \in Sources, ReadLinks(s)
  PROVE  LinkInv' /\ answer' = answer
<1> USE DEF LinkInv, ReadLinks, Step, docVars, linkVars, answerVars
<1>1. Linked \in SUBSET Keys
  BY DEF Linked
<1>2. TypeOK'
  BY <1>1, SourceSets DEF TypeOK, RequestPCs, PipelinePCs
<1>3. ReadsHold'
  BY <1>1 DEF ReadsHold, Linked, HaveText, TypeOK
<1>4. LinksMade'
  BY <1>2, SourceSets, LinksKept DEF HasLinked, TypeOK
<1>5. PaperFirst'
  BY SourceSets DEF PaperFirst, TypeOK
<1>6. AnswersOfLinks'
  BY DEF AnswersOfLinks, Linked, HaveText
<1>7. QED
  BY <1>2, <1>3, <1>4, <1>5, <1>6

LEMMA ReadTextsStep ==
  ASSUME LinkInv, NEW s \in Sources, ReadTexts(s)
  PROVE  LinkInv' /\ answer' = answer
<1> USE DEF LinkInv, ReadTexts, Step, docVars, linkVars, answerVars
<1>1. TextsOf(s) \subseteq wanted[s] \cap HaveText /\ wanted[s] \in SUBSET Keys
  BY DEF TextsOf, TypeOK
<1>2. /\ pc[s] = "texts"
      /\ \E to \in {"commit", "over", "rows"} :
           /\ pc' = [pc EXCEPT ![s] = to]
           /\ s = Pipeline => to = "commit"
  BY SourceSets
<1>3. TypeOK'
  BY <1>1, <1>2, SourceSets DEF TypeOK, RequestPCs, PipelinePCs
<1>4. ReadsHold'
  BY <1>1 DEF ReadsHold, Linked, HaveText, TypeOK
<1>5. LinksMade'
  BY <1>2, <1>3, SourceSets, LinksKept DEF HasLinked, TypeOK
<1>6. PaperFirst'
  BY <1>2, SourceSets DEF PaperFirst, TypeOK
<1>7. AnswersOfLinks'
  BY DEF AnswersOfLinks, Linked, HaveText
<1>8. QED
  BY <1>3, <1>4, <1>5, <1>6, <1>7

LEMMA PaperStep ==
  ASSUME LinkInv, FinishPaper \/ FailPaper
  PROVE  /\ LinkInv'
         /\ \A q \in Questions : answer[q] # None => answer'[q] # None
<1> USE DEF LinkInv, Step, linkVars, workVars, answerVars
<1>1. /\ pc' = [pc EXCEPT ![Pipeline] = "over"] /\ pc[Pipeline] # "over"
      /\ UNCHANGED <<keyStatus, pages, links, target, wanted, found, loaded,
                     redeliveries>>
      /\ paper' \in DocStatus
  BY SourceSets DEF FinishPaper, FailPaper, TypeOK, DocStatus
<1>2. /\ answer' \in [Questions -> Provenance]
      /\ searched' \subseteq Linked \cap HaveText /\ searched' \in SUBSET Keys
      /\ \A q \in Questions : answer'[q] # None => answer'[q] \in searched'
  <2>1. CASE FinishPaper
    BY <2>1, SourceSets, MatchValues DEF FinishPaper, TypeOK, ReadsHold,
       AnswersOfLinks
  <2>2. CASE FailPaper
    BY <2>2 DEF FailPaper, TypeOK, AnswersOfLinks
  <2>3. QED
    BY <2>1, <2>2
<1>3. TypeOK'
  BY <1>1, <1>2, SourceSets DEF TypeOK, RequestPCs, PipelinePCs
<1>4. ReadsHold' /\ AnswersOfLinks'
  BY <1>1, <1>2 DEF ReadsHold, AnswersOfLinks, Linked, HaveText
<1>5. LinksMade'
  BY <1>1, <1>3, SourceSets, LinksKept DEF HasLinked, TypeOK
<1>6. PaperFirst'
  BY <1>1, SourceSets DEF PaperFirst, TypeOK
<1>7. QED
  BY <1>1, <1>3, <1>4, <1>5, <1>6 DEF PaperFirst

LEMMA RowsStep ==
  ASSUME LinkInv, NEW r \in Requests, LoadRows(r) \/ CommitRows(r)
  PROVE  /\ LinkInv'
         /\ \A q \in Questions : answer[q] # None => answer'[q] # None
<1> USE DEF LinkInv, Step, docVars, linkVars, answerVars
<1>1. /\ UNCHANGED <<paper, keyStatus, pages, links, target, wanted, found, redeliveries>>
      /\ pc[r] \in {"rows", "commit"}
      /\ \E to \in {"commit", "over"} : pc' = [pc EXCEPT ![r] = to]
      /\ loaded' \in [Requests -> [Questions -> Provenance]]
  BY DEF LoadRows, CommitRows, workVars, TypeOK
<1>2. /\ answer' \in [Questions -> Provenance]
      /\ searched \subseteq searched' /\ searched' \in SUBSET Keys
      /\ searched' \subseteq Linked \cap HaveText
      /\ \A q \in Questions :
           \/ answer'[q] = answer[q]
           \/ answer'[q] # None /\ answer'[q] \in searched'
  <2>1. CASE LoadRows(r)
    BY <2>1 DEF LoadRows, TypeOK, AnswersOfLinks
  <2>2. CASE CommitRows(r)
    <3>1. PICK m \in Matches(found[r]) :
            answer' = [q \in Questions |-> IF Overwritten(r, m,
            q) THEN m[q] ELSE answer[q]]
      BY <2>2 DEF CommitRows
    <3>2. /\ m \in [Questions -> Provenance]
          /\ \A q \in Questions : m[q] # None => m[q] \in found[r]
      BY SourceSets, MatchValues DEF TypeOK
    <3>3. /\ found[r] \subseteq Linked \cap HaveText /\ found[r] \in SUBSET Keys
          /\ searched' = searched \cup found[r]
      BY <2>2, SourceSets DEF CommitRows, ReadsHold, TypeOK
    <3>4. QED
      BY <3>1, <3>2, <3>3 DEF Overwritten, TypeOK, AnswersOfLinks
  <2>3. QED
    BY <2>1, <2>2
<1>3. TypeOK'
  BY <1>1, <1>2, SourceSets DEF TypeOK, RequestPCs, PipelinePCs
<1>4. ReadsHold' /\ AnswersOfLinks'
  BY <1>1, <1>2 DEF ReadsHold, AnswersOfLinks, Linked, HaveText
<1>5. LinksMade'
  BY <1>1, <1>3, SourceSets, LinksKept DEF HasLinked, TypeOK
<1>6. PaperFirst'
  BY <1>1, SourceSets DEF PaperFirst, TypeOK
<1>7. QED
  BY <1>2, <1>3, <1>4, <1>5, <1>6

LEMMA InsertStep ==
  ASSUME LinkInv, NEW r \in Requests, InsertLink(r)
  PROVE  LinkInv' /\ answer' = answer
<1> USE DEF LinkInv, InsertLink, Step, docVars, workVars, answerVars, LinkUnique
<1>1. /\ target[r] \in Keys /\ links \in [Keys -> Nat] /\ links' \in [Keys -> Nat]
      /\ Linked \subseteq Linked'
      /\ links[target[r]] = 0 => target[r] \in Linked'
      /\ UNCHANGED <<paper, keyStatus, pages, target, wanted, found, loaded, answer,
                     searched, redeliveries>>
  BY DEF TypeOK, Linked
<1>2. /\ pc[r] = "checked"
      /\ pc' = [pc EXCEPT ![r] = IF links[target[r]] = 0 THEN "linked" ELSE "refused"]
  OBVIOUS
<1>3. TypeOK'
  BY <1>1, <1>2, SourceSets DEF TypeOK, RequestPCs, PipelinePCs
<1>4. ReadsHold' /\ AnswersOfLinks'
  BY <1>1 DEF ReadsHold, AnswersOfLinks, HaveText
<1>5. PaperFirst'
  BY <1>1, <1>2, SourceSets DEF PaperFirst, TypeOK
<1>6. \A o \in Requests \ {r} : HasLinked(o)' <=> HasLinked(o)
  BY <1>2, SourceSets DEF HasLinked, TypeOK
<1>7. HasLinked(r)' => links[target[r]] = 0
  BY <1>2, SourceSets DEF HasLinked, TypeOK
<1>8. ASSUME NEW o \in Requests \ {r}, target[o] = target[r], HasLinked(o)
      PROVE  links[target[r]] # 0
  BY <1>1, <1>8 DEF LinksMade, Linked
<1>9. LinksMade'
  <2>1. \A o \in Requests : HasLinked(o)' => target'[o] \in Linked'
    BY <1>1, <1>6, <1>7 DEF LinksMade
  <2>2. ASSUME NEW r1 \in Requests, NEW r2 \in Requests, target[r1] = target[r2],
               HasLinked(r1)', HasLinked(r2)'
        PROVE  r1 = r2
    <3>1. CASE r1 # r /\ r2 # r
      BY <1>6, <2>2, <3>1 DEF LinksMade, LinkedOnce, HasLinked
    <3>2. CASE r1 = r \/ r2 = r
      BY <1>6, <1>7, <1>8, <2>2, <3>2
    <3>3. QED
      BY <3>1, <3>2
  <2>3. LinkedOnce'
    BY <1>1, <2>2 DEF LinkedOnce, HasLinked
  <2>4. QED
    BY <2>1, <2>3 DEF LinksMade
<1>10. QED
  BY <1>1, <1>3, <1>4, <1>5, <1>9

(* Steps of a request or its task that only move it. *)
LEMMA MoveStep ==
  ASSUME LinkInv, NEW r \in Requests,
         CheckLink(r) \/ Trigger(r) \/ RelinkFails(r) \/ RelinkRedelivered(r)
  PROVE  LinkInv' /\ answer' = answer
<1> USE DEF LinkInv, Step, docVars, linkVars, answerVars, workVars
<1>1. UNCHANGED <<paper, keyStatus, pages, links, target, wanted, found, loaded, answer,
                searched>>
  BY DEF CheckLink, Trigger, RelinkFails, RelinkRedelivered
<1>2. redeliveries' \in Nat
  BY DEF CheckLink, Trigger, RelinkFails, RelinkRedelivered, TypeOK
<1>3. PICK to \in RequestPCs :
        /\ pc' = [pc EXCEPT ![r] = to]
        /\ to \in {"new", "checked", "refused"}
             <=> pc[r] \in {"new", "checked", "refused"}
        /\ to = "queued" => pc[Pipeline] = "over"
        /\ to \notin {"texts", "rows", "commit"}
  <2>1. CASE CheckLink(r)
    BY <2>1 DEF CheckLink, RequestPCs
  <2>2. CASE Trigger(r)
    BY <2>2 DEF Trigger, BothProcessed, PaperFirst, RequestPCs
  <2>3. CASE RelinkFails(r)
    BY <2>3 DEF RelinkFails, RequestPCs
  <2>4. CASE RelinkRedelivered(r)
    BY <2>4 DEF RelinkRedelivered, PaperFirst, RequestPCs
  <2>5. QED
    BY <2>1, <2>2, <2>3, <2>4
<1>4. TypeOK'
  BY <1>1, <1>2, <1>3, SourceSets DEF TypeOK
<1>5. ReadsHold' /\ AnswersOfLinks'
  BY <1>1 DEF ReadsHold, AnswersOfLinks, Linked, HaveText
<1>6. LinksMade'
  BY <1>1, <1>3, <1>4, SourceSets, LinksKept DEF HasLinked, TypeOK
<1>7. PaperFirst'
  BY <1>1, <1>3, SourceSets DEF PaperFirst, TypeOK
<1>8. QED
  BY <1>1, <1>4, <1>5, <1>6, <1>7

-----------------------------------------------------------------------------
(* The theorems.                                                           *)

LEMMA InitLinks == Init => LinkInv
<1> SUFFICES ASSUME Init
             PROVE  LinkInv
  OBVIOUS
<1> USE SourceSets DEF Init, NoAnswers
<1>1. TypeOK
  BY DEF TypeOK, DocStatus, RequestPCs, PipelinePCs, Provenance
<1>2. ReadsHold /\ LinksMade /\ PaperFirst /\ AnswersOfLinks
  BY DEF ReadsHold, LinksMade, LinkedOnce, HasLinked, PaperFirst, AnswersOfLinks
<1>3. QED
  BY <1>1, <1>2 DEF LinkInv

LEMMA NextLinks ==
  LinkInv /\ [Next]_vars =>
    LinkInv' /\ \A q \in Questions : answer[q] # None => answer'[q] # None
<1> SUFFICES ASSUME LinkInv, [Next]_vars
             PROVE  LinkInv' /\ \A q \in Questions : answer[q] # None => answer'[q] # None
  OBVIOUS
<1>1. ASSUME NEW k \in Keys, CommitKeyPages(k) \/ FinishKey(k)
      PROVE  LinkInv' /\ answer' = answer
  BY <1>1, KeyStep
<1>2. CASE PaperStages \/ FailPaper
  BY <1>2, SourceSets, ReadLinksStep, ReadTextsStep, PaperStep DEF PaperStages
<1>3. ASSUME NEW r \in Requests,
             LinkRequest(r) \/ Relink(r) \/ RelinkFails(r) \/ RelinkRedelivered(r)
      PROVE  LinkInv' /\ \A q \in Questions : answer[q] # None => answer'[q] # None
  BY <1>3, SourceSets, InsertStep, MoveStep, ReadLinksStep, ReadTextsStep, RowsStep
     DEF LinkRequest, Relink
<1>4. CASE UNCHANGED vars
  BY <1>4 DEF vars, docVars, linkVars, workVars, answerVars, HaveText, LinkInv, TypeOK, ReadsHold, LinksMade,
              LinkedOnce, HasLinked, PaperFirst, AnswersOfLinks, Linked
<1>5. QED
  BY <1>1, <1>2, <1>3, <1>4 DEF Next

LEMMA LinkInvariant == Spec => []LinkInv
BY InitLinks, NextLinks, PTL DEF Spec

(* The variables keep their types. *)
THEOREM TypeCorrect == Spec => []TypeOK
<1>1. LinkInv => TypeOK
  BY DEF LinkInv
<1>2. QED
  BY <1>1, LinkInvariant, PTL

(* An answer comes from the text of a linked key that a run has searched,  *)
(* whatever stage 5 makes of the texts and whatever pipelines, relink      *)
(* tasks and redeliveries race.                                            *)
THEOREM AnswersLinked == Spec => []AnswersOfLinks
<1>1. LinkInv => AnswersOfLinks
  BY DEF LinkInv
<1>2. QED
  BY <1>1, LinkInvariant, PTL

(* Of the requests for one link at most one gets past the insert.          *)
THEOREM LinkCreatedOnce == Spec => []LinkedOnce
<1>1. LinkInv => LinkedOnce
  BY DEF LinkInv, LinksMade
<1>2. QED
  BY <1>1, LinkInvariant, PTL

(* No step takes an answer back: the paper's pipeline is over before the   *)
(* first relink task, and relink tasks replace answers by answers only.    *)
THEOREM AnswersStay == Spec => NeverTakenBack
<1>1. LinkInv /\ [Next]_vars => [\A q \in Questions : answer[q] # None => answer'[q] # None]_vars
  BY NextLinks
<1>2. QED
  BY <1>1, LinkInvariant, PTL DEF Spec, NeverTakenBack
=============================================================================

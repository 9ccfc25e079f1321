------------------------- MODULE ReviewQueueProofs -------------------------
(***************************************************************************)
(* Theorems of module ReviewQueue, for any documents, questions, clients   *)
(* and numbers of attempts.                                                *)
(***************************************************************************)
EXTENDS ReviewQueue, SequenceTheorems, TLAPS

-----------------------------------------------------------------------------
(* The inductive invariant.                                                *)

IsQuestion(i) == i.entity = "QUESTION"

(* Stage 6 runs in the one execution that inserts the pages: before it no  *)
(* question is there, and what is flushed in it belongs to it.             *)
OneScoring ==
  \A d \in Docs :
    /\ d \notin paged => /\ asked[d] = 0 /\ answered[d] = 0
                         /\ pc[d] # "scoring"
    /\ pc[d] = "scoring" => asked[d] = 0 /\ answered[d] = 0
    /\ pc[d] # "scoring" => drafted[d] = 0
    /\ status[d] = "none" => pc[d] = "none"
    /\ status[d] = "COMPLETED" => pc[d] = "over"

(* What is in the log: items of flagged questions of documents that have   *)
(* reached stage 6, those before the last question while it runs, and      *)
(* items of warnings of the executions so far.                             *)
ItemOK(i) ==
  IF IsQuestion(i)
    THEN /\ <<i.doc, i.n>> \in Flagged
         /\ i.doc \in paged
         /\ pc[i.doc] = "scoring" => i.n < drafted[i.doc]
    ELSE /\ i.n <= attempt[i.doc]
         /\ pc[i.doc] = "validating" => i.n < attempt[i.doc]

LoggedItems == \A i \in Items : Logged(i) => ItemOK(i)

(* Every flagged question before the last one has its item flushed. *)
FlaggedLogged ==
  \A q \in Flagged :
    pc[q[1]] = "scoring" /\ q[2] < drafted[q[1]] => Logged(Item(q[1], "QUESTION", q[2]))

QueueInv ==
  /\ TypeOK
  /\ OneScoring
  /\ LoggedItems
  /\ FlaggedLogged
  /\ QueueMatchesQuestions

-----------------------------------------------------------------------------
(* Helpers.                                                                *)

LEMMA FlaggedType ==
  ASSUME NEW q \in Flagged
  PROVE  /\ q = <<q[1], q[2]>>
         /\ q[1] \in Docs
         /\ q[2] \in 1..NumQuestions[q[1]]
         /\ NumQuestions[q[1]] \in Nat
BY FlaggedAssumption, SizeAssumption DEF Questions

LEMMA ItemType ==
  ASSUME NEW d \in Docs, NEW e \in {"DOCUMENT", "QUESTION"}, NEW n \in Nat
  PROVE  /\ Item(d, e, n) \in Items
         /\ Item(d, e, n).doc = d
         /\ Item(d, e, n).entity = e
         /\ Item(d, e, n).n = n
BY DEF Item, Items

LEMMA ItemParts ==
  ASSUME NEW i \in Items
  PROVE  /\ i.doc \in Docs /\ i.n \in Nat
         /\ i = Item(i.doc, i.entity, i.n)
         /\ ~IsQuestion(i) => i.entity = "DOCUMENT"
BY DEF Items, Item, IsQuestion

(* What the log holds after a new item was filed. *)
LEMMA Filing ==
  ASSUME NEW i \in Items, ItemTypes, File(i), ~Logged(i)
  PROVE  /\ itemLog' \in Seq(Items)
         /\ \A j, k \in DOMAIN itemLog' : itemLog'[j] = itemLog'[k] => j = k
         /\ \A x : Logged(x)' <=> Logged(x) \/ x = i
<1>1. /\ itemLog' \in Seq(Items)
      /\ Len(itemLog') = Len(itemLog) + 1
      /\ itemLog'[Len(itemLog) + 1] = i
      /\ \A j \in 1..Len(itemLog) : itemLog'[j] = itemLog[j]
      /\ itemLog \in Seq(Items) /\ Len(itemLog) \in Nat
  BY AppendProperties, LenProperties DEF ItemTypes, File
<1>2. DOMAIN itemLog = 1..Len(itemLog) /\ DOMAIN itemLog' = 1..(Len(itemLog) + 1)
  BY <1>1
<1>3. \A x : Logged(x)' <=> Logged(x) \/ x = i
  BY <1>1, <1>2 DEF Logged
<1>4. \A j, k \in DOMAIN itemLog' : itemLog'[j] = itemLog'[k] => j = k
  BY <1>1, <1>2 DEF Logged, ItemTypes
<1>5. QED
  BY <1>1, <1>3, <1>4

-----------------------------------------------------------------------------
(* Steps that file nothing and commit nothing of stage 6.                  *)

LEMMA LogUnchanged ==
  ASSUME itemLog' = itemLog
  PROVE  \A i : Logged(i)' <=> Logged(i)
BY DEF Logged

LEMMA ItemsUnchanged ==
  ASSUME ItemTypes, UNCHANGED itemVars
  PROVE  ItemTypes'
BY DEF ItemTypes, itemVars, Logged

(* The rows of the queue stay right when no document becomes COMPLETED. *)
LEMMA QueueUnchanged ==
  ASSUME QueueMatchesQuestions, UNCHANGED <<visible, asked, answered>>,
         \A d \in Docs : status'[d] = "COMPLETED" => status[d] = "COMPLETED"
  PROVE  QueueMatchesQuestions'
<1>1. ItemsLeadSomewhere'
  BY DEF QueueMatchesQuestions, ItemsLeadSomewhere, GetQuestionAnswer, GetQuestion
<1>2. FlaggedAreQueued'
  BY FlaggedType DEF QueueMatchesQuestions, FlaggedAreQueued
<1>3. QED
  BY <1>1, <1>2 DEF QueueMatchesQuestions

LEMMA AgainType ==
  ASSUME NEW d \in Docs
  PROVE  Again(d) \in {"waiting", "over"}
BY DEF Again

(* Such steps of one execution: they move it outside of stage 6, or into   *)
(* it with the pages, and start no execution.                              *)
LEMMA PlainStep ==
  ASSUME QueueInv, NEW d \in Docs,
         Upload(d) \/ ExtractionClash(d) \/ Raise(d) \/ MarkFailed(d)
         \/ Lost(d) \/ Reap(d)
  PROVE  QueueInv'
<1> USE DEF QueueInv
<1>1. /\ UNCHANGED <<itemLog, visible, resolved>>
      /\ UNCHANGED <<req, asked, answered, paged, attempt>>
      /\ pc' \in [Docs -> {"none", "waiting", "validating", "extracting",
                            "scoring", "failing", "timeout", "over"}]
      /\ drafted' \in [Docs -> Nat]
      /\ \A e \in Docs : /\ pc'[e] \in {"scoring", "validating"} => pc'[e] = pc[e]
                         /\ pc'[e] = "none" => pc[e] = "none"
                         /\ drafted'[e] = IF pc'[e] = "scoring" THEN drafted[e] ELSE 0
  <2>1. CASE Upload(d)
    BY <2>1 DEF Upload, Goto, TypeOK, RunTypes, OneScoring, itemVars
  <2>2. CASE ExtractionClash(d)
    BY <2>2, AgainType DEF ExtractionClash, Goto, TypeOK, RunTypes, OneScoring, tableVars, itemVars
  <2>3. CASE Raise(d)
    BY <2>3 DEF Raise, Goto, TypeOK, RunTypes, OneScoring, tableVars, itemVars
  <2>4. CASE MarkFailed(d)
    BY <2>4, AgainType DEF MarkFailed, Goto, TypeOK, RunTypes, OneScoring, itemVars
  <2>5. CASE Lost(d)
    BY <2>5, AgainType DEF Lost, Goto, TypeOK, RunTypes, OneScoring, tableVars, itemVars
  <2>6. CASE Reap(d)
    BY <2>6 DEF Reap, TypeOK, RunTypes, OneScoring, runVars, itemVars
  <2>7. QED
    BY <2>1, <2>2, <2>3, <2>4, <2>5, <2>6
<1>2. /\ status' \in [Docs -> {"none", "QUEUED", "PROCESSING", "COMPLETED", "FAILED"}]
      /\ docLog' \in Seq(Docs)
      /\ \A e \in Docs : status'[e] \in {"none", "COMPLETED"}
                           => status[e] = status'[e] /\ pc'[e] = pc[e]
  <2>1. CASE Upload(d)
    BY <2>1, AppendProperties DEF Upload, Goto, TypeOK, RunTypes
  <2>2. CASE MarkFailed(d)
    BY <2>2 DEF MarkFailed, Goto, TypeOK, RunTypes
  <2>3. CASE Reap(d)
    BY <2>3 DEF Reap, TypeOK, RunTypes, runVars
  <2>4. CASE ExtractionClash(d) \/ Raise(d) \/ Lost(d)
    BY <2>4 DEF ExtractionClash, Raise, Lost, tableVars, TypeOK, RunTypes, OneScoring, Goto
  <2>5. QED
    BY <2>1, <2>2, <2>3, <2>4
<1>3. RunTypes'
  <2>1. RunTypes
    BY DEF TypeOK
  <2>2. \A e \in Docs : drafted'[e] <= NumQuestions[e]
    <3>1. TAKE e \in Docs
    <3>2. drafted'[e] = drafted[e] \/ drafted'[e] = 0
      BY <1>1
    <3>3. drafted[e] <= NumQuestions[e] /\ NumQuestions[e] \in Nat
      BY <2>1, SizeAssumption DEF RunTypes
    <3>4. 0 <= NumQuestions[e]
      BY <3>3
    <3>5. QED
      BY <3>2, <3>3, <3>4
  <2>3. QED
    BY <1>1, <1>2, <2>1, <2>2 DEF RunTypes
<1>4. TypeOK'
  BY <1>1, <1>3, ItemsUnchanged DEF TypeOK, itemVars
<1>5. OneScoring'
  BY <1>1, <1>2 DEF OneScoring, TypeOK, RunTypes
<1>6. LoggedItems'
  <2>1. SUFFICES ASSUME NEW i \in Items, Logged(i)
                 PROVE  ItemOK(i)'
    BY <1>1, LogUnchanged DEF LoggedItems, itemVars
  <2>2. i.doc \in Docs
    BY ItemParts
  <2>3. ItemOK(i)
    BY <2>1 DEF LoggedItems
  <2>4. QED
    BY <1>1, <2>2, <2>3 DEF ItemOK
<1>7. FlaggedLogged'
  BY <1>1, LogUnchanged, FlaggedType DEF FlaggedLogged, itemVars, Logged
<1>8. QueueMatchesQuestions'
  BY <1>1, <1>2, QueueUnchanged DEF itemVars
<1>9. QED
  BY <1>4, <1>5, <1>6, <1>7, <1>8

LEMMA StartStep ==
  ASSUME QueueInv, NEW d \in Docs, Start(d)
  PROVE  QueueInv'
<1> USE DEF QueueInv, Start, Goto
<1>1. RunTypes'
  <2>1. RunTypes
    BY DEF TypeOK
  <2>2. \A e \in Docs : attempt'[e] \in Nat /\ attempt'[e] <= MaxAttempts[e]
    BY <2>1, SizeAssumption DEF RunTypes
  <2>3. attempt' \in [Docs -> Nat]
    BY <2>1 DEF RunTypes
  <2>4. QED
    BY <2>1, <2>2, <2>3 DEF RunTypes
<1>2. TypeOK'
  BY <1>1, ItemsUnchanged DEF TypeOK
<1>3. OneScoring'
  BY DEF OneScoring, TypeOK, RunTypes
<1>4. LoggedItems'
  <2>1. SUFFICES ASSUME NEW i \in Items, Logged(i)
                 PROVE  ItemOK(i)'
    BY LogUnchanged DEF LoggedItems, itemVars
  <2>2. i.doc \in Docs /\ i.n \in Nat /\ ItemOK(i)
    BY <2>1, ItemParts DEF LoggedItems
  <2>3. QED
    BY <2>2 DEF ItemOK, itemVars, TypeOK, RunTypes
<1>5. FlaggedLogged'
  BY LogUnchanged, FlaggedType DEF FlaggedLogged, itemVars, TypeOK, RunTypes
<1>6. QueueMatchesQuestions'
  BY QueueUnchanged DEF itemVars, TypeOK, RunTypes
<1>7. QED
  BY <1>2, <1>3, <1>4, <1>5, <1>6

LEMMA ExtractStep ==
  ASSUME QueueInv, NEW d \in Docs, Extract(d)
  PROVE  QueueInv'
<1> USE DEF QueueInv, Extract, Goto, tableVars
<1>1. RunTypes'
  BY DEF TypeOK, RunTypes
<1>2. TypeOK'
  BY <1>1, ItemsUnchanged DEF TypeOK
<1>3. drafted[d] = 0 /\ asked[d] = 0 /\ answered[d] = 0
  BY DEF OneScoring
<1>4. OneScoring'
  <2>1. status[d] # "none"
    BY DEF OneScoring
  <2>2. status[d] # "COMPLETED"
    BY DEF OneScoring
  <2>3. QED
    BY <1>3, <2>1, <2>2 DEF OneScoring, TypeOK, RunTypes
<1>5. LoggedItems'
  <2>1. SUFFICES ASSUME NEW i \in Items, Logged(i)
                 PROVE  ItemOK(i)'
    BY LogUnchanged DEF LoggedItems, itemVars
  <2>2. i.doc \in Docs /\ ItemOK(i)
    BY <2>1, ItemParts DEF LoggedItems
  <2>3. QED
    BY <2>2 DEF ItemOK, itemVars, TypeOK, RunTypes
<1>6. FlaggedLogged'
  BY <1>3, LogUnchanged, FlaggedType DEF FlaggedLogged, itemVars, TypeOK, RunTypes
<1>7. QueueMatchesQuestions'
  BY QueueUnchanged DEF itemVars
<1>8. QED
  BY <1>2, <1>4, <1>5, <1>6, <1>7

-----------------------------------------------------------------------------
(* Steps that file an item.                                                *)

LEMMA ValidateStep ==
  ASSUME QueueInv, NEW d \in Docs, Validate(d)
  PROVE  QueueInv'
<1> USE DEF QueueInv, Validate, Goto, tableVars
<1>1. RunTypes'
  BY DEF TypeOK, RunTypes
<1>2. OneScoring'
  BY DEF OneScoring, TypeOK, RunTypes
<1>3. CASE d \notin Warned
  <2>1. UNCHANGED itemVars
    BY <1>3 DEF itemVars
  <2>2. TypeOK'
    BY <1>1, <2>1, ItemsUnchanged DEF TypeOK
  <2>3. LoggedItems'
    <3>1. SUFFICES ASSUME NEW i \in Items, Logged(i)
                   PROVE  ItemOK(i)'
      BY <2>1, LogUnchanged DEF LoggedItems, itemVars
    <3>2. i.doc \in Docs /\ ItemOK(i)
      BY <3>1, ItemParts DEF LoggedItems
    <3>3. QED
      BY <2>1, <3>2 DEF ItemOK, itemVars, TypeOK, RunTypes
  <2>4. FlaggedLogged'
    BY <2>1, LogUnchanged, FlaggedType DEF FlaggedLogged, itemVars, TypeOK, RunTypes
  <2>5. QueueMatchesQuestions'
    BY <2>1, QueueUnchanged DEF itemVars
  <2>6. QED
    BY <1>2, <2>2, <2>3, <2>4, <2>5
<1>4. CASE d \in Warned
  <2> PICK i : i = Item(d, "DOCUMENT", attempt[d])
    OBVIOUS
  <2>1. /\ i \in Items /\ i.doc = d /\ i.entity = "DOCUMENT" /\ i.n = attempt[d]
        /\ ~IsQuestion(i)
    BY ItemType DEF TypeOK, RunTypes, IsQuestion
  <2>2. File(i) /\ visible' = visible \cup {i} /\ UNCHANGED resolved
    BY <1>4
  <2>3. ~Logged(i)
    <3>1. SUFFICES ASSUME Logged(i)
                   PROVE  FALSE
      OBVIOUS
    <3>2. ItemOK(i)
      BY <2>1, <3>1 DEF LoggedItems
    <3>3. attempt[d] \in Nat
      BY DEF TypeOK, RunTypes
    <3>4. QED
      BY <2>1, <3>2, <3>3 DEF ItemOK
  <2>4. /\ itemLog' \in Seq(Items)
        /\ \A j, k \in DOMAIN itemLog' : itemLog'[j] = itemLog'[k] => j = k
        /\ \A x : Logged(x)' <=> Logged(x) \/ x = i
    BY <2>1, <2>2, <2>3, Filing DEF TypeOK
  <2>5. TypeOK'
    BY <1>1, <2>2, <2>4 DEF TypeOK, ItemTypes
  <2>6. LoggedItems'
    <3>1. attempt[d] \in Nat /\ pc'[d] = "extracting" /\ attempt' = attempt
      BY DEF TypeOK, RunTypes
    <3>2. ItemOK(i)'
      BY <2>1, <3>1 DEF ItemOK, IsQuestion
    <3>3. ASSUME NEW x \in Items, Logged(x)
          PROVE  ItemOK(x)'
      <4>1. ItemOK(x) /\ x.doc \in Docs /\ x.n \in Nat
        BY <3>3, ItemParts DEF LoggedItems
      <4>2. QED
        BY <4>1 DEF ItemOK, TypeOK, RunTypes
    <3>4. QED
      BY <2>4, <3>2, <3>3 DEF LoggedItems
  <2>7. FlaggedLogged'
    BY <2>4, FlaggedType DEF FlaggedLogged, TypeOK, RunTypes
  <2>8. ItemsLeadSomewhere'
    BY <2>1, <2>2 DEF QueueMatchesQuestions, ItemsLeadSomewhere, GetQuestion,
                      GetQuestionAnswer, IsQuestion
  <2>9. FlaggedAreQueued'
    BY <2>2 DEF QueueMatchesQuestions, FlaggedAreQueued
  <2>10. QED
    BY <1>2, <2>5, <2>6, <2>7, <2>8, <2>9 DEF QueueMatchesQuestions
<1>5. QED
  BY <1>3, <1>4

(* The item of the last question is not in the log yet. *)
LEMMA PendingNew ==
  ASSUME QueueInv, NEW d \in Docs, pc[d] = "scoring", Pending(d),
         NEW i, i = Item(d, "QUESTION", drafted[d])
  PROVE  /\ i \in Items /\ i.doc = d /\ i.n = drafted[d] /\ IsQuestion(i)
         /\ ~Logged(i)
<1>1. drafted[d] \in Nat
  BY DEF QueueInv, TypeOK, RunTypes
<1>2. /\ i \in Items /\ i.doc = d /\ i.n = drafted[d] /\ IsQuestion(i)
  BY <1>1, ItemType DEF IsQuestion
<1>3. SUFFICES ASSUME Logged(i)
               PROVE  FALSE
  BY <1>2
<1>4. ItemOK(i)
  BY <1>2, <1>3 DEF QueueInv, LoggedItems
<1>5. QED
  BY <1>1, <1>2, <1>4 DEF ItemOK

(* What the log holds after the last question's item was flushed, if due. *)
LEMMA FilePendingStep ==
  ASSUME QueueInv, NEW d \in Docs, pc[d] = "scoring", NEW due \in BOOLEAN,
         due => Pending(d), FilePending(d, due)
  PROVE  /\ itemLog' \in Seq(Items)
         /\ \A j, k \in DOMAIN itemLog' : itemLog'[j] = itemLog'[k] => j = k
         /\ \A x : Logged(x)' <=>
              Logged(x) \/ (due /\ x = Item(d, "QUESTION", drafted[d]))
<1>1. CASE due
  BY <1>1, PendingNew, Filing DEF FilePending, QueueInv, TypeOK
<1>2. CASE ~due
  BY <1>2, LogUnchanged DEF FilePending, QueueInv, TypeOK, ItemTypes
<1>3. QED
  BY <1>1, <1>2

(* LoggedItems after it, when nothing changes for the other documents. *)
LEMMA PendingItems ==
  ASSUME QueueInv, NEW d \in Docs, pc[d] = "scoring", NEW due \in BOOLEAN,
         due => Pending(d), FilePending(d, due),
         UNCHANGED <<paged, attempt>>,
         \A e \in Docs \ {d} : pc'[e] = pc[e] /\ drafted'[e] = drafted[e],
         \/ pc'[d] \notin {"scoring", "validating"}
         \/ pc'[d] = "scoring" /\ drafted'[d] = drafted[d] + 1
  PROVE  LoggedItems'
<1>1. drafted[d] \in Nat /\ d \in paged
  BY DEF QueueInv, TypeOK, RunTypes, OneScoring
<1>2. ASSUME NEW x \in Items, ItemOK(x)
      PROVE  ItemOK(x)'
  <2>1. x.doc \in Docs /\ x.n \in Nat
    BY ItemParts
  <2>2. CASE x.doc = d
    BY <1>1, <1>2, <2>1, <2>2 DEF ItemOK
  <2>3. CASE x.doc # d
    BY <1>2, <2>1, <2>3 DEF ItemOK
  <2>4. QED
    BY <2>2, <2>3
<1>3. ASSUME NEW x, x = Item(d, "QUESTION", drafted[d]), due
      PROVE  ItemOK(x)'
  <2>1. x.doc = d /\ x.n = drafted[d] /\ IsQuestion(x)
    BY <1>3, PendingNew
  <2>2. QED
    BY <1>1, <1>3, <2>1 DEF ItemOK, Pending, IsQuestion
<1>4. QED
  BY <1>2, <1>3, FilePendingStep DEF QueueInv, LoggedItems

LEMMA DraftStep ==
  ASSUME QueueInv, NEW d \in Docs, Draft(d)
  PROVE  QueueInv'
<1> USE DEF QueueInv, Draft, tableVars
<1>1. /\ drafted \in [Docs -> Nat] /\ drafted[d] < NumQuestions[d]
      /\ NumQuestions[d] \in Nat /\ pc[d] = "scoring"
      /\ FilePending(d, Pending(d))
  BY SizeAssumption DEF TypeOK, RunTypes
<1>10. Pending(d) \in BOOLEAN
  BY DEF Pending
<1>2. /\ itemLog' \in Seq(Items)
      /\ \A j, k \in DOMAIN itemLog' : itemLog'[j] = itemLog'[k] => j = k
      /\ \A x : Logged(x)' <=>
           Logged(x) \/ (Pending(d) /\ x = Item(d, "QUESTION", drafted[d]))
  BY <1>1, <1>10, FilePendingStep
<1>3. RunTypes'
  <2>1. RunTypes
    BY DEF TypeOK
  <2>2. drafted' \in [Docs -> Nat] /\ \A e \in Docs : drafted'[e] <= NumQuestions[e]
    BY <1>1, <2>1 DEF RunTypes
  <2>3. QED
    BY <2>1, <2>2 DEF RunTypes
<1>4. TypeOK'
  BY <1>2, <1>3 DEF TypeOK, ItemTypes
<1>5. OneScoring'
  BY <1>1 DEF OneScoring
<1>6. LoggedItems'
  BY <1>1, <1>10, PendingItems
<1>7. FlaggedLogged'
  <2>1. SUFFICES ASSUME NEW q \in Flagged, pc[q[1]] = "scoring", q[2] < drafted'[q[1]]
                 PROVE  Logged(Item(q[1], "QUESTION", q[2]))'
    BY DEF FlaggedLogged
  <2>2. q = <<q[1], q[2]>> /\ q[1] \in Docs /\ q[2] \in Nat
    BY FlaggedType
  <2>3. q[2] < drafted[q[1]] \/ (q[1] = d /\ q[2] = drafted[d])
    BY <1>1, <2>1, <2>2
  <2>4. CASE q[2] < drafted[q[1]]
    BY <1>2, <2>1, <2>4 DEF FlaggedLogged
  <2>5. CASE q[1] = d /\ q[2] = drafted[d]
    BY <1>2, <2>2, <2>5 DEF Pending
  <2>6. QED
    BY <2>3, <2>4, <2>5
<1>8. QueueMatchesQuestions'
  BY QueueUnchanged
<1>9. QED
  BY <1>4, <1>5, <1>6, <1>7, <1>8

-----------------------------------------------------------------------------
(* The commits of stage 6.                                                 *)

LEMMA FiledMembers ==
  ASSUME NEW d
  PROVE  \A x : x \in Filed(d, itemLog) <=> Logged(x) /\ x.doc = d /\ IsQuestion(x)
BY DEF Filed, Logged, IsQuestion

(* The questions, all or all but the last of the answers, and the items:   *)
(* the last one only with its answer.  Nothing of the document was         *)
(* committed before, so the items now visible are those of this commit.    *)
LEMMA CommitStep ==
  ASSUME QueueInv, NEW d \in Docs, pc[d] = "scoring",
         NEW a \in Nat, a \in {drafted[d], drafted[d] - 1},
         NEW due \in BOOLEAN, due => Pending(d) /\ a = drafted[d],
         CommitDrafts(d, drafted[d], a, due),
         NEW label \in {"over", "timeout"}, Goto(d, label),
         UNCHANGED req,
         \/ UNCHANGED status
         \/ /\ status' = [status EXCEPT ![d] = "COMPLETED"]
            /\ label = "over"
            /\ drafted[d] = NumQuestions[d]
            /\ due = Pending(d)
  PROVE  QueueInv'
<1> USE DEF QueueInv, CommitDrafts, Goto
<1>1. /\ drafted \in [Docs -> Nat] /\ drafted[d] \in Nat /\ NumQuestions \in [Docs -> Nat]
      /\ asked \in [Docs -> Nat] /\ answered \in [Docs -> Nat]
      /\ asked[d] = 0 /\ answered[d] = 0 /\ d \in paged
      /\ pc \in [Docs -> {"none", "waiting", "validating", "extracting",
                          "scoring", "failing", "timeout", "over"}]
  BY SizeAssumption DEF TypeOK, RunTypes, OneScoring
<1>2. /\ itemLog' \in Seq(Items)
      /\ \A j, k \in DOMAIN itemLog' : itemLog'[j] = itemLog'[k] => j = k
      /\ \A x : Logged(x)' <=>
           Logged(x) \/ (due /\ x = Item(d, "QUESTION", drafted[d]))
  BY FilePendingStep
<1>3. \A x : x \in visible' <=>
        x \in visible \/ (Logged(x)' /\ x.doc = d /\ IsQuestion(x))
  <2>1. (\A x : x \in Filed(d, itemLog) <=> Logged(x) /\ x.doc = d /\ IsQuestion(x))'
    BY FiledMembers, PTL
  <2>2. QED
    BY <2>1
<1>4. /\ asked' \in [Docs -> Nat] /\ answered' \in [Docs -> Nat]
      /\ asked'[d] = drafted[d] /\ answered'[d] = a
      /\ \A e \in Docs \ {d} : asked'[e] = asked[e] /\ answered'[e] = answered[e]
  BY <1>1
<1>5. TypeOK'
  <2>1. RunTypes
    BY DEF TypeOK
  <2>2. drafted' \in [Docs -> Nat] /\ \A e \in Docs : drafted'[e] <= NumQuestions[e]
    BY <1>1, <2>1 DEF RunTypes
  <2>3. status' \in [Docs -> {"none", "QUEUED", "PROCESSING", "COMPLETED", "FAILED"}]
    BY <2>1 DEF RunTypes
  <2>4. RunTypes'
    BY <1>1, <1>4, <2>1, <2>2, <2>3 DEF RunTypes
  <2>5. ItemTypes'
    BY <1>2, <1>3 DEF ItemTypes, TypeOK
  <2>6. QED
    BY <2>4, <2>5 DEF TypeOK
<1>6. OneScoring'
  <2>1. \A e \in Docs \ {d} : /\ pc'[e] = pc[e] /\ drafted'[e] = drafted[e]
                             /\ status'[e] = status[e]
    BY DEF TypeOK, RunTypes
  <2>2. /\ pc'[d] = label /\ drafted'[d] = 0 /\ status'[d] # "none"
        /\ status'[d] = "COMPLETED" => label = "over"
    BY <1>1 DEF OneScoring, TypeOK, RunTypes
  <2>3. QED
    BY <1>1, <1>4, <2>1, <2>2 DEF OneScoring
<1>7. LoggedItems'
  BY <1>1, PendingItems
<1>8. FlaggedLogged'
  BY <1>1, <1>2, FlaggedType DEF FlaggedLogged
<1>9. ItemsLeadSomewhere'
  <2>1. SUFFICES ASSUME NEW i \in visible', IsQuestion(i)
                 PROVE  /\ <<i.doc, i.n>> \in Flagged
                        /\ i.n \in 1..asked'[i.doc] /\ i.n <= answered'[i.doc]
    BY DEF ItemsLeadSomewhere, IsQuestion, GetQuestionAnswer, GetQuestion
  <2>2. i \in Items /\ i.doc \in Docs /\ i.n \in Nat
    BY <1>5, ItemParts DEF TypeOK, ItemTypes, Logged
  <2>3. CASE i \in visible
    <3>1. /\ <<i.doc, i.n>> \in Flagged
          /\ i.n \in 1..asked[i.doc] /\ i.n <= answered[i.doc]
      BY <2>1, <2>3 DEF QueueMatchesQuestions, ItemsLeadSomewhere, IsQuestion,
                        GetQuestionAnswer, GetQuestion
    <3>2. i.doc # d
      BY <1>1, <3>1
    <3>3. QED
      BY <1>4, <2>2, <3>1, <3>2
  <2>4. CASE Logged(i)' /\ i.doc = d
    <3>1. <<d, i.n>> \in Flagged
      BY <1>7, <2>1, <2>2, <2>4 DEF LoggedItems, ItemOK
    <3>2. 1 <= i.n
      BY <3>1, FlaggedType
    <3>3. CASE Logged(i)
      <4>1. i.n < drafted[d]
        BY <2>1, <2>2, <2>4, <3>3 DEF LoggedItems, ItemOK
      <4>2. QED
        BY <1>1, <1>4, <2>2, <2>4, <3>1, <3>2, <4>1
    <3>4. CASE due /\ i = Item(d, "QUESTION", drafted[d])
      <4>1. i.n = drafted[d] /\ a = drafted[d]
        BY <1>1, <3>4, ItemType
      <4>2. QED
        BY <1>1, <1>4, <2>2, <2>4, <3>1, <3>2, <4>1
    <3>5. QED
      BY <1>2, <2>4, <3>3, <3>4
  <2>5. QED
    BY <1>3, <2>3, <2>4
<1>10. FlaggedAreQueued'
  <2>1. SUFFICES ASSUME NEW q \in Flagged, status'[q[1]] = "COMPLETED"
                 PROVE  Item(q[1], "QUESTION", q[2]) \in visible'
    BY DEF FlaggedAreQueued
  <2>2. /\ q = <<q[1], q[2]>> /\ q[1] \in Docs
        /\ q[2] \in Nat /\ q[2] <= NumQuestions[q[1]]
    BY FlaggedType
  <2>3. CASE q[1] # d
    <3>1. status[q[1]] = "COMPLETED"
      BY <2>1, <2>2, <2>3 DEF TypeOK, RunTypes
    <3>2. QED
      BY <1>3, <3>1 DEF QueueMatchesQuestions, FlaggedAreQueued
  <2>4. CASE q[1] = d
    <3>1. drafted[d] = NumQuestions[d] /\ due = Pending(d)
      BY <2>1, <2>4 DEF OneScoring
    <3>2. Logged(Item(d, "QUESTION", q[2]))'
      <4>1. CASE q[2] < drafted[d]
        BY <1>2, <2>4, <4>1 DEF FlaggedLogged
      <4>2. CASE q[2] = drafted[d]
        BY <1>2, <2>2, <2>4, <3>1, <4>2 DEF Pending
      <4>3. QED
        BY <1>1, <2>2, <2>4, <3>1, <4>1, <4>2
    <3>3. QED
      BY <1>3, <2>2, <2>4, <3>2, ItemType DEF IsQuestion
  <2>5. QED
    BY <2>3, <2>4
<1>11. QED
  BY <1>5, <1>6, <1>7, <1>8, <1>9, <1>10 DEF QueueMatchesQuestions

LEMMA CompleteStep ==
  ASSUME QueueInv, NEW d \in Docs, Complete(d)
  PROVE  QueueInv'
<1>1. drafted[d] \in Nat
  BY DEF QueueInv, TypeOK, RunTypes
<1>2. Pending(d) \in BOOLEAN
  BY DEF Pending
<1>3. UNCHANGED req
  BY DEF Complete, CommitDrafts
<1>4. QED
  BY <1>1, <1>2, <1>3, CommitStep DEF Complete

LEMMA SoftLimitStep ==
  ASSUME QueueInv, NEW d \in Docs, SoftLimit(d)
  PROVE  QueueInv'
<1>1. drafted[d] \in Nat /\ pc[d] = "scoring" /\ Goto(d, "timeout") /\ UNCHANGED status
  BY DEF SoftLimit, QueueInv, TypeOK, RunTypes
<1>2. ASSUME NEW due \in {FALSE, Pending(d)}, CommitDrafts(d, drafted[d], drafted[d], due)
      PROVE  QueueInv'
  <2>1. due \in BOOLEAN /\ (due => Pending(d))
    <3>1. Pending(d) \in BOOLEAN
      BY DEF Pending
    <3>2. due = FALSE \/ due = Pending(d)
      OBVIOUS
    <3>3. QED
      BY <3>1, <3>2, Zenon
  <2>2. UNCHANGED req
    BY <1>2 DEF CommitDrafts
  <2>3. QED
    BY <1>1, <1>2, <2>1, <2>2, CommitStep
<1>3. CASE drafted[d] > 0 /\ CommitDrafts(d, drafted[d], drafted[d] - 1, FALSE)
  <2>1. drafted[d] - 1 \in Nat
    BY <1>1, <1>3
  <2>2. QED
    BY <1>1, <1>3, <2>1, CommitStep DEF CommitDrafts
<1>4. QED
  BY <1>2, <1>3 DEF SoftLimit

-----------------------------------------------------------------------------
(* The reviewers' requests.                                                *)

(* A response that nobody else's commit came before is what was asked for: *)
(* until the commit the value loaded is the value stored.                  *)
RequestInv ==
  /\ \A c \in Clients : req[c].pc # "idle" => req[c].item \in visible
  /\ \A c \in Clients :
       req[c].pc = "loaded" /\ ~req[c].raced => (req[c].old <=> req[c].item \in resolved)
  /\ ResolvedAsAsked

RequestInvariants == QueueInv /\ RequestInv

(* Requests change nothing but the column and the request itself. *)
LEMMA RequestFrame ==
  ASSUME QueueInv, UNCHANGED <<runVars, tableVars, itemLog, visible>>,
         resolved' \subseteq visible, req' \in [Clients -> RequestStates]
  PROVE  QueueInv'
<1> USE DEF QueueInv, runVars, tableVars
<1>1. TypeOK'
  BY DEF TypeOK, RunTypes, ItemTypes, Logged
<1>2. OneScoring'
  BY DEF OneScoring
<1>3. LoggedItems' /\ FlaggedLogged'
  BY DEF LoggedItems, FlaggedLogged, ItemOK, Logged
<1>4. QueueMatchesQuestions'
  BY QueueUnchanged
<1>5. QED
  BY <1>1, <1>2, <1>3, <1>4

LEMMA RequestType ==
  ASSUME TypeOK, NEW c \in Clients, req[c].pc # "idle"
  PROVE  /\ req[c] \in [pc : {"loaded", "committed"}, item : Items, want : BOOLEAN,
                       old : BOOLEAN, raced : BOOLEAN]
BY DEF TypeOK, RequestStates, NoRequest

LEMMA LoadItemStep ==
  ASSUME RequestInvariants, NEW c \in Clients, LoadItem(c)
  PROVE  RequestInvariants'
<1> USE DEF RequestInvariants
<1>1. PICK i \in visible, user \in Users, want \in BOOLEAN :
         req' = [req EXCEPT ![c] = [pc |-> "loaded", item |-> i, want |-> want,
                                    old |-> i \in resolved, raced |-> FALSE]]
  BY DEF LoadItem
<1>2. i \in Items
  BY DEF QueueInv, TypeOK, ItemTypes, Logged
<1>3. (i \in resolved) \in BOOLEAN
  OBVIOUS
<1>4. PICK old \in BOOLEAN : old = (i \in resolved)
  BY <1>3
<1>5. req' = [req EXCEPT ![c] = [pc |-> "loaded", item |-> i, want |-> want,
                                 old |-> old, raced |-> FALSE]]
  BY <1>1, <1>4
<1>6. [pc |-> "loaded", item |-> i, want |-> want, old |-> old, raced |-> FALSE]
        \in RequestStates
  BY <1>2 DEF RequestStates
<1>7. req \in [Clients -> RequestStates]
  BY DEF QueueInv, TypeOK
<1>8. req' \in [Clients -> RequestStates]
  BY <1>5, <1>6, <1>7
<1>9. QueueInv'
  BY <1>8, RequestFrame DEF LoadItem, itemVars, QueueInv, TypeOK, ItemTypes
<1>10. RequestInv'
  <2>1. UNCHANGED <<visible, resolved>> /\ (old <=> i \in resolved)
    BY <1>4 DEF LoadItem, itemVars
  <2>2. \A s \in Clients \ {c} : req'[s] = req[s]
    BY <1>5, <1>7
  <2>3. /\ req'[c].pc = "loaded" /\ req'[c].item = i /\ req'[c].old = old
    BY <1>5, <1>7
  <2>4. QED
    BY <2>1, <2>2, <2>3 DEF RequestInv, ResolvedAsAsked
<1>11. QED
  BY <1>9, <1>10

LEMMA CommitItemStep ==
  ASSUME RequestInvariants, NEW c \in Clients, CommitItem(c)
  PROVE  RequestInvariants'
<1> USE DEF RequestInvariants
<1>1. PICK r : r = req[c]
  OBVIOUS
<1>2. /\ r \in [pc : {"loaded", "committed"}, item : Items, want : BOOLEAN,
               old : BOOLEAN, raced : BOOLEAN]
      /\ r.pc = "loaded" /\ r.item \in visible
      /\ ~r.raced => (r.old <=> r.item \in resolved)
  BY <1>1, RequestType DEF CommitItem, QueueInv, RequestInv
<1>3. /\ resolved' = Written(r)
      /\ req' = [s \in Clients |->
                   IF s = c THEN [r EXCEPT !.pc = "committed"]
                   ELSE IF Under(s, r.item) THEN [req[s] EXCEPT !.raced = TRUE]
                   ELSE req[s]]
  BY <1>1 DEF CommitItem
<1>4. /\ resolved' \subseteq visible
      /\ \A i : i # r.item => (i \in resolved' <=> i \in resolved)
      /\ ~r.raced => (r.want <=> r.item \in resolved')
  <2>1. resolved \subseteq visible
    BY DEF QueueInv, TypeOK, ItemTypes
  <2>2. CASE r.want = r.old
    BY <1>2, <1>3, <2>1, <2>2 DEF Written
  <2>3. CASE r.want # r.old /\ r.want
    BY <1>2, <1>3, <2>1, <2>3 DEF Written
  <2>4. CASE r.want # r.old /\ ~r.want
    BY <1>2, <1>3, <2>1, <2>4 DEF Written
  <2>5. QED
    BY <2>2, <2>3, <2>4
<1>5. /\ req'[c] \in RequestStates
      /\ req'[c].pc = "committed" /\ req'[c].item = r.item
      /\ req'[c].want = r.want /\ req'[c].raced = r.raced
  BY <1>2, <1>3 DEF RequestStates
<1>6. ASSUME NEW s \in Clients, s # c
      PROVE  /\ req'[s] \in RequestStates
             /\ \/ req'[s] = req[s] /\ ~Under(s, r.item)
                \/ /\ req'[s].pc = req[s].pc /\ req'[s].pc # "idle"
                   /\ req'[s].item = req[s].item
                   /\ req'[s].raced
  <2>1. CASE Under(s, r.item)
    <3>1. req'[s] = [req[s] EXCEPT !.raced = TRUE]
      BY <1>3, <1>6, <2>1
    <3>2. /\ req[s].pc # "idle"
          /\ req[s] \in [pc : {"loaded", "committed"}, item : Items, want : BOOLEAN,
                         old : BOOLEAN, raced : BOOLEAN]
      BY <2>1, RequestType DEF Under, QueueInv
    <3>3. QED
      BY <3>1, <3>2 DEF RequestStates
  <2>2. CASE ~Under(s, r.item)
    <3>1. req'[s] = req[s]
      BY <1>3, <1>6, <2>2
    <3>2. QED
      BY <2>2, <3>1 DEF QueueInv, TypeOK
  <2>3. QED
    BY <2>1, <2>2
<1>7. req' \in [Clients -> RequestStates]
  BY <1>3, <1>5, <1>6
<1>8. QueueInv'
  BY <1>4, <1>7, RequestFrame DEF CommitItem
<1>9. RequestInv'
  <2>1. ASSUME NEW s \in Clients
        PROVE  /\ req'[s].pc # "idle" => req'[s].item \in visible'
               /\ req'[s].pc = "loaded" /\ ~req'[s].raced
                    => (req'[s].old <=> req'[s].item \in resolved')
               /\ req'[s].pc = "committed" /\ ~req'[s].raced
                    => (req'[s].want <=> req'[s].item \in resolved')
    <3>1. visible' = visible
      BY DEF CommitItem
    <3>2. CASE s = c
      BY <1>2, <1>4, <1>5, <3>1, <3>2
    <3>3. CASE s # c /\ req'[s] = req[s] /\ ~Under(s, r.item)
      BY <1>4, <3>1, <3>3 DEF RequestInv, ResolvedAsAsked, Under
    <3>4. CASE s # c /\ req'[s].raced /\ req'[s].pc = req[s].pc
               /\ req'[s].item = req[s].item
      BY <3>1, <3>4 DEF RequestInv
    <3>5. QED
      BY <1>6, <3>2, <3>3, <3>4
  <2>2. QED
    BY <2>1 DEF RequestInv, ResolvedAsAsked
<1>10. QED
  BY <1>8, <1>9

LEMMA RespondStep ==
  ASSUME RequestInvariants, NEW c \in Clients, Respond(c)
  PROVE  RequestInvariants'
<1> USE DEF RequestInvariants, Respond, itemVars
<1>1. req' \in [Clients -> RequestStates]
  BY DEF QueueInv, TypeOK, RequestStates
<1>2. QueueInv'
  BY <1>1, RequestFrame DEF QueueInv, TypeOK, ItemTypes
<1>3. \A s \in Clients : req'[s] = req[s] \/ req'[s].pc = "idle"
  BY DEF QueueInv, TypeOK, NoRequest
<1>4. RequestInv'
  BY <1>3 DEF RequestInv, ResolvedAsAsked
<1>5. QED
  BY <1>2, <1>4

-----------------------------------------------------------------------------
(* The theorems.                                                           *)

LEMMA InitRight == Init => RequestInvariants
<1> SUFFICES ASSUME Init
             PROVE  RequestInvariants
  OBVIOUS
<1> USE SizeAssumption DEF Init
<1>1. TypeOK
  BY DEF TypeOK, RunTypes, ItemTypes, Logged, RequestStates
<1>2. OneScoring
  BY DEF OneScoring
<1>3. LoggedItems /\ FlaggedLogged
  BY FlaggedType DEF LoggedItems, FlaggedLogged, Logged
<1>4. QueueMatchesQuestions
  BY FlaggedType DEF QueueMatchesQuestions, ItemsLeadSomewhere, FlaggedAreQueued
<1>5. RequestInv
  BY DEF RequestInv, ResolvedAsAsked, NoRequest
<1>6. QED
  BY <1>1, <1>2, <1>3, <1>4, <1>5 DEF RequestInvariants, QueueInv

LEMMA NextRight == RequestInvariants /\ [Next]_vars => RequestInvariants'
<1> SUFFICES ASSUME RequestInvariants, [Next]_vars
             PROVE  RequestInvariants'
  OBVIOUS
<1>1. QueueInv /\ RequestInv
  BY DEF RequestInvariants
<1>2. ASSUME NEW d \in Docs, Process(d)
      PROVE  RequestInvariants'
  <2>1. QueueInv'
    BY <1>1, <1>2, PlainStep, StartStep, ValidateStep, ExtractStep, DraftStep,
       CompleteStep, SoftLimitStep DEF Process
  <2>2. UNCHANGED <<req, resolved>> /\ visible \subseteq visible'
    BY <1>2 DEF Process, Upload, Start, Validate, Extract, ExtractionClash, Draft,
                Complete, SoftLimit, CommitDrafts, Raise, MarkFailed, Lost, Reap, itemVars
  <2>3. RequestInv'
    BY <1>1, <2>2 DEF RequestInv, ResolvedAsAsked
  <2>4. QED
    BY <2>1, <2>3 DEF RequestInvariants
<1>3. ASSUME NEW c \in Clients, LoadItem(c) \/ CommitItem(c) \/ Respond(c)
      PROVE  RequestInvariants'
  BY <1>3, LoadItemStep, CommitItemStep, RespondStep
<1>4. CASE UNCHANGED vars
  <2>1. QueueInv'
    BY <1>1, <1>4, RequestFrame DEF vars, itemVars, QueueInv, TypeOK, ItemTypes
  <2>2. RequestInv'
    BY <1>1, <1>4 DEF RequestInv, ResolvedAsAsked, vars, itemVars
  <2>3. QED
    BY <2>1, <2>2 DEF RequestInvariants
<1>5. QED
  BY <1>2, <1>3, <1>4 DEF Next

LEMMA Invariants == Spec => []RequestInvariants
BY InitRight, NextRight, PTL DEF Spec

(* The variables keep their types; no review item is made twice, and only  *)
(* flushed items are visible.                                              *)
THEOREM TypeCorrect == Spec => []TypeOK
<1>1. RequestInvariants => TypeOK
  BY DEF RequestInvariants, QueueInv
<1>2. QED
  BY <1>1, Invariants, PTL

(* Every item of the queue leads to a flagged question and its answer, and *)
(* a COMPLETED document has an item for each flagged question, whatever    *)
(* was raised, lost, retried or cut off by the soft limit before.          *)
THEOREM QueueRight == Spec => []QueueMatchesQuestions
<1>1. RequestInvariants => QueueMatchesQuestions
  BY DEF RequestInvariants, QueueInv
<1>2. QED
  BY <1>1, Invariants, PTL

(* A reviewer's response shows what was asked for unless another request   *)
(* for the item committed while this one was under way.                    *)
THEOREM ResponseRight == Spec => []ResolvedAsAsked
<1>1. RequestInvariants => ResolvedAsAsked
  BY DEF RequestInvariants, RequestInv
<1>2. QED
  BY <1>1, Invariants, PTL
=============================================================================

---------------------------- MODULE IntakeProofs ----------------------------
(***************************************************************************)
(* Theorems of module Intake, for any files, limits and number of          *)
(* executions.                                                             *)
(***************************************************************************)
EXTENDS Intake, TLAPS

Limits == HardLimit \in Nat /\ SoftLimit \in Nat /\ TargetSize \in Nat
            /\ MaxPageCount \in Nat \ {0} /\ MaxSize \in Nat

LEMMA LimitsRight == Limits
BY LimitsAssumption, PageLimitAssumption DEF Limits

LEMMA FileRight ==
  ASSUME file \in Uploads
  PROVE  /\ file.kind \in {"pdf", "jpeg", "png", "other"} /\ file.size \in Nat
         /\ file.health \in {"sound", "damaged", "corrupt"} /\ file.pages \in Nat
         /\ file.textual \in SUBSET Nat
         /\ file.width \in Nat /\ file.height \in Nat /\ file.orientation \in Orientations
BY UploadsAssumption DEF Upload

-----------------------------------------------------------------------------
(* Helpers that make contents of contents.                                 *)

(* What the client sent, as stage 1 sees it. *)
Original ==
  [size |-> file.size, health |-> file.health, width |-> file.width,
   height |-> file.height, orientation |-> file.orientation,
   need |-> ToUpright(file.orientation), passes |-> 0]

LEMMA OriginalType ==
  ASSUME file \in Uploads
  PROVE  /\ Original \in Contents
         /\ ToUpright(file.orientation) \in {0, 90, 180, 270}
BY FileRight DEF Original, Contents, Orientations, ToUpright

LEMMA EncodedType ==
  ASSUME NEW d \in Contents, NEW s \in Sizes
  PROVE  /\ Encoded(d, s) \in Contents
         /\ Encoded(d, s).size = s /\ Encoded(d, s).need = d.need
         /\ Encoded(d, s).passes = d.passes + 1
<1> DEFINE p == d.passes + 1
<1>1. s \in Nat
  BY LimitsRight DEF Limits, Sizes
<1>2. d.passes \in Nat
  BY DEF Contents
<1>3. p \in Nat
  BY <1>2
<1>4. Encoded(d, s) = [d EXCEPT !.size = s, !.orientation = 1, !.passes = p]
  BY DEF Encoded
<1> HIDE DEF p
<1>5. [d EXCEPT !.size = s, !.orientation = 1, !.passes = p] \in Contents
  <2>1. 1 \in Orientations
    BY DEF Orientations
  <2>2. QED
    BY <1>1, <1>3, <2>1 DEF Contents
<1>6. /\ Encoded(d, s).size = s /\ Encoded(d, s).need = d.need /\ Encoded(d, s).passes = p
  BY <1>4 DEF Contents
<1>7. QED
  BY <1>4, <1>5, <1>6 DEF p

(* The table of stage 1 turns a picture upright. *)
LEMMA TurnedType ==
  ASSUME file \in Uploads, file.orientation \in Rotated
  PROVE  /\ Turned(Original) \in Contents
         /\ Turned(Original).need = 0 /\ Turned(Original).passes = 0
<1> DEFINE angle == RotationMap(file.orientation)
           w == IF angle = 180 THEN file.width ELSE file.height
           h == IF angle = 180 THEN file.height ELSE file.width
<1>1. angle = ToUpright(file.orientation) /\ angle \in {90, 180, 270}
  BY DEF Rotated, RotationMap, ToUpright
<1>2. /\ Original.orientation = file.orientation /\ Original.need = angle
      /\ Original.width = file.width /\ Original.height = file.height /\ Original.passes = 0
  BY <1>1 DEF Original
<1>3. (angle - angle) % 360 = 0
  BY <1>1
<1>4. w \in Nat /\ h \in Nat
  BY FileRight
<1>5. Turned(Original) = [Original EXCEPT !.need = 0, !.width = w, !.height = h]
  BY <1>2, <1>3 DEF Turned
<1> HIDE DEF w, h
<1>6. Original \in Contents
  BY OriginalType
<1>7. [Original EXCEPT !.need = 0, !.width = w, !.height = h] \in Contents
  BY <1>4, <1>6 DEF Contents
<1>8. Turned(Original).need = 0 /\ Turned(Original).passes = Original.passes
  BY <1>5, <1>6 DEF Contents
<1>9. QED
  BY <1>2, <1>5, <1>7, <1>8

LEMMA ResizeType ==
  ASSUME NEW d \in Contents
  PROVE  /\ Resize(d) \in Contents
         /\ Resize(d).size = d.size /\ Resize(d).need = d.need /\ Resize(d).passes = d.passes
<1>1. CASE d.width <= MaxDim /\ d.height <= MaxDim
  BY <1>1 DEF Resize
<1>2. ASSUME NEW a \in Nat, NEW b \in Nat \ {0}
      PROVE  (a * MaxDim) \div b \in Nat
  BY BoundsAssumption
<1>4. d.width \in Nat /\ d.height \in Nat /\ MaxDim \in Nat \ {0}
  BY BoundsAssumption DEF Contents
<1>5. CASE ~(d.width <= MaxDim /\ d.height <= MaxDim) /\ d.width > d.height
  <2> DEFINE a == (d.height * MaxDim) \div d.width
  <2>1. Resize(d) = [d EXCEPT !.width = MaxDim, !.height = a]
    BY <1>5 DEF Resize
  <2>2. d.width \in Nat \ {0}
    BY <1>4, <1>5
  <2>3. a \in Nat
    BY <1>2, <1>4, <2>2
  <2> HIDE DEF a
  <2>4. [d EXCEPT !.width = MaxDim, !.height = a] \in Contents
    BY <1>4, <2>3 DEF Contents
  <2>5. QED
    BY <2>1, <2>4 DEF Contents
<1>6. CASE ~(d.width <= MaxDim /\ d.height <= MaxDim) /\ ~(d.width > d.height)
  <2> DEFINE a == (d.width * MaxDim) \div d.height
  <2>1. Resize(d) = [d EXCEPT !.height = MaxDim, !.width = a]
    BY <1>6 DEF Resize
  <2>2. d.height \in Nat \ {0}
    BY <1>4, <1>6
  <2>3. a \in Nat
    BY <1>2, <1>4, <2>2
  <2> HIDE DEF a
  <2>4. [d EXCEPT !.height = MaxDim, !.width = a] \in Contents
    BY <1>4, <2>3 DEF Contents
  <2>5. QED
    BY <2>1, <2>4 DEF Contents
<1>7. QED
  BY <1>1, <1>5, <1>6

-----------------------------------------------------------------------------
(* The invariant.                                                          *)

FileInv ==
  /\ file \in Uploads
  /\ pc \in {"request", "refused", "normalise", "ghostscript", "pikepdf", "image",
             "store", "render", "text", "done", "failed"}
  /\ executions \in 0..MaxExecutions
  /\ raw \in Contents \cup {NoFile}
  /\ pc \notin {"request", "refused"} => raw = Original /\ Accepted(file)

(* How data is turned, as the warnings tell it. *)
Upright(d, w) ==
  d.need = IF "exif_rotation_applied" \in w /\ "image_validation_warning" \notin w
             THEN 0 ELSE ToUpright(file.orientation)

(* An execution begins afresh; then the ladder of the compressor: each     *)
(* preset encodes once, and nothing counts as applied before its last step.*)
LadderInv ==
  /\ data \in Contents \cup {NoFile} /\ entry \in Nat /\ rung \in 1..3
  /\ applied \in BOOLEAN /\ warnings \in Warnings
  /\ pc \in {"request", "normalise"} => rung = 1 /\ ~applied
  /\ pc \in {"ghostscript", "pikepdf", "image", "store"} =>
       data \in Contents /\ Upright(data, warnings) /\ data.passes <= 2
  /\ pc \in {"ghostscript", "pikepdf"} =>
       file.kind = "pdf" /\ entry > TargetSize /\ ~applied
  /\ pc = "ghostscript" => rung \in {1, 2} /\ data.passes <= rung - 1
  /\ pc = "pikepdf" => rung = 3
  /\ pc = "image" => file.kind # "pdf" /\ data.passes <= 1
  /\ pc = "store" /\ file.kind = "pdf" => (applied <=> data.size < entry)
  /\ LossOfOneExecution

(* An execution spills once: it is cut off on a preset, or comes to the    *)
(* last resort with the file of the second preset at most.                 *)
SpillInv ==
  /\ temps \in Nat /\ spills \in Nat /\ spills <= executions
  /\ pc = "request" => spills = 0
  /\ pc \in {"normalise", "ghostscript"} => spills < executions
  /\ pc = "pikepdf" => temps + 2 <= 3 * spills
  /\ TempsForCause

(* What the document says of its pages. *)
Counted ==
  /\ stored.page_count = PageCount
  /\ stored.pages_to_process = PagesToProcess
  /\ stored.pages_skipped = PageCount - PagesToProcess

StoredInv ==
  /\ stored \in Stored \cup {NoFile}
  /\ pc \in {"render", "text", "done"} => stored \in Stored /\ Counted
  /\ stored # NoFile => raw = Original
  /\ AppliedMeansSmaller /\ TurnedRight

(* The pages so far: rendered in order, the first ones read. *)
PageInv(i) ==
  /\ pages[i].number = i
  /\ pages[i].native <=> file.kind = "pdf" /\ i \in file.textual
  /\ i <= read => /\ pages[i].confidence # "unset"
                  /\ pages[i].native =>
                       pages[i].text = "native" /\ pages[i].confidence = "full"

PagesInv ==
  /\ pages \in Seq(PageData) /\ read \in Nat
  /\ pc \notin {"render", "text", "done"} => pages = <<>> /\ read = 0
  /\ pc = "render" => Len(pages) <= NumPages /\ read = 0
  /\ pc \in {"text", "done"} => Len(pages) = NumPages /\ read <= Len(pages)
  /\ pc = "done" => read = Len(pages)
  /\ \A i \in 1..Len(pages) : PageInv(i)

IntakeInv == FileInv /\ LadderInv /\ SpillInv /\ StoredInv /\ PagesInv

(* All the ways an execution ends early. *)
CutOff == Raises \/ CleanupRaises \/ Lost

LEMMA CutOffGivesUp == CutOff => GiveUp /\ Working
BY DEF CutOff, Raises, CleanupRaises, Lost, Working

-----------------------------------------------------------------------------
(* The file, and how stage 1 begins. *)

LEMMA FileStep == FileInv /\ [Next]_vars => FileInv'
<1> SUFFICES ASSUME FileInv, [Next]_vars PROVE FileInv'
  OBVIOUS
<1> USE DEF FileInv, vars
<1>1. CASE Accept
  BY <1>1, OriginalType, BoundsAssumption DEF Accept, Original, Accepted, AcceptedKind,
     AcceptedSize
<1>2. CASE Refuse
  BY <1>2 DEF Refuse
<1>3. CASE CutOff
  BY <1>3, CutOffGivesUp, BoundsAssumption DEF GiveUp, Working, Accepted, AcceptedKind,
     AcceptedSize, Original
<1>4. CASE Stage1
  BY <1>4 DEF Stage1, ValidatePdf, ValidateImage, Normalised, CompressWith, Ghostscript,
     GhostscriptFails, NextRung, Pikepdf, PikepdfFails, CompressImage, Compressed, Store,
     Accepted, AcceptedKind, AcceptedSize, Original
<1>5. CASE Stage2 \/ Stage3
  BY <1>5 DEF Stage2, Stage3, RenderPage, RenderFails, EndRender, TakeNativeText,
     RecognisePage, NothingToRead, Extracted, Unread, Persist, Accepted, AcceptedKind,
     AcceptedSize, Original
<1>6. CASE UNCHANGED vars
  BY <1>6 DEF Accepted, AcceptedKind, AcceptedSize, Original
<1>7. QED
  BY <1>1, <1>2, <1>3, <1>4, <1>5, <1>6 DEF Next, CutOff

LEMMA NormalisedLadder ==
  ASSUME FileInv, LadderInv, pc = "normalise", NEW d \in Contents, NEW w \in Warnings,
         Upright(d, w), d.passes <= 1, file.kind = "pdf" => d.passes = 0, Normalised(d, w)
  PROVE  LadderInv'
<1> USE DEF FileInv, LadderInv, Normalised, LossOfOneExecution
<1>1. /\ d.size \in Nat /\ d.passes \in Nat
      /\ TargetSize \in Nat
  BY LimitsRight DEF Contents, Limits
<1>2. pc' = "store" \/ (pc' = "ghostscript" /\ file.kind = "pdf" /\ d.size > TargetSize)
        \/ (pc' = "image" /\ file.kind # "pdf")
  BY <1>1 DEF CompressWith
<1>3. Upright(data, warnings)'
  BY DEF Upright
<1>4. QED
  BY <1>1, <1>2, <1>3

LEMMA ValidationLadder ==
  ASSUME FileInv, LadderInv, ValidatePdf \/ ValidateImage
  PROVE  LadderInv'
<1>1. /\ pc = "normalise" /\ raw = Original /\ Original \in Contents
      /\ Original.need = ToUpright(file.orientation) /\ Original.passes = 0
      /\ Original.orientation = file.orientation
  BY OriginalType DEF ValidatePdf, ValidateImage, FileInv, Original
<1>2. CASE ValidatePdf
  <2>1. PageWarning \in Warnings /\ "exif_rotation_applied" \notin PageWarning
    BY DEF PageWarning, Warnings
  <2>2. ASSUME NEW s \in Sizes
        PROVE  /\ [Original EXCEPT !.size = s] \in Contents
               /\ [Original EXCEPT !.size = s].need = Original.need
               /\ [Original EXCEPT !.size = s].passes = 0
    <3>1. s \in Nat
      BY LimitsRight DEF Sizes, Limits
    <3>2. QED
      BY <1>1, <3>1 DEF Contents
  <2>3. CASE Normalised(raw, PageWarning)
    BY <1>1, <2>1, <2>3, NormalisedLadder DEF Upright
  <2>4. CASE \E s \in Sizes : Normalised([raw EXCEPT !.size = s], PageWarning)
    <3>1. PICK s \in Sizes : Normalised([raw EXCEPT !.size = s], PageWarning)
      BY <2>4
    <3>2. Upright([Original EXCEPT !.size = s], PageWarning)
      BY <1>1, <2>1, <2>2 DEF Upright
    <3> DEFINE d == [Original EXCEPT !.size = s]
    <3>3. d \in Contents /\ d.passes = 0 /\ Normalised(d, PageWarning)
      BY <1>1, <2>2, <3>1
    <3>4. Upright(d, PageWarning)
      BY <3>2
    <3> HIDE DEF d
    <3>5. QED
      BY <1>1, <2>1, <3>3, <3>4, NormalisedLadder
  <2>5. QED
    BY <1>2, <2>3, <2>4 DEF ValidatePdf
<1>3. CASE ValidateImage
  <2>1. file.kind # "pdf" /\ raw = Original
    BY <1>1, <1>3 DEF ValidateImage
  <2>2. /\ {} \in Warnings /\ {"exif_rotation_applied"} \in Warnings
        /\ {"image_validation_warning"} \in Warnings
        /\ {"exif_rotation_applied", "image_validation_warning"} \in Warnings
    BY DEF Warnings
  <2>3. ASSUME NEW s \in Sizes, file.orientation \in Rotated,
               Normalised(Encoded(Turned(raw), s), {"exif_rotation_applied"})
        PROVE  LadderInv'
    <3>1. /\ Turned(Original) \in Contents /\ Turned(Original).need = 0
          /\ Turned(Original).passes = 0
      BY <2>3, TurnedType DEF FileInv
    <3>2. LET d == Encoded(Turned(Original), s) IN
            d \in Contents /\ d.need = 0 /\ d.passes = 0 + 1
      BY <3>1, EncodedType
    <3>3. QED
      BY <1>1, <2>1, <2>2, <2>3, <3>2, NormalisedLadder DEF Upright
  <2>4. ASSUME NEW s \in Sizes, Normalised(Encoded(raw, s), {})
        PROVE  LadderInv'
    <3>1. LET d == Encoded(Original, s) IN
            d \in Contents /\ d.need = Original.need /\ d.passes = 0 + 1
      BY <1>1, EncodedType
    <3>2. Upright(Encoded(Original, s), {})
      BY <1>1, <3>1 DEF Upright
    <3>3. QED
      BY <1>1, <2>1, <2>2, <2>4, <3>1, <3>2, NormalisedLadder
  <2>5. CASE Normalised(raw, {"exif_rotation_applied", "image_validation_warning"})
    BY <1>1, <2>1, <2>2, <2>5, NormalisedLadder DEF Upright
  <2>6. CASE Normalised(raw, {"image_validation_warning"})
    BY <1>1, <2>1, <2>2, <2>6, NormalisedLadder DEF Upright
  <2>7. QED
    BY <1>1, <1>3, <2>3, <2>4, <2>5, <2>6 DEF ValidateImage
<1>4. QED
  BY <1>2, <1>3

(* applied is the result of a comparison. *)
LEMMA ComparisonHolds ==
  ASSUME NEW m \in Nat, NEW n \in Nat, NEW x, x = (m < n)
  PROVE  x \in BOOLEAN /\ (x <=> m < n)
<1>1. (m < n) \in BOOLEAN
  OBVIOUS
<1>2. x \in BOOLEAN
  BY <1>1, Zenon
<1>3. x <=> m < n
  BY Zenon
<1>4. QED
  BY <1>2, <1>3, Zenon

(* One rung of the ladder or another. *)
LEMMA CompressionLadder ==
  ASSUME FileInv, LadderInv,
         Ghostscript \/ GhostscriptFails \/ Pikepdf \/ PikepdfFails \/ CompressImage
  PROVE  LadderInv'
<1> USE DEF FileInv, LadderInv, Compressed, LossOfOneExecution
<1>1. /\ data \in Contents /\ Upright(data, warnings) /\ data.passes \in Nat
      /\ data.size \in Nat /\ TargetSize \in Nat
  BY LimitsRight DEF Limits, Contents, Ghostscript, GhostscriptFails, Pikepdf, PikepdfFails,
     CompressImage
<1>2. CASE Ghostscript
  <2>1. PICK s \in Sizes : LET d == [Encoded(data, s) EXCEPT !.health = "sound"] IN
          IF s <= TargetSize
            THEN Compressed(d, TRUE) /\ pc' = "store" /\ UNCHANGED rung
            ELSE Compressed(d, applied) /\ NextRung
    BY <1>2 DEF Ghostscript
  <2> DEFINE d == [Encoded(data, s) EXCEPT !.health = "sound"]
  <2>2. d \in Contents /\ d.size = s /\ d.need = data.need /\ d.passes = data.passes + 1
    <3>1. Encoded(data, s) \in Contents /\ Encoded(data, s).size = s
            /\ Encoded(data, s).need = data.need /\ Encoded(data, s).passes = data.passes + 1
      BY <1>1, EncodedType
    <3>2. QED
      BY <3>1 DEF Contents
  <2>3. data' = d /\ UNCHANGED <<file, entry, warnings>> /\ s \in Nat
    BY <2>1, LimitsRight DEF Sizes, Limits
  <2>4. Upright(data, warnings)'
    BY <1>1, <2>2, <2>3 DEF Upright
  <2>5. pc = "ghostscript" /\ file.kind = "pdf" /\ ~applied
    BY <1>2 DEF Ghostscript
  <2> HIDE DEF d
  <2>6. CASE s <= TargetSize
    <3>1. pc' = "store" /\ applied' = TRUE /\ UNCHANGED rung
      BY <2>1, <2>6
    <3>2. QED
      BY <1>1, <2>2, <2>3, <2>4, <2>5, <2>6, <3>1
  <2>7. CASE ~(s <= TargetSize)
    <3>1. NextRung /\ UNCHANGED applied
      BY <2>1, <2>7
    <3>2. QED
      BY <1>1, <2>2, <2>3, <2>4, <2>5, <2>7, <3>1 DEF NextRung
  <2>8. QED
    BY <2>6, <2>7
<1>3. CASE GhostscriptFails
  <2>1. Upright(data, warnings)'
    BY <1>1, <1>3 DEF GhostscriptFails, Upright
  <2>2. QED
    BY <1>1, <1>3, <2>1 DEF GhostscriptFails, NextRung
<1>4. CASE Pikepdf
  <2>1. PICK s \in Sizes :
          IF s < entry THEN Compressed([data EXCEPT !.size = s], TRUE)
          ELSE Compressed(data, data.size < entry)
    BY <1>4 DEF Pikepdf
  <2>2. s \in Nat
    BY LimitsRight DEF Sizes, Limits
  <2>3. /\ [data EXCEPT !.size = s] \in Contents /\ [data EXCEPT !.size = s].size = s
        /\ [data EXCEPT !.size = s].need = data.need
        /\ [data EXCEPT !.size = s].passes = data.passes
    BY <1>1, <2>2 DEF Contents
  <2>4. /\ data' \in Contents /\ data'.need = data.need /\ data'.passes = data.passes
        /\ UNCHANGED <<file, entry, warnings, rung>>
        /\ pc' = "store" /\ pc = "pikepdf"
    BY <1>1, <1>4, <2>1, <2>3 DEF Pikepdf
  <2>5. applied' \in BOOLEAN /\ (applied' <=> data'.size < entry)
    <3>1. CASE s < entry
      BY <2>1, <2>3, <3>1
    <3>2. CASE ~(s < entry)
      BY <1>1, <2>1, <3>2, ComparisonHolds
    <3>3. QED
      BY <3>1, <3>2
  <2>6. Upright(data, warnings)'
    BY <1>1, <2>4 DEF Upright
  <2>7. QED
    BY <1>1, <2>4, <2>5, <2>6
<1>5. CASE PikepdfFails
  <2>1. /\ data' = data /\ UNCHANGED <<file, entry, warnings, rung>>
        /\ pc' = "store" /\ pc = "pikepdf"
    BY <1>5 DEF PikepdfFails
  <2>2. applied' \in BOOLEAN /\ (applied' <=> data'.size < entry)
    BY <1>1, <1>5, <2>1, ComparisonHolds DEF PikepdfFails
  <2>3. Upright(data, warnings)'
    BY <1>1, <2>1 DEF Upright
  <2>4. QED
    BY <1>1, <2>1, <2>2, <2>3
<1>6. CASE CompressImage
  <2>1. /\ pc = "image" /\ pc' = "store" /\ file.kind # "pdf"
        /\ UNCHANGED <<file, entry, warnings, rung>>
        /\ applied' \in BOOLEAN
    BY <1>6 DEF CompressImage
  <2>2. /\ data' \in Contents /\ data'.need = data.need /\ data'.passes <= data.passes + 1
        /\ data'.passes \in Nat
    <3>1. CASE data' = data
      BY <1>1, <3>1
    <3>2. ASSUME NEW s \in Sizes, data' = Encoded(Resize(data), s)
          PROVE  <2>2
      BY <1>1, <3>2, ResizeType, EncodedType
    <3>3. QED
      BY <1>6, <3>1, <3>2 DEF CompressImage
  <2>3. Upright(data, warnings)'
    BY <1>1, <2>1, <2>2 DEF Upright
  <2>4. QED
    BY <1>1, <2>1, <2>2, <2>3
<1>7. QED
  BY <1>2, <1>3, <1>4, <1>5, <1>6

LEMMA LadderStep == FileInv /\ LadderInv /\ [Next]_vars => LadderInv'
<1> SUFFICES ASSUME FileInv, LadderInv, [Next]_vars PROVE LadderInv'
  OBVIOUS
<1> USE DEF LossOfOneExecution, execution
<1>1. CASE CutOff
  <2>1. {} \in Warnings /\ pc' \in {"failed", "normalise"}
    BY <1>1, CutOffGivesUp DEF Warnings, GiveUp
  <2>2. data' = NoFile /\ entry' = 0 /\ rung' = 1 /\ ~applied' /\ applied' \in BOOLEAN
          /\ warnings' = {}
    BY <1>1, CutOffGivesUp DEF GiveUp
  <2>3. QED
    BY <2>1, <2>2 DEF LadderInv
<1>2. CASE ValidatePdf \/ ValidateImage
  BY <1>2, ValidationLadder
<1>3. CASE Ghostscript \/ GhostscriptFails \/ Pikepdf \/ PikepdfFails \/ CompressImage
  BY <1>3, CompressionLadder
<1>4. CASE Refuse \/ Accept \/ Store \/ Stage2 \/ Stage3 \/ UNCHANGED vars
  <2>1. /\ UNCHANGED <<data, entry, rung, applied, warnings, file>>
        /\ \/ pc' = pc
           \/ pc = "request" /\ pc' \in {"refused", "normalise"}
           \/ pc' \in {"render", "text", "done"}
    BY <1>4 DEF Refuse, Accept, Store, Stage2, RenderPage, RenderFails, EndRender, Stage3,
       TakeNativeText, RecognisePage, NothingToRead, Extracted, Persist, vars
  <2>2. QED
    BY <2>1 DEF LadderInv, Upright
<1>5. QED
  BY <1>1, <1>2, <1>3, <1>4 DEF Next, Stage1, CutOff

LEMMA LeftOver ==
  ASSUME NEW t \in Nat, NEW n \in Nat, NEW u \in t..(t + 2)
  PROVE  /\ u \in Nat /\ n + 1 \in Nat /\ u <= t + 2
         /\ t <= 3 * n => u <= 3 * (n + 1)
         /\ t + 2 <= 3 * n => u <= 3 * n
         /\ t <= 3 * n => t + 2 <= 3 * (n + 1) /\ (t + 1) + 2 <= 3 * (n + 1)
OBVIOUS

(* What is left on the disk, and by how many executions. *)
LEMMA SpillStep == FileInv /\ LadderInv /\ SpillInv /\ [Next]_vars => SpillInv'
<1> SUFFICES ASSUME FileInv, LadderInv, SpillInv, [Next]_vars PROVE SpillInv'
  OBVIOUS
<1> USE DEF SpillInv, TempsForCause, disk
<1>1. executions \in Nat
  BY BoundsAssumption DEF FileInv
<1>2. CASE CutOff
  <2>1. \/ pc' = "failed" /\ executions' = executions
        \/ pc' = "normalise" /\ executions' = executions + 1
    BY <1>2, CutOffGivesUp DEF GiveUp
  <2>2. CASE UNCHANGED disk
    BY <1>1, <2>1, <2>2
  <2>3. CASE pc = "ghostscript" /\ temps' \in temps..(temps + 2) /\ spills' = spills + 1
    <3>1. temps' \in Nat /\ spills' \in Nat /\ temps' <= 3 * spills'
      BY <2>3, LeftOver
    <3>2. spills' <= executions' /\ (pc' = "normalise" => spills' < executions')
      <4>1. spills < executions /\ spills \in Nat
        BY <2>3
      <4>2. QED
        BY ONLY <1>1, <2>1, <2>3, <4>1
    <3>3. pc' \in {"failed", "normalise"}
      BY <2>1
    <3>4. QED
      BY ONLY <3>1, <3>2, <3>3 DEF SpillInv, TempsForCause
  <2>4. CASE pc = "pikepdf" /\ temps' \in temps..(temps + 2) /\ UNCHANGED spills
    <3>1. temps' \in Nat /\ temps' <= 3 * spills'
      BY <2>4, LeftOver
    <3>2. spills' \in Nat /\ spills' <= executions'
            /\ (pc' = "normalise" => spills' < executions')
      <4>1. spills <= executions /\ spills \in Nat
        BY <2>4
      <4>2. QED
        BY ONLY <1>1, <2>1, <2>4, <4>1
    <3>3. pc' \in {"failed", "normalise"}
      BY <2>1
    <3>4. QED
      BY ONLY <3>1, <3>2, <3>3 DEF SpillInv, TempsForCause
  <2>5. QED
    BY <1>2, <2>2, <2>3, <2>4 DEF CutOff, Raises, CleanupRaises, Lost
<1>3. CASE Accept
  BY <1>3 DEF Accept
<1>4. CASE ValidatePdf \/ ValidateImage
  <2>1. pc = "normalise" /\ UNCHANGED <<executions, disk>>
          /\ pc' \in {"store", "ghostscript", "image"}
    BY <1>4 DEF ValidatePdf, ValidateImage, Normalised, CompressWith
  <2>2. QED
    BY <1>1, <2>1
<1>5. CASE Ghostscript \/ GhostscriptFails
  <2>1. pc = "ghostscript" /\ rung \in {1, 2} /\ UNCHANGED executions
    BY <1>5 DEF Ghostscript, GhostscriptFails, Compressed, LadderInv
  <2>2. CASE pc' = "store" /\ UNCHANGED disk
    BY <1>1, <2>1, <2>2
  <2>3. CASE NextRung /\ temps' \in {temps, temps + (rung - 1)}
    <3>1. CASE rung = 1
      BY <1>1, <2>1, <2>3, <3>1 DEF NextRung
    <3>2. CASE rung = 2
      <4>1. pc' = "pikepdf" /\ spills' = spills + 1 /\ temps' \in {temps, temps + 1}
        BY <2>3, <3>2 DEF NextRung
      <4>2. temps' \in Nat /\ temps' + 2 <= 3 * spills' /\ temps' <= 3 * spills'
        <5>1. temps \in temps..(temps + 2) /\ temps <= 3 * spills
          OBVIOUS
        <5>2. temps + 2 <= 3 * (spills + 1) /\ (temps + 1) + 2 <= 3 * (spills + 1)
          BY <5>1, LeftOver
        <5>3. spills \in Nat /\ temps \in Nat
          OBVIOUS
        <5>4. temps' + 2 <= 3 * (spills + 1)
          BY <4>1, <5>2
        <5>5. temps' \in Nat
          BY ONLY <4>1, <5>3
        <5>6. temps' + 2 <= 3 * spills'
          BY <4>1, <5>4, Zenon
        <5>7. spills' \in Nat
          BY ONLY <4>1, <5>3
        <5>8. ASSUME NEW t \in Nat, NEW n \in Nat, t + 2 <= 3 * n
              PROVE  t <= 3 * n
          BY ONLY <5>8
        <5>9. temps' <= 3 * spills'
          BY <5>5, <5>6, <5>7, <5>8
        <5>10. QED
          BY <5>5, <5>6, <5>9
      <4>3. spills' \in Nat /\ spills' <= executions
        BY <1>1, <2>1, <4>1
      <4>4. QED
        BY <2>1, <4>1, <4>2, <4>3
    <3>3. QED
      BY <2>1, <3>1, <3>2
  <2>4. QED
    BY <1>5, <2>2, <2>3 DEF Ghostscript, GhostscriptFails
<1>6. CASE Pikepdf \/ PikepdfFails
  <2>1. pc = "pikepdf" /\ pc' = "store" /\ UNCHANGED <<executions, spills>>
          /\ temps' \in temps..(temps + 2)
    BY <1>6 DEF Pikepdf, PikepdfFails, Compressed
  <2>2. QED
    BY <1>1, <2>1
<1>7. CASE Refuse \/ CompressImage \/ Store \/ Stage2 \/ Stage3 \/ UNCHANGED vars
  <2>1. /\ UNCHANGED <<executions, disk>>
        /\ \/ pc' = pc
           \/ pc' \in {"refused", "store", "render", "text", "done"}
    BY <1>7 DEF Refuse, CompressImage, Compressed, Store, Stage2, RenderPage, RenderFails,
       EndRender, Stage3, TakeNativeText, RecognisePage, NothingToRead, Extracted, Persist,
       vars
  <2>2. QED
    BY <1>1, <2>1
<1>8. QED
  BY <1>2, <1>3, <1>4, <1>5, <1>6, <1>7 DEF Next, Stage1, CutOff

-----------------------------------------------------------------------------
(* What stage 1 hands on. *)

LEMMA ResultRight ==
  ASSUME FileInv, LadderInv, Store
  PROVE  /\ Result \in Stored
         /\ Result.page_count = PageCount /\ Result.pages_to_process = PagesToProcess
         /\ Result.pages_skipped = PageCount - PagesToProcess
<1>1. /\ PageCount \in Nat /\ PagesToProcess \in Nat
      /\ PageCount - PagesToProcess \in Nat
  BY FileRight, LimitsRight DEF FileInv, Limits, PageCount, PagesToProcess
<1>2. /\ warnings \cup SizeWarning \in Warnings /\ data \in Contents
      /\ entry \in Nat /\ applied \in BOOLEAN
  BY DEF Store, LadderInv, Warnings, SizeWarning
<1>3. QED
  BY <1>1, <1>2 DEF Result, Stored

LEMMA StoreKeeps ==
  ASSUME FileInv, LadderInv, StoredInv, Store
  PROVE  StoredInv'
<1>1. /\ pc = "store" /\ pc' = "render" /\ stored' = Result /\ raw = Original
      /\ data \in Contents /\ Upright(data, warnings) /\ Accepted(file)
      /\ UNCHANGED <<file, raw>>
  BY DEF Store, FileInv, LadderInv
<1>2. Result \in Stored
  BY ResultRight
<1>3. Counted'
  BY <1>1, ResultRight DEF Counted, PageCount, PagesToProcess
<1>4. AppliedMeansSmaller'
  <2>1. file.kind = "pdf" => (applied <=> data.size < entry)
    BY <1>1 DEF LadderInv
  <2>2. Result.applied = applied /\ Result.data = data /\ Result.entry = entry
    BY DEF Result
  <2>3. QED
    BY <1>1, <2>1, <2>2 DEF AppliedMeansSmaller
<1>5. TurnedRight'
  <2>1. Result.data = data /\ Result.warnings = warnings \cup SizeWarning
    BY DEF Result
  <2>2. SizeWarning \subseteq {"large_file"}
    BY DEF SizeWarning
  <2>3. QED
    BY <1>1, <2>1, <2>2 DEF TurnedRight, Upright
<1>6. QED
  BY <1>1, <1>2, <1>3, <1>4, <1>5 DEF StoredInv, FileInv, Original

LEMMA StoredStep == FileInv /\ LadderInv /\ StoredInv /\ [Next]_vars => StoredInv'
<1> SUFFICES ASSUME FileInv, LadderInv, StoredInv, [Next]_vars PROVE StoredInv'
  OBVIOUS
<1>1. CASE Store
  BY <1>1, StoreKeeps
<1>2. CASE Accept
  <2>1. /\ raw' = Original /\ UNCHANGED <<file, stored>> /\ pc' = "normalise"
    BY <1>2 DEF Accept, Original
  <2>2. stored # NoFile => raw' = raw
    BY <2>1 DEF StoredInv
  <2>3. QED
    BY <2>1, <2>2 DEF StoredInv, Original, AppliedMeansSmaller, TurnedRight
<1>3. CASE ~Store /\ ~Accept
  <2>1. /\ UNCHANGED <<file, raw, stored>>
        /\ pc' \in {"render", "text", "done"} => pc \in {"render", "text", "done"}
    BY <1>3, CutOffGivesUp DEF Next, CutOff, Refuse, GiveUp, Stage1, ValidatePdf, ValidateImage, Normalised,
       CompressWith, Ghostscript, GhostscriptFails, NextRung, Pikepdf, PikepdfFails,
       CompressImage, Compressed, Stage2, RenderPage, RenderFails, EndRender, Stage3,
       TakeNativeText, RecognisePage, NothingToRead, Extracted, Unread, Persist, vars
  <2>2. QED
    BY <2>1 DEF StoredInv, Original, Counted, PageCount, PagesToProcess,
       AppliedMeansSmaller, TurnedRight
<1>4. QED
  BY <1>1, <1>2, <1>3

-----------------------------------------------------------------------------
(* Pages. *)

LEMMA NumPagesRight ==
  ASSUME FileInv, stored \in Stored, Counted
  PROVE  /\ NumPages = stored.pages_to_process /\ NumPages \in Nat
         /\ NumPages <= MaxPageCount /\ NumPages + stored.pages_skipped = stored.page_count
BY FileRight, LimitsRight DEF FileInv, Limits, Counted, NumPages, PageCount, PagesToProcess, Least

LEMMA PageType ==
  ASSUME NEW image \in Dims, NEW flags \in SUBSET {"render_failed", "resized", "ocr_failed"},
         NEW k \in Nat, NEW native \in BOOLEAN
  PROVE  [number |-> k, image |-> image, native |-> native, text |-> "",
          confidence |-> "unset", flags |-> flags] \in PageData
BY DEF PageData

(* A page is appended: by RenderPage, or by RenderFails without its image. *)
LEMMA PageAdded ==
  ASSUME FileInv, PagesInv, pc = "render", Len(pages) < NumPages, stored \in Stored, Counted,
         NEW image \in Dims, NEW flags \in SUBSET {"render_failed", "resized", "ocr_failed"},
         pages' = Append(pages, Page(image, Native, flags)),
         UNCHANGED <<file, pc, stored, read>>
  PROVE  PagesInv'
<1>1. pages \in Seq(PageData) /\ Len(pages) \in Nat /\ read = 0 /\ NumPages \in Nat
  BY NumPagesRight DEF PagesInv
<1>2. Native \in BOOLEAN
  BY DEF Native
<1>3. Page(image, Native, flags) \in PageData
  <2>1. Len(pages) + 1 \in Nat
    BY <1>1
  <2>2. QED
    BY <1>2, <2>1, PageType DEF Page
<1>4. /\ pages' \in Seq(PageData) /\ Len(pages') = Len(pages) + 1
      /\ \A i \in 1..Len(pages) : pages'[i] = pages[i]
      /\ pages'[Len(pages) + 1] = Page(image, Native, flags)
  BY <1>1, <1>3
<1>5. NumPages' = NumPages
  BY DEF NumPages
<1>6. ASSUME NEW i \in 1..Len(pages)
      PROVE  PageInv(i)'
  BY <1>4, <1>6 DEF PagesInv, PageInv
<1>7. ASSUME NEW k, k = Len(pages) + 1
      PROVE  PageInv(k)'
  <2>1. /\ Page(image, Native, flags).number = k
        /\ Page(image, Native, flags).native <=> file.kind = "pdf" /\ k \in file.textual
    BY <1>7 DEF Page, Native
  <2>2. ~(k <= read')
    BY <1>1, <1>7
  <2>3. QED
    BY <1>4, <1>7, <2>1, <2>2 DEF PageInv
<1>8. ASSUME NEW i \in 1..Len(pages')
      PROVE  PageInv(i)'
  <2>1. i \in 1..Len(pages) \/ i = Len(pages) + 1
    BY <1>1, <1>4, <1>8
  <2>2. QED
    BY <1>6, <1>7, <2>1
<1>9. \A i \in 1..Len(pages') : PageInv(i)'
  BY <1>8
<1>10. QED
  BY <1>1, <1>4, <1>5, <1>9 DEF PagesInv

LEMMA SeqIndex ==
  ASSUME NEW S, NEW s \in Seq(S), NEW n \in Nat, n < Len(s)
  PROVE  Len(s) \in Nat /\ n + 1 \in 1..Len(s) /\ s[n + 1] \in S
OBVIOUS

LEMMA SeqExcept ==
  ASSUME NEW S, NEW s \in Seq(S), NEW k \in 1..Len(s), NEW e \in S,
         NEW t, t = [s EXCEPT ![k] = e]
  PROVE  /\ t \in Seq(S) /\ Len(t) = Len(s) /\ t[k] = e
         /\ \A i \in 1..Len(s) : i # k => t[i] = s[i]
OBVIOUS

Texts == {"", "native", "ocr"}

(* A text layer is read as it is. *)
NativeAsIs(words, sure) ==
  pages[read + 1].native => words = "native" /\ sure = "full"

(* Stage 3 fills in the text of the next page. *)
LEMMA PageReadOut ==
  ASSUME FileInv, PagesInv, Unread, NEW words \in Texts,
         NEW sure \in {"zero", "ocr", "full"},
         NEW flags \in SUBSET {"ocr_failed"}, Extracted(words, sure, flags),
         NativeAsIs(words, sure)
  PROVE  PagesInv'
<1>0. PICK k : k = read + 1
  OBVIOUS
<1>1. /\ pages \in Seq(PageData) /\ read \in Nat /\ read' = k /\ read < Len(pages)
      /\ pc = "text" /\ pc' = "text" /\ UNCHANGED <<file, stored>>
  BY <1>0 DEF PagesInv, Unread, Extracted
<1>2. Len(pages) \in Nat /\ k \in 1..Len(pages) /\ pages[k] \in PageData
  BY ONLY <1>0, <1>1, SeqIndex
<1>3. pages' = [pages EXCEPT ![k] = [pages[k] EXCEPT !.text = words, !.confidence = sure,
                                                     !.flags = @ \cup flags]]
  BY <1>0, <1>1, <1>2 DEF Extracted
<1> DEFINE page == [pages[k] EXCEPT !.text = words, !.confidence = sure,
                                    !.flags = @ \cup flags]
<1>4. /\ page \in PageData /\ page.number = pages[k].number /\ page.native = pages[k].native
      /\ page.text = words /\ page.confidence = sure
  <2>1. pages[k].flags \cup flags \in SUBSET {"render_failed", "resized", "ocr_failed"}
    BY <1>2 DEF PageData
  <2> DEFINE all == pages[k].flags \cup flags
  <2>2. page = [pages[k] EXCEPT !.text = words, !.confidence = sure, !.flags = all]
    OBVIOUS
  <2> HIDE DEF all, page
  <2>3. all \in SUBSET {"render_failed", "resized", "ocr_failed"}
    BY <2>1 DEF all
  <2>4. QED
    BY <1>2, <2>2, <2>3 DEF PageData, Texts
<1> HIDE DEF page
<1>5. pages' = [pages EXCEPT ![k] = page]
  BY <1>3 DEF page
<1>6. /\ pages' \in Seq(PageData) /\ Len(pages') = Len(pages) /\ pages'[k] = page
      /\ \A i \in 1..Len(pages) : i # k => pages'[i] = pages[i]
  BY ONLY <1>1, <1>2, <1>4, <1>5, SeqExcept
<1>7. NumPages' = NumPages
  BY <1>1 DEF NumPages
<1>8. ASSUME NEW i \in 1..Len(pages')
      PROVE  PageInv(i)'
  <2>1. i \in 1..Len(pages) /\ PageInv(i)
    BY <1>6 DEF PagesInv
  <2>2. CASE i = k
    <3>1. pages'[i].number = i /\ pages'[i].native = pages[i].native
      BY <1>4, <1>6, <2>1, <2>2 DEF PageInv
    <3>2. pages'[i].text = words /\ pages'[i].confidence = sure
      BY <1>4, <1>6, <2>2
    <3>3. pages[k].native => words = "native" /\ sure = "full"
      BY <1>0 DEF NativeAsIs
    <3>4. QED
      BY <1>1, <1>2, <2>1, <2>2, <3>1, <3>2, <3>3 DEF PageInv
  <2>3. CASE i # k
    <3>1. pages'[i] = pages[i] /\ (i <= read' => i <= read)
      BY ONLY <1>0, <1>1, <1>2, <1>6, <2>1, <2>3
    <3>2. QED
      BY <1>1, <2>1, <3>1 DEF PageInv
  <2>4. QED
    BY <2>2, <2>3
<1>9. Len(pages) = NumPages /\ read' <= Len(pages')
  <2>1. Len(pages) = NumPages
    BY <1>1 DEF PagesInv
  <2>2. read' <= Len(pages')
    BY ONLY <1>0, <1>1, <1>2, <1>6
  <2>3. QED
    BY <2>1, <2>2
<1>10. \A i \in 1..Len(pages') : PageInv(i)'
  BY <1>8
<1>11. read' \in Nat
  BY ONLY <1>0, <1>1
<1>12. QED
  BY <1>1, <1>6, <1>7, <1>9, <1>10, <1>11 DEF PagesInv

LEMMA PagesStep ==
  FileInv /\ LadderInv /\ StoredInv /\ PagesInv /\ [Next]_vars => PagesInv'
<1> SUFFICES ASSUME FileInv, LadderInv, StoredInv, PagesInv, [Next]_vars PROVE PagesInv'
  OBVIOUS
<1>1. CASE RenderPage
  <2>1. stored \in Stored /\ Counted /\ stored.data \in Contents
    BY <1>1 DEF RenderPage, StoredInv, Stored
  <2>2. PageImage \in Dims /\ ImageFlags \in SUBSET {"render_failed", "resized", "ocr_failed"}
    BY <2>1, ResizeType DEF PageImage, ImageFlags, Dims, Contents
  <2>3. QED
    BY <1>1, <2>1, <2>2, PageAdded DEF RenderPage
<1>2. CASE RenderFails
  <2>1. stored \in Stored /\ Counted
    BY <1>2 DEF RenderFails, StoredInv
  <2>2. NoImage \in Dims
    BY DEF NoImage, Dims
  <2>3. QED
    BY <1>2, <2>1, <2>2, PageAdded DEF RenderFails
<1>3. CASE TakeNativeText
  BY <1>3, PageReadOut DEF TakeNativeText, NativeAsIs, Texts
<1>4. CASE RecognisePage
  <2>1. CASE Extracted("", "zero", {"ocr_failed"})
    BY <1>4, <2>1, PageReadOut DEF RecognisePage, NativeAsIs, Texts
  <2>2. CASE Extracted("", "zero", {})
    BY <1>4, <2>2, PageReadOut DEF RecognisePage, NativeAsIs, Texts
  <2>3. CASE Extracted("ocr", "ocr", {})
    BY <1>4, <2>3, PageReadOut DEF RecognisePage, NativeAsIs, Texts
  <2>4. \/ \E r \in OcrResults : Extracted(r[1], r[2], {})
        \/ Extracted("", "zero", {"ocr_failed"})
    BY <1>4 DEF RecognisePage
  <2>5. ASSUME NEW r \in OcrResults, Extracted(r[1], r[2], {})
        PROVE  PagesInv'
    <3>1. CASE r = <<"ocr", "ocr">>
      <4>1. r[1] = "ocr" /\ r[2] = "ocr"
        BY <3>1
      <4>2. QED
        BY <2>3, <2>5, <4>1
    <3>2. CASE r = <<"", "zero">>
      <4>1. r[1] = "" /\ r[2] = "zero"
        BY <3>2
      <4>2. QED
        BY <2>2, <2>5, <4>1
    <3>3. QED
      BY <3>1, <3>2 DEF OcrResults
  <2>6. QED
    BY <2>1, <2>4, <2>5
<1>5. CASE NothingToRead
  BY <1>5, PageReadOut DEF NothingToRead, NativeAsIs, Texts
<1>6. CASE CutOff
  <2>1. pages' = <<>> /\ read' = 0 /\ pc' \in {"failed", "normalise"}
    BY <1>6, CutOffGivesUp DEF GiveUp
  <2>2. <<>> \in Seq(PageData) /\ Len(<<>>) = 0
    OBVIOUS
  <2>3. \A i \in 1..Len(pages') : PageInv(i)'
    BY <2>1, <2>2
  <2>4. QED
    BY <2>1, <2>2, <2>3 DEF PagesInv
<1>7. CASE (~Stage2 /\ ~Stage3 /\ ~CutOff) \/ EndRender \/ Persist
  <2>1. /\ UNCHANGED <<file, pages, read>>
        /\ \/ UNCHANGED <<pc, stored>>
           \/ /\ pc \notin {"render", "text", "done"}
              /\ pc' \notin {"text", "done"}
           \/ pc = "render" /\ Len(pages) = NumPages /\ pc' = "text" /\ UNCHANGED stored
           \/ pc = "text" /\ read = Len(pages) /\ pc' = "done" /\ UNCHANGED stored
    BY <1>7 DEF Next, CutOff, Refuse, Accept, Stage1, Stage2, Stage3, ValidatePdf, ValidateImage,
       Normalised, CompressWith, Ghostscript, GhostscriptFails, NextRung, Pikepdf,
       PikepdfFails, CompressImage, Compressed, Store, EndRender, Persist, vars
  <2>2. \A i \in 1..Len(pages') : PageInv(i)'
    BY <2>1 DEF PagesInv, PageInv
  <2>3. CASE pc \notin {"render", "text", "done"} /\ pc' \notin {"text", "done"}
    <3>1. pages = <<>> /\ read = 0
      BY <2>3 DEF PagesInv
    <3>2. CASE pc' = "render"
      <4>1. Store
        BY <1>7, <2>3, <3>2 DEF Next, CutOff, Refuse, Accept, Stage1, Stage2, Stage3, ValidatePdf,
           ValidateImage, Normalised, CompressWith, Ghostscript, GhostscriptFails, NextRung,
           Pikepdf, PikepdfFails, CompressImage, EndRender, Persist, vars
      <4>2. StoredInv' /\ FileInv'
        BY <4>1, StoreKeeps, FileStep
      <4>3. NumPages' \in Nat
        BY <3>2, <4>2, FileRight DEF StoredInv, FileInv, Counted, NumPages, PageCount,
           PagesToProcess, Least, Stored
      <4>4. QED
        BY <2>1, <2>2, <3>1, <3>2, <4>3 DEF PagesInv
    <3>3. CASE pc' # "render"
      BY <2>1, <2>2, <2>3, <3>1, <3>3 DEF PagesInv
    <3>4. QED
      BY <3>2, <3>3
  <2>4. CASE ~(pc \notin {"render", "text", "done"} /\ pc' \notin {"text", "done"})
    BY <2>1, <2>2, <2>4 DEF PagesInv, NumPages
  <2>5. QED
    BY <2>3, <2>4
<1>8. QED
  BY <1>1, <1>2, <1>3, <1>4, <1>5, <1>6, <1>7 DEF Stage2, Stage3

-----------------------------------------------------------------------------
(* The theorems.                                                           *)

LEMMA InitIntake == Init => IntakeInv
<1> SUFFICES ASSUME Init PROVE IntakeInv
  OBVIOUS
<1>1. FileInv
  <2>1. 0 \in 0..MaxExecutions
    BY BoundsAssumption
  <2>2. QED
    BY <2>1 DEF Init, FileInv
<1>2. LadderInv
  <2>1. /\ pc = "request" /\ data = NoFile /\ entry = 0 /\ rung = 1 /\ applied = FALSE
        /\ warnings = {}
    BY DEF Init
  <2>2. entry \in Nat /\ rung \in 1..3
    BY <2>1
  <2>3. warnings \in Warnings
    BY <2>1 DEF Warnings
  <2>4. LossOfOneExecution
    BY <2>1, <2>2 DEF LossOfOneExecution
  <2>5. QED
    BY <2>1, <2>2, <2>3, <2>4 DEF LadderInv
<1>3. StoredInv
  BY DEF Init, StoredInv, AppliedMeansSmaller, TurnedRight
<1>4. PagesInv
  <2>1. pages = <<>> /\ read = 0 /\ pc = "request"
    BY DEF Init
  <2>2. <<>> \in Seq(PageData) /\ Len(pages) = 0
    BY <2>1
  <2>3. QED
    BY <2>1, <2>2 DEF PagesInv
<1>5. SpillInv
  BY DEF Init, SpillInv, TempsForCause
<1>6. QED
  BY <1>1, <1>2, <1>3, <1>4, <1>5 DEF IntakeInv

LEMMA NextIntake == IntakeInv /\ [Next]_vars => IntakeInv'
BY FileStep, LadderStep, SpillStep, StoredStep, PagesStep DEF IntakeInv

LEMMA IntakeInvariant == Spec => []IntakeInv
BY InitIntake, NextIntake, PTL DEF Spec

(* The variables keep their types.                                         *)
THEOREM TypeCorrect == Spec => []TypeOK
<1>1. IntakeInv => TypeOK
  <2> SUFFICES ASSUME IntakeInv PROVE TypeOK
    OBVIOUS
  <2>1. spills \in 0..MaxExecutions
    BY BoundsAssumption DEF IntakeInv, FileInv, SpillInv
  <2>2. QED
    BY <2>1 DEF IntakeInv, FileInv, LadderInv, SpillInv, StoredInv, PagesInv, TypeOK
<1>2. QED
  BY <1>1, IntakeInvariant, PTL

(* A PDF is marked as compressed just when compression made it smaller,    *)
(* whichever presets fail and however large their outputs are.             *)
THEOREM CompressedIsSmaller == Spec => []AppliedMeansSmaller
<1>1. IntakeInv => AppliedMeansSmaller
  BY DEF IntakeInv, StoredInv
<1>2. QED
  BY <1>1, IntakeInvariant, PTL

(* A picture is upright exactly if the warnings of its document say that   *)
(* it was turned, and else as it came, after any number of executions.     *)
THEOREM UprightOrUntouched == Spec => []TurnedRight
<1>1. IntakeInv => TurnedRight
  BY DEF IntakeInv, StoredInv
<1>2. QED
  BY <1>1, IntakeInvariant, PTL

(* No file goes through more than two lossy encodings, however often the   *)
(* task is run again.                                                      *)
THEOREM TwoEncodings == Spec => []LossOfOneExecution
<1>1. IntakeInv => LossOfOneExecution
  BY DEF IntakeInv, LadderInv
<1>2. QED
  BY <1>1, IntakeInvariant, PTL

(* Over any number of executions, with lost processes and without, the     *)
(* temporary files left behind are three at most for each execution that   *)
(* was cut off on a preset or came to the last resort.                     *)
THEOREM TempsLeftForCause == Spec => []TempsForCause
<1>1. IntakeInv => TempsForCause
  BY DEF IntakeInv, SpillInv
<1>2. QED
  BY <1>1, IntakeInvariant, PTL

(* The stored pages are the first ones of the file, without a gap and as   *)
(* many as the limit allows, and the document accounts for the others.     *)
THEOREM FirstPagesStored == Spec => []PagesWhole
<1>1. IntakeInv => PagesWhole
  <2> SUFFICES ASSUME IntakeInv, pc = "done" PROVE PagesWhole
    BY DEF PagesWhole
  <2>1. /\ Len(pages) = NumPages /\ read = Len(pages)
        /\ pages \in Seq(PageData) /\ \A i \in 1..Len(pages) : PageInv(i)
    BY DEF IntakeInv, PagesInv
  <2>2. FileInv /\ stored \in Stored /\ Counted
    BY DEF IntakeInv, StoredInv
  <2>3. /\ Len(pages) = stored.pages_to_process /\ Len(pages) <= MaxPageCount
        /\ Len(pages) + stored.pages_skipped = stored.page_count
    BY <2>1, <2>2, NumPagesRight
  <2>4. Len(pages) \in Nat /\ DOMAIN pages = 1..Len(pages)
    BY <2>1
  <2>5. ASSUME NEW i \in DOMAIN pages
        PROVE  pages[i].number = i /\ pages[i].confidence # "unset"
    <3>1. i \in 1..Len(pages) /\ i <= read /\ PageInv(i)
      BY <2>1, <2>4, <2>5
    <3>2. QED
      BY <3>1 DEF PageInv
  <2>6. QED
    BY <2>3, <2>5 DEF PagesWhole
<1>2. QED
  BY <1>1, IntakeInvariant, PTL

(* A page with a text layer has its text with full confidence, whatever    *)
(* becomes of its image.                                                   *)
THEOREM NativeTextStored == Spec => []NativeTextKept
<1>1. IntakeInv => NativeTextKept
  <2> SUFFICES ASSUME IntakeInv, pc = "done", file.kind = "pdf",
                      NEW i \in DOMAIN pages, i \in file.textual
               PROVE  pages[i].text = "native" /\ pages[i].confidence = "full"
    BY DEF NativeTextKept
  <2>1. /\ read = Len(pages) /\ pages \in Seq(PageData)
        /\ \A j \in 1..Len(pages) : PageInv(j)
    BY DEF IntakeInv, PagesInv
  <2>2. i \in 1..Len(pages)
    BY <2>1
  <2>3. i <= read /\ PageInv(i)
    BY <2>1, <2>2
  <2>4. QED
    BY <2>3 DEF PageInv
<1>2. QED
  BY <1>1, IntakeInvariant, PTL
=============================================================================

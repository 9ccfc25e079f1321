------------------------------- MODULE Intake -------------------------------
(***************************************************************************)
(* One uploaded file on its way to text: the checks of the upload endpoint, *)
(* stage 1 (validation, normalisation, compression), stage 2 (page images) *)
(* and stage 3 (text of the pages), in as many executions of the task as   *)
(* it takes.  The module follows the contents of the files; the commits of *)
(* the task and its races are those of Pipeline.                           *)
(*                                                                         *)
(* Sizes are in units that only tell the limits apart.  What a tool makes  *)
(* of a file has any size, and any call into a library may raise: its      *)
(* "except Exception" takes errors and the soft time limit alike.          *)
(***************************************************************************)
EXTENDS Integers, Sequences

CONSTANTS
  Uploads,        \* files that clients send
  AllowedKinds,   \* ALLOWED_MIME_TYPES
  HardLimit,      \* MAX_UPLOAD_SIZE_HARD_MB
  SoftLimit,      \* MAX_UPLOAD_SIZE_SOFT_MB
  TargetSize,     \* TARGET_COMPRESSED_SIZE_MB
  MaxPageCount,   \* MAX_PAGE_COUNT
  MaxDim,         \* MAX_IMAGE_DIMENSION_PX
  MaxSize,        \* bound on the size of what a tool writes
  MaxExecutions,  \* bound on retries and redeliveries of the task
  NoFile

Sizes == 1..MaxSize

(* The EXIF orientations that stand for a rotation, and how far a picture  *)
(* that carries one must be turned counterclockwise to be upright.         *)
Orientations == {1, 3, 6, 8}
ToUpright(o) == CASE o = 1 -> 0 [] o = 3 -> 180 [] o = 6 -> 270 [] o = 8 -> 90

(* What is sent: a damaged PDF opens in PyMuPDF only, a damaged image does *)
(* not load; of a corrupt file nothing can be made.  textual are the pages *)
(* with a text layer of more than 50 characters.                           *)
Upload == [kind : {"pdf", "jpeg", "png", "other"}, size : Nat,
           health : {"sound", "damaged", "corrupt"}, pages : Nat, textual : SUBSET Nat,
           width : Nat \ {0}, height : Nat \ {0}, orientation : Orientations]

ASSUME UploadsAssumption == Uploads \subseteq Upload /\ AllowedKinds \subseteq {"pdf", "jpeg", "png"}
ASSUME LimitsAssumption == {HardLimit, SoftLimit, TargetSize, MaxPageCount, MaxSize} \subseteq Nat
(* A limit of 0 would still let one page through: see NumPages. *)
ASSUME PageLimitAssumption == MaxPageCount # 0
ASSUME BoundsAssumption == MaxDim \in Nat \ {0} /\ MaxExecutions \in Nat \ {0}

VARIABLES
  file,        \* the client's file
  pc,          \* what happens to it next
  raw,         \* the contents at document.storage_path
  executions,  \* executions of the task so far
  data,        \* file_bytes
  entry,       \* original_size of the compression
  rung,        \* the Ghostscript preset to try, /ebook or /screen
  applied,     \* compression_applied
  warnings,    \* quality_warnings
  temps,       \* temporary files that no cleanup has tried to remove
  spills,      \* executions cut off on a preset, or come to the last resort
  stored,      \* result of stage 1: the processed file, the document's columns
  pages,       \* page_data_list
  read         \* pages of it that stage 3 has done

(* The files on the disk, and their history, outlive an execution. *)
disk == <<temps, spills>>
execution == <<data, entry, rung, applied, warnings>>
vars == <<file, pc, raw, executions, execution, disk, stored, pages, read>>

Contents == [size : Nat, health : {"sound", "damaged", "corrupt"},
             width : Nat, height : Nat, orientation : Orientations,
             need : {0, 90, 180, 270},  \* the turn that makes it upright
             passes : Nat]              \* times it was encoded with a loss

Warnings == SUBSET {"page_count_exceeded", "exif_rotation_applied",
                    "image_validation_warning", "large_file"}

Dims == [width : Nat, height : Nat]
NoImage == [width |-> 0, height |-> 0]

PageData == [number : Nat, image : Dims, native : BOOLEAN,
             text : {"", "native", "ocr"}, confidence : {"unset", "zero", "ocr", "full"},
             flags : SUBSET {"render_failed", "resized", "ocr_failed"}]

Stored == [data : Contents, entry : Nat, applied : BOOLEAN, warnings : Warnings,
           page_count : Nat, pages_to_process : Nat, pages_skipped : Nat]

TypeOK ==
  /\ file \in Uploads
  /\ pc \in {"request", "refused", "normalise", "ghostscript", "pikepdf", "image",
             "store", "render", "text", "done", "failed"}
  /\ raw \in Contents \cup {NoFile}
  /\ executions \in 0..MaxExecutions
  /\ data \in Contents \cup {NoFile}
  /\ entry \in Nat /\ rung \in 1..3 /\ applied \in BOOLEAN
  /\ warnings \in Warnings /\ temps \in Nat /\ spills \in 0..MaxExecutions
  /\ stored \in Stored \cup {NoFile}
  /\ pages \in Seq(PageData) /\ read \in Nat

Init ==
  /\ file \in Uploads
  /\ pc = "request"
  /\ raw = NoFile /\ executions = 0
  /\ data = NoFile /\ entry = 0 /\ rung = 1 /\ applied = FALSE
  /\ warnings = {} /\ temps = 0 /\ spills = 0
  /\ stored = NoFile /\ pages = <<>> /\ read = 0

-----------------------------------------------------------------------------
(* The upload.                                                             *)

AcceptedKind(f) == f.kind \in AllowedKinds

(* FileValidator.validate_size; anything over the soft limit is announced  *)
(* to the client as needing compression.                                   *)
AcceptedSize(f) == f.size <= HardLimit

Accepted(f) == f.size # 0 /\ AcceptedKind(f) /\ AcceptedSize(f)

Refuse ==
  /\ pc = "request" /\ ~Accepted(file)
  /\ pc' = "refused"
  /\ UNCHANGED <<file, raw, executions, execution, disk, stored, pages, read>>

Accept ==
  /\ pc = "request" /\ Accepted(file)
  /\ raw' = [size |-> file.size, health |-> file.health, width |-> file.width,
             height |-> file.height, orientation |-> file.orientation,
             need |-> ToUpright(file.orientation), passes |-> 0]
  /\ pc' = "normalise" /\ executions' = 1
  /\ UNCHANGED <<file, execution, disk, stored, pages, read>>

(* What ends an execution early: it raises, or is lost.  If the task is    *)
(* retried or redelivered, it starts again from the file the client sent.  *)
GiveUp ==
  /\ \/ /\ pc' = "failed"
        /\ UNCHANGED executions
     \/ /\ executions < MaxExecutions
        /\ pc' = "normalise" /\ executions' = executions + 1
  /\ data' = NoFile /\ entry' = 0 /\ rung' = 1 /\ applied' = FALSE
  /\ warnings' = {} /\ pages' = <<>> /\ read' = 0
  /\ UNCHANGED <<file, raw, stored>>

Working == pc \notin {"request", "refused", "done", "failed"}

(* In the compressor this takes the soft time limit between two attempts;  *)
(* it catches what is raised in one, but for the next action.              *)
Raises ==
  /\ Working /\ GiveUp
  /\ UNCHANGED disk

(* The first temporary files cannot be created or written.  The cleanup of *)
(* the first preset then finds a path without a value, and raises with     *)
(* nothing removed.                                                        *)
CleanupRaises ==
  /\ pc = "ghostscript" /\ rung = 1
  /\ GiveUp
  /\ temps' \in temps..(temps + 2) /\ spills' = spills + 1

(* The process is killed at any point, or the soft time limit cuts off the *)
(* cleanup of a preset: the files in use stay.                             *)
Lost ==
  /\ Working /\ GiveUp
  /\ IF pc = "ghostscript" THEN temps' \in temps..(temps + 2) /\ spills' = spills + 1
     ELSE IF pc = "pikepdf" THEN temps' \in temps..(temps + 2) /\ UNCHANGED spills
     ELSE UNCHANGED disk

-----------------------------------------------------------------------------
(* Stage 1.                                                                *)

(* What comes after normalisation: the size of the original file decides   *)
(* whether to compress, the size of the normalised one whether to try.     *)
CompressWith(size) ==
  IF raw.size <= SoftLimit \/ size <= TargetSize THEN "store"
  ELSE IF file.kind = "pdf" THEN "ghostscript" ELSE "image"

Normalised(d, w) ==
  /\ data' = d /\ entry' = d.size /\ warnings' = w
  /\ pc' = CompressWith(d.size)
  /\ UNCHANGED <<file, raw, executions, rung, applied, disk, stored, pages, read>>

PageWarning == IF file.pages > MaxPageCount THEN {"page_count_exceeded"} ELSE {}

(* pikepdf repairs and saves the file, or PyMuPDF can count its pages. *)
ValidatePdf ==
  /\ pc = "normalise" /\ file.kind = "pdf"
  /\ \/ /\ raw.health = "sound"
        /\ \E s \in Sizes : Normalised([raw EXCEPT !.size = s], PageWarning)
     \/ /\ raw.health # "corrupt"
        /\ Normalised(raw, PageWarning)

(* Mutant: the turns of two orientations are mixed up. *)
Mut_RotationMap(o) == CASE o = 3 -> 180 [] o = 6 -> 90 [] o = 8 -> 270

(* What is turned, and by how much (counterclockwise). *)
Rotated == {3, 6, 8}
RotationMap(o) == CASE o = 3 -> 180 [] o = 6 -> 270 [] o = 8 -> 90

Turned(d) ==
  LET angle == RotationMap(d.orientation) IN
  [d EXCEPT !.need = (@ - angle) % 360,
            !.width = IF angle = 180 THEN @ ELSE d.height,
            !.height = IF angle = 180 THEN @ ELSE d.width]

(* Saving writes no EXIF. *)
Encoded(d, s) == [d EXCEPT !.size = s, !.orientation = 1, !.passes = @ + 1]

(* The picture is turned and saved.  An error in turning it is only logged, *)
(* an error in saving it leaves the file as it was and the warnings as     *)
(* they are.                                                               *)
ValidateImage ==
  /\ pc = "normalise" /\ file.kind \in {"jpeg", "png"}
  /\ \/ /\ raw.health = "sound" /\ raw.orientation \in Rotated
        /\ \/ \E s \in Sizes : Normalised(Encoded(Turned(raw), s), {"exif_rotation_applied"})
           \/ Normalised(raw, {"exif_rotation_applied", "image_validation_warning"})
     \/ /\ raw.health = "sound"
        /\ \E s \in Sizes : Normalised(Encoded(raw, s), {})
     \/ Normalised(raw, {"image_validation_warning"})

-----------------------------------------------------------------------------
(* Stage 1, compression.                                                   *)

Compressed(d, a) ==
  /\ data' = d /\ applied' = a
  /\ UNCHANGED <<file, raw, executions, entry, warnings, stored, pages, read>>

(* Mutant: a third preset is tried. *)
Mut_NextRung ==
  /\ rung' = rung + 1
  /\ IF rung <= 2 THEN pc' = "ghostscript" /\ UNCHANGED spills
     ELSE pc' = "pikepdf" /\ spills' = spills + 1

NextRung ==
  /\ rung' = rung + 1
  /\ IF rung = 1 THEN pc' = "ghostscript" /\ UNCHANGED spills
     ELSE pc' = "pikepdf" /\ spills' = spills + 1

(* One preset of Ghostscript.  Its output becomes the input of the next,   *)
(* larger or not, and the temporary files are removed.                     *)
Ghostscript ==
  /\ pc = "ghostscript"
  /\ \E s \in Sizes :
       LET d == [Encoded(data, s) EXCEPT !.health = "sound"] IN
       IF s <= TargetSize
         THEN Compressed(d, TRUE) /\ pc' = "store" /\ UNCHANGED <<rung, disk>>
         ELSE Compressed(d, applied) /\ NextRung /\ UNCHANGED temps

(* Mutant: only a success removes the temporary files. *)
Mut_GhostscriptFails ==
  /\ pc = "ghostscript"
  /\ Compressed(data, applied) /\ NextRung
  /\ temps' = temps + 2

(* Ghostscript fails, is not there or takes too long, or its output cannot *)
(* be read.  If the second temporary input cannot be written, it stays:    *)
(* the cleanup finds the paths of the first ones.  (If the first cannot,   *)
(* see CleanupRaises.)                                                     *)
GhostscriptFails ==
  /\ pc = "ghostscript"
  /\ Compressed(data, applied) /\ NextRung
  /\ temps' \in {temps, temps + (rung - 1)}

(* Mutant: the compressed file is taken if it has become larger, too. *)
Mut_Pikepdf ==
  /\ pc = "pikepdf" /\ data.health = "sound"
  /\ \E s \in Sizes : Compressed([data EXCEPT !.size = s], TRUE)
  /\ pc' = "store"
  /\ UNCHANGED <<rung, disk>>

(* The last resort: taken if it beats the file that compression began with, *)
(* or else Ghostscript's output is kept, whatever its size.                *)
Pikepdf ==
  /\ pc = "pikepdf" /\ data.health = "sound"
  /\ \E s \in Sizes :
       IF s < entry THEN Compressed([data EXCEPT !.size = s], TRUE)
       ELSE Compressed(data, data.size < entry)
  /\ pc' = "store"
  /\ UNCHANGED <<rung, disk>>

(* An error leaves up to two temporary files. *)
PikepdfFails ==
  /\ pc = "pikepdf"
  /\ Compressed(data, data.size < entry)
  /\ temps' \in temps..(temps + 2)
  /\ pc' = "store"
  /\ UNCHANGED <<rung, spills>>

(* The long edge is cut to MaxDim; the short one may come out as 0, which  *)
(* Pillow refuses.                                                         *)
Resize(d) ==
  IF d.width <= MaxDim /\ d.height <= MaxDim THEN d
  ELSE IF d.width > d.height
    THEN [d EXCEPT !.width = MaxDim, !.height = (d.height * MaxDim) \div d.width]
    ELSE [d EXCEPT !.height = MaxDim, !.width = (d.width * MaxDim) \div d.height]

Resizable(d) == Resize(d).width > 0 /\ Resize(d).height > 0

(* A transparent PNG is optimised, any other picture becomes a JPEG of the *)
(* first quality that meets the target, or else of the last.               *)
CompressImage ==
  /\ pc = "image"
  /\ \/ /\ data.health = "sound" /\ Resizable(data)
        /\ \E s \in Sizes : Compressed(Encoded(Resize(data), s), TRUE)
     \/ Compressed(data, FALSE)
  /\ pc' = "store"
  /\ UNCHANGED <<rung, disk>>

SizeWarning ==
  IF raw.size > SoftLimit /\ data.size > HardLimit THEN {"large_file"} ELSE {}

PageCount == IF file.kind = "pdf" THEN file.pages ELSE 1

(* Mutant: the page limit is not applied. *)
Mut_PagesToProcess == PageCount

PagesToProcess ==
  IF file.kind = "pdf" /\ file.pages > MaxPageCount THEN MaxPageCount ELSE PageCount

Result ==
  [data |-> data, entry |-> entry, applied |-> applied,
   warnings |-> warnings \cup SizeWarning, page_count |-> PageCount,
   pages_to_process |-> PagesToProcess, pages_skipped |-> PageCount - PagesToProcess]

(* Mutant: the processed file becomes the document's file. *)
Mut_Store ==
  /\ pc = "store"
  /\ stored' = Result /\ raw' = data
  /\ pc' = "render"
  /\ UNCHANGED <<file, executions, execution, disk, pages, read>>

(* The processed file gets a path of its own; the task writes the results  *)
(* to the document.                                                        *)
Store ==
  /\ pc = "store"
  /\ stored' = Result
  /\ pc' = "render"
  /\ UNCHANGED <<file, raw, executions, execution, disk, pages, read>>

-----------------------------------------------------------------------------
(* Stages 2 and 3.                                                         *)

Least(m, n) == IF m <= n THEN m ELSE n

(* No page to process counts as one, and the file has the last word. *)
NumPages ==
  LET asked == IF stored.pages_to_process = 0 THEN 1 ELSE stored.pages_to_process IN
  IF file.kind = "pdf" THEN Least(file.pages, asked) ELSE 1

(* A text layer that is long enough to be used. *)
Native == file.kind = "pdf" /\ Len(pages) + 1 \in file.textual

Page(image, native, flags) ==
  [number |-> Len(pages) + 1, image |-> image, native |-> native, text |-> "",
   confidence |-> "unset", flags |-> flags]

(* A picture that does not load, or cannot be resized, fails the stage. *)
Loads == file.kind = "pdf" \/ stored.data.health = "sound"

(* Page images are capped like pictures; deskewing and denoising keep      *)
(* their dimensions, and an error in either is only noted.                 *)
PageImage == [width |-> Resize(stored.data).width, height |-> Resize(stored.data).height]
ImageFlags == IF Resize(stored.data) = stored.data THEN {} ELSE {"resized"}

RenderPage ==
  /\ pc = "render" /\ Len(pages) < NumPages
  /\ Loads /\ Resizable(stored.data)
  /\ pages' = Append(pages, Page(PageImage, Native, ImageFlags))
  /\ UNCHANGED <<file, pc, raw, executions, execution, disk, stored, read>>

(* Mutant: the text of a page that cannot be rendered is dropped. *)
Mut_RenderFails ==
  /\ pc = "render" /\ Len(pages) < NumPages /\ file.kind = "pdf"
  /\ pages' = Append(pages, Page(NoImage, FALSE, {"render_failed"}))
  /\ UNCHANGED <<file, pc, raw, executions, execution, disk, stored, read>>

RenderFails ==
  /\ pc = "render" /\ Len(pages) < NumPages /\ file.kind = "pdf"
  /\ pages' = Append(pages, Page(NoImage, Native, {"render_failed"}))
  /\ UNCHANGED <<file, pc, raw, executions, execution, disk, stored, read>>

EndRender ==
  /\ pc = "render" /\ Len(pages) = NumPages
  /\ pc' = "text"
  /\ UNCHANGED <<file, raw, executions, execution, disk, stored, pages, read>>

Extracted(text, confidence, flags) ==
  /\ pages' = [pages EXCEPT ![read + 1].text = text, ![read + 1].confidence = confidence,
                            ![read + 1].flags = @ \cup flags]
  /\ read' = read + 1
  /\ UNCHANGED <<file, pc, raw, executions, execution, disk, stored>>

Unread == pc = "text" /\ read < Len(pages)

TakeNativeText ==
  /\ Unread /\ pages[read + 1].native
  /\ Extracted("native", "full", {})

(* What the adapter returns: also where Tesseract fails, it returns an     *)
(* empty text and raises nothing.                                          *)
OcrResults == {<<"ocr", "ocr">>, <<"", "zero">>}

RecognisePage ==
  /\ Unread /\ ~pages[read + 1].native /\ pages[read + 1].image # NoImage
  /\ \/ \E r \in OcrResults : Extracted(r[1], r[2], {})
     \/ Extracted("", "zero", {"ocr_failed"})

NothingToRead ==
  /\ Unread /\ ~pages[read + 1].native /\ pages[read + 1].image = NoImage
  /\ Extracted("", "zero", {})

(* The page rows are committed. *)
Persist ==
  /\ pc = "text" /\ read = Len(pages)
  /\ pc' = "done"
  /\ UNCHANGED <<file, raw, executions, execution, disk, stored, pages, read>>

Stage1 == ValidatePdf \/ ValidateImage \/ Ghostscript \/ GhostscriptFails \/ Pikepdf
            \/ PikepdfFails \/ CompressImage \/ Store
Stage2 == RenderPage \/ RenderFails \/ EndRender
Stage3 == TakeNativeText \/ RecognisePage \/ NothingToRead \/ Persist

Next == Refuse \/ Accept \/ Raises \/ CleanupRaises \/ Lost \/ Stage1 \/ Stage2 \/ Stage3

Spec == Init /\ [][Next]_vars

-----------------------------------------------------------------------------
(* Properties.                                                             *)

(* However the presets and the last resort succeed and fail, a PDF is      *)
(* marked as compressed just when compression made it smaller.             *)
AppliedMeansSmaller ==
  stored # NoFile /\ file.kind = "pdf" => (stored.applied <=> stored.data.size < stored.entry)

(* A picture is turned upright, and then a warning says so; one that is    *)
(* not turned is exactly as it came.  Retries do not turn it again.        *)
TurnedRight ==
  stored # NoFile =>
    stored.data.need =
      IF "exif_rotation_applied" \in stored.warnings
           /\ "image_validation_warning" \notin stored.warnings
      THEN 0 ELSE ToUpright(file.orientation)

(* Every execution starts from the original: a file goes through two lossy *)
(* encodings at most, however often the task is run.                       *)
LossOfOneExecution == data # NoFile => data.passes <= 2

(* Over all executions, temporary files stay behind only where one was cut *)
(* off on a preset or came to the last resort, and then three at most: the *)
(* second preset's input and the two files of the last resort.             *)
TempsForCause == temps <= 3 * spills

(* The pages that are stored are the first ones of the file without a gap, *)
(* as many as the limit allows, and the document accounts for the rest.    *)
PagesWhole ==
  pc = "done" =>
    /\ Len(pages) = stored.pages_to_process
    /\ Len(pages) + stored.pages_skipped = stored.page_count
    /\ Len(pages) <= MaxPageCount
    /\ \A i \in DOMAIN pages : pages[i].number = i /\ pages[i].confidence # "unset"

(* A page with a text layer has its text, with full confidence, whatever   *)
(* happens to its image.                                                   *)
NativeTextKept ==
  pc = "done" /\ file.kind = "pdf" =>
    \A i \in DOMAIN pages :
      i \in file.textual => pages[i].text = "native" /\ pages[i].confidence = "full"

=============================================================================

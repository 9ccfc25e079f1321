--------------------------- MODULE DocumentLedger ---------------------------
(***************************************************************************)
(* What the document store promises its readers, whatever the workers, the *)
(* broker and the reaper do: the rows extracted from a document are        *)
(* written at most once, pages before questions, they are never taken      *)
(* back, and COMPLETED is said only of a document all of whose rows exist. *)
(* Module Pipeline implements this specification.                          *)
(***************************************************************************)
EXTENDS Naturals

CONSTANTS
  Docs,           \* the documents a user may upload
  NumPages,       \* pages stage 2 produces for a document
  NumQuestions    \* questions stage 4 finds in a document

VARIABLES
  status,         \* the status column of the document
  pages,          \* number of its page rows
  asked,          \* number of its question rows
  answered        \* number of its answer rows

vars == <<status, pages, asked, answered>>

Init ==
  /\ status = [d \in Docs |-> "none"]
  /\ pages = [d \in Docs |-> 0]
  /\ asked = [d \in Docs |-> 0]
  /\ answered = [d \in Docs |-> 0]

(* All rows of the document exist. *)
Whole(d) ==
  /\ pages[d] = NumPages[d]
  /\ asked[d] = NumQuestions[d]
  /\ answered[d] = NumQuestions[d]

(* Page rows appear together, and only where there were none. *)
PagesOnce(d) ==
  pages'[d] # pages[d] => pages[d] = 0 /\ pages'[d] \in 1..NumPages[d]

(* Question rows appear together, after all pages, and only once. *)
QuestionsOnce(d) ==
  asked'[d] # asked[d] =>
    /\ asked[d] = 0 /\ pages[d] = NumPages[d]
    /\ asked'[d] \in 1..NumQuestions[d]

(* Answer rows appear in the commit that adds their questions. *)
AnswersWithQuestions(d) ==
  answered'[d] # answered[d] =>
    /\ asked'[d] # asked[d] /\ answered[d] = 0
    /\ answered'[d] \in 1..asked'[d]

(* The reported status moves freely, except that a document is created     *)
(* QUEUED, never returns to QUEUED, and is COMPLETED only when whole.      *)
StatusHonest(d) ==
  status'[d] # status[d] =>
    /\ status[d] = "none" <=> status'[d] = "QUEUED"
    /\ status'[d] # "none"
    /\ status'[d] = "COMPLETED" => Whole(d)'

Next ==
  \A d \in Docs :
    PagesOnce(d) /\ QuestionsOnce(d) /\ AnswersWithQuestions(d) /\ StatusHonest(d)

Spec == Init /\ [][Next]_vars

=============================================================================

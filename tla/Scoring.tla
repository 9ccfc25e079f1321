------------------------------ MODULE Scoring ------------------------------
(***************************************************************************)
(* Stages 4, 5 and 6 on one document whose text is known, and the second   *)
(* matching of its answers that a late link to an answer key starts.       *)
(* Stage 6 is in exact arithmetic: a signal is in hundredths, a confidence *)
(* in ten-thousandths, as the code rounds it.                              *)
(***************************************************************************)
EXTENDS Extraction

CONSTANTS
  Papers,      \* documents: lines, the page of each, pages OCR has no confidence in
  KeyTexts,    \* the texts of the answer keys they may be linked to
  Rank,        \* the order of question numbers as strings: "10" before "2"
  OcrValues    \* average OCR confidences of a question's pages, in hundredths

(* Pages are numbered from 1, and each of them has a line. *)
IsPaper(p) ==
  /\ p.lines \in Seq(Line)
  /\ p.page \in [DOMAIN p.lines -> 1..Len(p.lines)] /\ p.unread \subseteq Nat
  /\ \A i, j \in DOMAIN p.lines : i <= j => p.page[i] <= p.page[j]

ASSUME TextsAssumption == (\A p \in Papers : IsPaper(p)) /\ KeyTexts \subseteq Seq(Line)
ASSUME RankAssumption == Rank \in [{"digit", "roman"} \X Numbers -> Nat] /\ IsInjective(Rank)
ASSUME OcrAssumption == OcrValues \subseteq 0..100

VARIABLES
  phase,       \* the last step done
  text,        \* the document's text
  page,        \* the page of each line
  unread,      \* pages whose ocr_confidence is 0
  key,         \* the text of the answer keys linked to it, <<>> if none
  questions,   \* ExtractedQuestions of stage 4
  raw,         \* answers found by the last run of stage 5
  rows,        \* the answer of each question, as its Answer row tells it
  scored       \* what stage 6 has said of each question so far

document == <<text, page, unread>>
vars == <<phase, document, key, questions, raw, rows, scored>>

Init ==
  /\ phase = "read"
  /\ \E p \in Papers : text = p.lines /\ page = p.page /\ unread = p.unread
  /\ key = <<>> /\ raw = <<>>
  /\ questions = <<>> /\ rows = <<>> /\ scored = <<>>

(* Stage 4. *)
Segment ==
  /\ phase = "read"
  /\ phase' = "segmented"
  /\ questions' = Questions(text)
  /\ UNCHANGED <<document, key, raw, rows, scored>>

(* Stage 5, with the text of the keys linked so far. *)
Associate(linked) ==
  /\ phase = "segmented"
  /\ phase' = "associated"
  /\ key' = linked
  /\ raw' = RawAnswers(text, linked)
  /\ rows' = [n \in DOMAIN questions |-> Match(questions, raw', questions[n].number)]
  /\ UNCHANGED <<document, questions, scored>>

-----------------------------------------------------------------------------
(* Stage 6.                                                                *)

(* A question without text. *)
EmptyBody == [type |-> "OTHER", options |-> 0, empty |-> TRUE, starts |-> FALSE, ends |-> FALSE]

(* Options make a question an MCQ; a text without options may ask for true *)
(* or false, and begin and end in the middle of a sentence.                *)
BodiesOf(q) ==
  LET n == Cardinality(Options(text, q)) IN
  IF n # 0 THEN [type : {"MCQ"}, options : {n}, empty : {~HasText(text, q)},
                 starts : BOOLEAN, ends : {TRUE}]
  ELSE IF HasText(text, q)
    THEN [type : {"TRUE_FALSE", "OTHER"}, options : {0}, empty : {FALSE},
          starts : BOOLEAN, ends : BOOLEAN]
  ELSE {EmptyBody}

PagesOf(q) == SourcePages(page, q.from, q.to)

(* Mutant: pages without a confidence are left out of the average. *)
Mut_AverageOcr(q) == IF PagesOf(q) \subseteq unread THEN {50} ELSE OcrValues

(* The average over the source pages, of which an unread one counts as 0   *)
(* and any other one as something up to 100.                               *)
AverageOcr(q) ==
  LET all == PagesOf(q) IN
  IF all = {} THEN {50}
  ELSE {ocr \in OcrValues : ocr * Cardinality(all) <= 100 * Cardinality(all \ unread)}

(* Mutant: a missing number counts as one inferred by position. *)
Mut_NumberSignal(q) == 100

(* "positional" is never set, and "llm" only by an adapter that is a stub. *)
NumberSignal(q) == IF q.number = NoNumber THEN 30 ELSE 100

OptionSignal(b) ==
  CASE b.type = "MCQ" -> IF b.options < 4 THEN 25 * b.options ELSE 100
    [] b.type = "TRUE_FALSE" -> 80
    [] OTHER -> 100

(* Mutant: an empty text has the score of one without clean ends. *)
Mut_BoundarySignal(b) == 50 + (IF b.ends THEN 25 ELSE 0) + (IF b.starts THEN 25 ELSE 0)

BoundarySignal(b) ==
  IF b.empty THEN 0
  ELSE 50 + (IF b.ends THEN 25 ELSE 0) + (IF b.starts THEN 25 ELSE 0)

AnswerSignal(b, row) ==
  CASE row.type = "exact" -> IF row.answer.headed THEN 95 ELSE 80
    [] row.type = "positional" -> 50
    [] OTHER -> IF b.type \in {"MCQ", "TRUE_FALSE"} THEN 40 ELSE 50

Confidence(q, b, ocr, row) ==
  30 * ocr + 20 * NumberSignal(q) + 20 * OptionSignal(b)
    + 15 * BoundarySignal(b) + 15 * AnswerSignal(b, row)

AutoAccept == 8500
ReviewThreshold == 5000

Verdict(confidence) ==
  IF confidence < ReviewThreshold THEN "HIGH"
  ELSE IF confidence < AutoAccept THEN "MEDIUM" ELSE "ACCEPTED"

ScoreQuestion ==
  LET n == Len(scored) + 1 IN
  /\ phase = "associated"
  /\ n \in DOMAIN questions
  /\ \E b \in BodiesOf(questions[n]), ocr \in AverageOcr(questions[n]) :
       scored' = Append(scored, Verdict(Confidence(questions[n], b, ocr, rows[n])))
  /\ UNCHANGED <<phase, document, key, questions, raw, rows>>

(* The questions and their answers are committed. *)
Finish ==
  /\ phase = "associated" /\ Len(scored) = Len(questions)
  /\ phase' = "stored"
  /\ UNCHANGED <<document, key, questions, raw, rows, scored>>

-----------------------------------------------------------------------------
(* process_answer_key_linking.                                             *)

(* ORDER BY question_number, a column of strings; rows without a number    *)
(* are matched with none.                                                  *)
(* It does not matter in which order rows of one number come.              *)
ByNumber(qs) ==
  LET place(n) == Rank[qs[n].number] * (Len(qs) + 1) + n
      order == Sorted({place(n) : n \in {m \in DOMAIN qs : qs[m].number # NoNumber}})
  IN [k \in 1..Len(order) |-> qs[order[k] % (Len(qs) + 1)]]

(* Mutant: the row is updated only if the answer is a better match. *)
Mut_Rewritten(row, match) == IF match.type = "exact" /\ row.type # "exact" THEN match ELSE row

Rewritten(row, match) == IF match.type # "none" THEN match ELSE row

(* The text of the linked keys is read again, in whatever order the query  *)
(* returns the links.  The page data handed to stage 5 has no "ocr_text":  *)
(* the answers of the document itself are not found again.                 *)
Relink(more) ==
  /\ phase = "stored" /\ questions # <<>>
  /\ key' \in {key \o more, more \o key} \ {<<>>}
  /\ phase' = "relinked"
  /\ raw' = RawAnswers(<<>>, key')
  /\ rows' = [n \in DOMAIN rows |->
       Rewritten(rows[n], Match(ByNumber(questions), raw', questions[n].number))]
  /\ UNCHANGED <<document, questions, scored>>

Next ==
  \/ Segment
  \/ \E linked \in KeyTexts : Associate(linked) \/ Relink(linked)
  \/ ScoreQuestion
  \/ Finish

Spec == Init /\ [][Next]_vars

-----------------------------------------------------------------------------
(* Properties.                                                             *)

AnswerSources == {"SAME_DOC", "LINKED_DOC"}
QuestionNumbers == {NoNumber} \cup ({"digit", "roman"} \X Numbers)
Found == [number : {"digit"} \X Numbers, source : AnswerSources, line : Nat, headed : BOOLEAN]
Rows == [type : {"none"}] \cup [type : {"exact", "positional"}, answer : Found]
QuestionRecords ==
  [number : QuestionNumbers, line : Nat \ {0}, from : Nat \ {0}, to : Nat,
   beheaded : BOOLEAN]

(* The variables have their types, and every question its one row. *)
TypeOK ==
  /\ phase \in {"read", "segmented", "associated", "stored", "relinked"}
  /\ text \in Seq(Line) /\ key \in Seq(Line)
  /\ page \in [DOMAIN text -> Nat \ {0}] /\ unread \subseteq Nat
  /\ questions \in Seq(QuestionRecords)
  /\ raw \in Seq(Found)
  /\ rows \in Seq(Rows)
  /\ phase \in {"associated", "stored", "relinked"} => Len(rows) = Len(questions)
  /\ scored \in Seq({"ACCEPTED", "MEDIUM", "HIGH"})
  /\ Len(scored) <= Len(questions)

(* _segment_questions loses and repeats nothing: from the first number to  *)
(* the end of the document, every line belongs to one question, although   *)
(* the pattern takes blank lines above a number into its match, and the    *)
(* question names its page.                                                *)
SpansTile ==
  \A i \in DOMAIN text :
    questions # <<>> /\ i >= questions[1].from =>
      LET of == {n \in DOMAIN questions : i \in questions[n].from..questions[n].to} IN
      Cardinality(of) = 1 /\ \A n \in of : page[i] \in PagesOf(questions[n])

(* What stage 5 stores gives one answer line to one number: an answer used *)
(* by its number is not used again by its position.                        *)
AnswersOnce ==
  phase \in {"associated", "stored"} =>
    \A m, n \in DOMAIN rows :
      /\ rows[m].type # "none" /\ rows[n].type # "none"
      /\ rows[m].answer = rows[n].answer
      => questions[m].number = questions[n].number

(* "Linked doc answers take precedence over same-doc": a question whose    *)
(* number is in the linked keys has the linked answer, whether the link    *)
(* came before the processing or after it.                                 *)
LinkedWins ==
  \A n \in DOMAIN rows :
    Has(FoundAnswers(key, "LINKED_DOC"), questions[n].number) =>
      rows[n].type = "exact" /\ rows[n].answer.source = "LINKED_DOC"

IsQuestion(i) == text[i].kind \in {"q", "dot"}
IsKey(i) == text[i].kind \in {"keydot", "keydash"}

HeaderLine == CHOOSE h \in DOMAIN text : text[h].kind = "header"

(* A document of questions and an answer key of one style, the key under   *)
(* the only header.                                                        *)
HasOneKey ==
  /\ Cardinality(Hits(text, {"header"})) = 1
  /\ \E i \in DOMAIN text : IsQuestion(i)
  /\ Cardinality({text[i].kind : i \in {j \in DOMAIN text : IsKey(j)}}) = 1
  /\ \A i, j \in DOMAIN text : IsKey(i) /\ IsKey(j) /\ text[i].num = text[j].num => i = j
  /\ \A i \in DOMAIN text : IsKey(i) => HeaderLine < i

(* Every question the key has an answer for gets that answer, and no other *)
(* line of the document is taken for an answer.                            *)
KeyFound ==
  \A n \in DOMAIN rows :
    IsQuestion(questions[n].line) =>
      /\ \A i \in DOMAIN text :
           IsKey(i) /\ questions[n].number = <<"digit", text[i].num>>
             => rows[n].type = "exact" /\ rows[n].answer.line = i
      /\ rows[n].type # "none" => IsKey(rows[n].answer.line)

(* README: stage 5 identifies answer keys located at the beginning or end  *)
(* of the document.  First the end.                                        *)
KeyAtEndFound ==
  /\ key = <<>> /\ HasOneKey
  /\ \A i \in DOMAIN text : IsQuestion(i) => i < HeaderLine
  => KeyFound

(* And the beginning, for a key that covers every question. *)
KeyAtBeginningFound ==
  /\ key = <<>> /\ HasOneKey
  /\ \A i \in DOMAIN text : IsQuestion(i) => \E k \in DOMAIN text : IsKey(k) /\ text[k].num = text[i].num
  /\ \A i, j \in DOMAIN text : IsKey(i) /\ IsQuestion(j) => i < j
  => KeyFound

(* A document without question numbers is one question that a human looks  *)
(* at, however clean its text and its OCR are.                             *)
UnnumberedFlagged ==
  \A n \in DOMAIN scored : questions[n].number = NoNumber => scored[n] # "ACCEPTED"

(* A line of an answer key that stage 4 has taken for a question, or any   *)
(* question without text, is never accepted, although its number, its      *)
(* options and its answer are found.                                       *)
EmptyTextFlagged ==
  \A n \in DOMAIN scored : ~HasText(text, questions[n]) => scored[n] # "ACCEPTED"

(* A question is never accepted if half of its pages could not be read: a  *)
(* page without text is a source of the question whose span its blank line *)
(* falls into, the one before it or the one after it.                      *)
UnreadPageFlagged ==
  \A n \in DOMAIN scored :
    2 * Cardinality(PagesOf(questions[n]) \ unread) <= Cardinality(PagesOf(questions[n]))
      => scored[n] # "ACCEPTED"

(* Positional matching is the "last resort" of "unmatched questions": a    *)
(* question whose answer was found in the document's own key by its number *)
(* does not lose it to one found by position.                              *)
ExactAnswersStay ==
  [][HasOneKey =>
       \A n \in DOMAIN rows :
         rows[n].type = "exact" /\ IsKey(rows[n].answer.line)
           => rows'[n].type = "exact"]_vars

=============================================================================

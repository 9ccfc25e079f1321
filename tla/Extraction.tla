----------------------------- MODULE Extraction -----------------------------
(***************************************************************************)
(* The text algorithms of stages 4 and 5: the segmentation of a document's *)
(* text into numbered questions with their pages and options, the search   *)
(* for an answer key in the same text or in a linked one, and the matching *)
(* of answers to questions.                                                *)
(*                                                                         *)
(* A text is a sequence of lines.  What the regular expressions tell apart *)
(* is the kind of a line and its number:                                   *)
(*   "q"        Q.1 What is ...?      "dot"      1. What is ...?           *)
(*   "roman"    i. What is ...?       "keydot"   1. B                      *)
(*   "keydash"  1-B                   "header"   Answer Key                *)
(*   "paren"    (A) first option      "letter"   A. first option          *)
(*   "prose"    any other text        "blank"                              *)
(* A page without text is one blank line, since the texts of the pages are *)
(* joined by line breaks.                                                  *)
(* The kinds of the remaining patterns ("1)", "(1)", "Q1: B", "1) B" and   *)
(* tabular keys) are left out: each is one more alternative with a kind of *)
(* its own.  What a line says is represented by its position, so the value *)
(* of an answer is the position of the line it was read from.              *)
(***************************************************************************)
EXTENDS Naturals, FiniteSets, Sequences, Functions, Sorting

(* A number is a string of digits or a roman numeral and is only compared   *)
(* for equality; the naturals name these strings.                          *)
CONSTANT Numbers   \* numbers that lines carry

ASSUME NumbersAssumption == Numbers \subseteq Nat

Plain == [kind : {"blank", "prose", "header", "paren", "letter"}, num : {0}]
Numbered(kinds) == [kind : kinds, num : Numbers]
Line == Plain \cup Numbered({"q", "dot", "roman", "keydot", "keydash"})

Texts(lines, n) == UNION {[1..m -> lines] : m \in 0..n}

(* The positions of the lines that one of the kinds matches. *)
Hits(text, kinds) == {i \in DOMAIN text : text[i].kind \in kinds}

-----------------------------------------------------------------------------
(* Stage 4.                                                                *)

QuestionPatterns == <<{"q"}, {"dot", "keydot"}, {"roman"}>>

(* The first of the patterns with the most matches, 0 if none has any. *)
BestPattern(text) ==
  LET count == [p \in 1..3 |-> Cardinality(Hits(text, QuestionPatterns[p]))] IN
  IF \A p \in 1..3 : count[p] = 0 THEN 0
  ELSE CHOOSE p \in 1..3 : \A o \in 1..3 :
         count[o] < count[p] \/ (count[o] = count[p] /\ p <= o)

(* Mutant: the match takes the line break above it, too. *)
Mut_MatchStart(text, p, i) == IF p = 1 THEN i ELSE i - 1

(* Where the match of line i begins: "^\s*" takes in the blank lines above *)
(* it, which the pattern "Q.1" does not have.                              *)
MatchStart(text, p, i) ==
  IF p = 1 THEN i
  ELSE CHOOSE s \in 1..i :
         /\ \A j \in s..(i - 1) : text[j].kind = "blank"
         /\ s = 1 \/ text[s - 1].kind # "blank"

(* The number group of a match; roman numerals are another alphabet. *)
QuestionNumber(line) ==
  <<IF line.kind = "roman" THEN "roman" ELSE "digit", line.num>>

NoNumber == <<"none", 0>>

(* Mutant: a question ends with the line that starts the next one. *)
Mut_SpanEnd(text, p, hits, n) ==
  IF n = Len(hits) THEN Len(text) ELSE MatchStart(text, p, hits[n + 1])

SpanEnd(text, p, hits, n) ==
  IF n = Len(hits) THEN Len(text) ELSE MatchStart(text, p, hits[n + 1]) - 1

(* The patterns but the first end in "\s+\S": stripping the match strips   *)
(* the first character of the question with its number.                    *)
Beheaded(p) == p # 1

Questions(text) ==
  LET p == BestPattern(text)
      hits == Sorted(Hits(text, QuestionPatterns[p]))
  IN
  IF p # 0
    THEN [n \in 1..Len(hits) |->
           [number |-> QuestionNumber(text[hits[n]]),
            line |-> hits[n],
            from |-> MatchStart(text, p, hits[n]),
            to |-> SpanEnd(text, p, hits, n),
            beheaded |-> Beheaded(p)]]
  ELSE IF \A i \in DOMAIN text : text[i].kind = "blank" THEN <<>>
  ELSE <<[number |-> NoNumber, line |-> 1, from |-> 1, to |-> Len(text),
          beheaded |-> FALSE]>>

(* Where the pages of the text begin and end; page gives the page of each  *)
(* line.                                                                   *)
FirstLine(page, p) == Lowest({i \in DOMAIN page : page[i] = p})
LastLine(page, p) == Highest({i \in DOMAIN page : page[i] = p})

(* The pages that overlap the span of a question; those of an unnumbered   *)
(* question are all pages.                                                 *)
SourcePages(page, from, to) ==
  {p \in Range(page) : FirstLine(page, p) <= to /\ from <= LastLine(page, p)}

(* What follows the number; of a question without one, everything.         *)
Body(q) == (IF q.number = NoNumber THEN q.from ELSE q.line + 1)..q.to

OptionPatterns == <<{"paren"}, {"letter"}>>

OptionLines(text, q, p) == Hits(text, OptionPatterns[p]) \cap Body(q)

(* The options of the first style that has two of them. *)
Options(text, q) ==
  LET valid == {p \in 1..2 : Cardinality(OptionLines(text, q, p)) >= 2} IN
  IF valid = {} THEN {} ELSE OptionLines(text, q, Lowest(valid))

(* A question that has options is cut at the first line of the first style *)
(* that occurs in it, be it the style of its options or not.               *)
TextEnd(text, q) ==
  LET found == {p \in 1..2 : OptionLines(text, q, p) # {}} IN
  IF Options(text, q) = {} THEN q.to ELSE Lowest(OptionLines(text, q, Lowest(found))) - 1

(* What is left of a question when its number and its options are cut off: *)
(* nothing of a key line, whose answer goes with its number, or of a       *)
(* document of options.                                                    *)
HasText(text, q) ==
  \/ q.number # NoNumber /\ text[q.line].kind # "keydot"
  \/ \E i \in Body(q) : i <= TextEnd(text, q) /\ text[i].kind # "blank"

-----------------------------------------------------------------------------
(* Stage 5: _find_answer_key_in_text.                                      *)

AnswerPatterns == <<{"keydot"}, {"keydash"}, {"keydot", "dot"}>>

HasHeader(text) == Hits(text, {"header"}) # {}

(* Mutant: the header is found, and the whole text searched. *)
Mut_SearchFrom(text) == 1

SearchFrom(text) ==
  IF HasHeader(text) THEN Lowest(Hits(text, {"header"})) ELSE 1

KeyLines(text, p) ==
  {i \in Hits(text, AnswerPatterns[p]) : i >= SearchFrom(text)}

NumbersOf(text, lines) == {text[i].num : i \in lines}

(* The number of matches of a pattern is compared with the number of       *)
(* entries of the best dictionary so far, which has one per number.        *)
Better(text, best, p) ==
  IF Cardinality(KeyLines(text, p)) > Cardinality(NumbersOf(text, best))
    THEN KeyLines(text, p) ELSE best

BestKey(text) == Better(text, Better(text, Better(text, {}, 1), 2), 3)

(* The lines of a key that have the number of line i. *)
SameNumber(text, key, i) == {j \in key : text[j].num = text[i].num}

(* A dictionary as the sequence of its entries: a number keeps the place   *)
(* of its first match and takes the value of its last.                     *)
FoundAnswers(text, source) ==
  LET key == BestKey(text)
      order == Sorted({i \in key : i = Lowest(SameNumber(text, key, i))})
  IN [e \in 1..Len(order) |->
        [number |-> <<"digit", text[order[e]].num>>, source |-> source,
         line |-> Highest(SameNumber(text, key, order[e])), headed |-> HasHeader(text)]]

Has(dict, number) == \E e \in DOMAIN dict : dict[e].number = number
Entry(dict, number) == dict[CHOOSE e \in DOMAIN dict : dict[e].number = number]

(* The entries of another dictionary for numbers that this one has not. *)
Added(dict, other) == Kept(other, {e \in DOMAIN other : ~Has(dict, other[e].number)})

(* Mutant: what is already there wins. *)
Mut_Update(dict, other) == dict \o Added(dict, other)

(* dict.update *)
Update(dict, other) ==
  [e \in 1..Len(dict) |->
     IF Has(other, dict[e].number) THEN Entry(other, dict[e].number) ELSE dict[e]]
  \o Added(dict, other)

RawAnswers(text, linked) ==
  Update(FoundAnswers(text, "SAME_DOC"), FoundAnswers(linked, "LINKED_DOC"))

-----------------------------------------------------------------------------
(* Stage 5: _match_answers_to_questions.  The numbers of answers are       *)
(* digits, and so are those of questions unless they are roman; so the     *)
(* numeric part of a number is the number, or empty, and the fuzzy match   *)
(* by numeric parts never finds what the exact one has not.                *)

(* Mutant: answers matched by number are matched by position again. *)
Mut_Unmatched(questions, raw) == raw

Unmatched(questions, raw) ==
  Kept(raw, {e \in DOMAIN raw : \A n \in DOMAIN questions : questions[n].number # raw[e].number})

Unanswered(questions, raw) ==
  Kept(questions, {n \in DOMAIN questions :
                     questions[n].number # NoNumber /\ ~Has(raw, questions[n].number)})

(* Where zip(unmatched_questions, unmatched_answers) has an answer for a   *)
(* number; of two questions with one number the second overwrites the      *)
(* entry of the first.                                                     *)
Positional(questions, raw, number) ==
  LET open == Unanswered(questions, raw)
      left == Unmatched(questions, raw)
  IN {n \in DOMAIN open \cap DOMAIN left : open[n].number = number}

(* What answers.get(number) returns after the matching. *)
Match(questions, raw, number) ==
  IF number = NoNumber THEN [type |-> "none"]
  ELSE IF Has(raw, number) THEN [type |-> "exact", answer |-> Entry(raw, number)]
  ELSE IF Positional(questions, raw, number) # {}
    THEN [type |-> "positional",
          answer |-> Unmatched(questions, raw)[Highest(Positional(questions, raw, number))]]
  ELSE [type |-> "none"]

=============================================================================

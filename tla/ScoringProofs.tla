--------------------------- MODULE ScoringProofs ---------------------------
(***************************************************************************)
(* Stages 4, 5 and 6 for every document.  Whatever its lines, its pages    *)
(* and the answer keys linked to it, the spans of its questions tile it,   *)
(* no answer goes to two numbers, the linked answers win, and a key behind *)
(* the questions is found as it is; and whatever the OCR confidences and   *)
(* the number of options, every question without a number, every one       *)
(* without text and every one half of whose pages could not be read is     *)
(* flagged.                                                                *)
(***************************************************************************)
EXTENDS Scoring, SortingProofs, SequenceTheorems

-----------------------------------------------------------------------------
(* Lines and patterns.                                                     *)

LEMMA HitsRight ==
  ASSUME NEW T, NEW lines \in Seq(T), NEW kinds
  PROVE  /\ Len(lines) \in Nat /\ DOMAIN lines = 1..Len(lines)
         /\ Hits(lines, kinds) \in SUBSET (1..Len(lines))
         /\ Hits(lines, kinds) \in SUBSET Nat /\ IsFiniteSet(Hits(lines, kinds))
         /\ Cardinality(Hits(lines, kinds)) \in Nat
         /\ Cardinality(Hits(lines, kinds)) = 0 <=> Hits(lines, kinds) = {}
<1>1. Len(lines) \in Nat /\ DOMAIN lines = 1..Len(lines)
  OBVIOUS
<1>2. Hits(lines, kinds) \in SUBSET (1..Len(lines))
  BY <1>1 DEF Hits
<1>3. IsFiniteSet(1..Len(lines))
  BY <1>1, FS_Interval
<1>4. IsFiniteSet(Hits(lines, kinds))
  BY <1>2, <1>3, FS_Subset
<1> HIDE DEF Hits
<1> QED BY <1>1, <1>2, <1>4, FS_CardinalityType, FS_EmptySet

(* The pattern of a document is 0 or one that it has a match of.           *)
LEMMA PatternRight ==
  ASSUME NEW lines \in Seq(Line)
  PROVE  /\ BestPattern(lines) \in 0..3
         /\ BestPattern(lines) # 0 => Hits(lines, QuestionPatterns[BestPattern(lines)]) # {}
<1> DEFINE count == [p \in 1..3 |-> Cardinality(Hits(lines, QuestionPatterns[p]))]
           best(p) == \A o \in 1..3 :
                        count[o] < count[p] \/ (count[o] = count[p] /\ p <= o)
<1>1. count \in [1..3 -> Nat]
  BY HitsRight
<1>2. \A p \in 1..3 : count[p] = 0 <=> Hits(lines, QuestionPatterns[p]) = {}
  BY HitsRight
<1>3. BestPattern(lines) =
        IF \A p \in 1..3 : count[p] = 0 THEN 0 ELSE CHOOSE p \in 1..3 : best(p)
  BY DEF BestPattern
<1> HIDE DEF count
<1>4. \E p \in 1..3 : best(p)
  <2>1. count[1] \in Nat /\ count[2] \in Nat /\ count[3] \in Nat
    BY <1>1
  <2>2. best(1) \/ best(2) \/ best(3)
    BY <2>1
  <2> QED BY <2>2
<1>5. CASE \A p \in 1..3 : count[p] = 0
  BY <1>3, <1>5
<1>6. CASE ~\A p \in 1..3 : count[p] = 0
  <2>1. PICK o \in 1..3 : count[o] # 0
    BY <1>6
  <2> DEFINE b == BestPattern(lines)
  <2>2. b \in 1..3 /\ best(b)
    BY <1>3, <1>4, <1>6
  <2> HIDE DEF b
  <2>3. count[o] \in Nat /\ count[b] \in Nat
    BY <1>1, <2>1, <2>2
  <2>4. count[o] <= count[b]
    BY <2>1, <2>2, <2>3
  <2>5. count[b] # 0
    BY <2>1, <2>3, <2>4
  <2>6. b \in 0..3 /\ (b # 0 => Hits(lines, QuestionPatterns[b]) # {})
    BY <1>2, <2>2, <2>5
  <2> QED BY <2>6 DEF b
<1> QED BY <1>5, <1>6

(* A match begins at its line or in the blank lines above it.              *)
LEMMA MatchStartRight ==
  ASSUME NEW lines \in Seq(Line), NEW p, NEW i \in DOMAIN lines
  PROVE  /\ MatchStart(lines, p, i) \in 1..i
         /\ \A j \in MatchStart(lines, p, i)..(i - 1) : lines[j].kind = "blank"
<1>1. i \in Nat /\ i >= 1 /\ DOMAIN lines = 1..Len(lines) /\ Len(lines) \in Nat
  OBVIOUS
<1>2. CASE p = 1
  BY <1>1, <1>2 DEF MatchStart
<1>3. CASE p # 1
  <2> DEFINE starts == {s \in 1..i : \A j \in s..(i - 1) : lines[j].kind = "blank"}
             s0 == Lowest(starts)
  <2>1. starts \in SUBSET Nat /\ i \in starts
    BY <1>1
  <2>2. s0 \in starts /\ \A s \in starts : s0 <= s
    BY <2>1, LowestRight
  <2> HIDE DEF s0
  <2>3. s0 \in 1..i /\ \A j \in s0..(i - 1) : lines[j].kind = "blank"
    BY <2>2
  <2>4. s0 # 1 => lines[s0 - 1].kind # "blank"
    <3> SUFFICES ASSUME s0 # 1, lines[s0 - 1].kind = "blank"
                 PROVE  FALSE
      OBVIOUS
    <3>1. s0 - 1 \in 1..i
      BY <1>1, <2>3
    <3>2. \A j \in (s0 - 1)..(i - 1) : j = s0 - 1 \/ j \in s0..(i - 1)
      BY <1>1, <2>3
    <3>3. s0 - 1 \in starts
      BY <2>3, <3>1, <3>2
    <3> QED BY <1>1, <2>2, <2>3, <3>3
  <2>5. \E s \in 1..i : /\ \A j \in s..(i - 1) : lines[j].kind = "blank"
                        /\ s = 1 \/ lines[s - 1].kind # "blank"
    BY <2>3, <2>4
  <2> QED BY <1>3, <2>5 DEF MatchStart
<1> QED BY <1>2, <1>3

-----------------------------------------------------------------------------
(* Questions.                                                              *)

HitLines(lines) == Hits(lines, QuestionPatterns[BestPattern(lines)])

(* The questions of a document that has numbers are its matches in order.  *)
LEMMA NumberedQuestions ==
  ASSUME NEW lines \in Seq(Line), BestPattern(lines) # 0
  PROVE  LET p == BestPattern(lines)
             hits == Sorted(HitLines(lines))
             c == Cardinality(HitLines(lines))
         IN /\ c \in Nat /\ c # 0
            /\ hits \in [1..c -> HitLines(lines)] /\ Len(hits) = c
            /\ \A m, n \in 1..c : m < n => hits[m] < hits[n]
            /\ Questions(lines) =
                 [n \in 1..c |->
                   [number |-> QuestionNumber(lines[hits[n]]), line |-> hits[n],
                    from |-> MatchStart(lines, p, hits[n]),
                    to |-> SpanEnd(lines, p, hits, n), beheaded |-> Beheaded(p)]]
            /\ Len(Questions(lines)) = c /\ DOMAIN Questions(lines) = 1..c
<1> DEFINE p == BestPattern(lines)
           H == HitLines(lines)
           hits == Sorted(H)
           c == Cardinality(H)
<1>1. H # {} /\ H \in SUBSET Nat /\ IsFiniteSet(H)
  BY PatternRight, HitsRight DEF HitLines
<1>2. c \in Nat /\ c # 0
  BY <1>1, FS_CardinalityType, FS_EmptySet
<1> HIDE DEF H
<1>3. hits \in [1..c -> H] /\ \A m, n \in 1..c : m < n => hits[m] < hits[n]
  BY <1>1, SortedRight
<1>4. Len(hits) = c
  BY <1>2, <1>3
<1>5. Questions(lines) =
        [n \in 1..Len(hits) |->
           [number |-> QuestionNumber(lines[hits[n]]), line |-> hits[n],
            from |-> MatchStart(lines, p, hits[n]),
            to |-> SpanEnd(lines, p, hits, n), beheaded |-> Beheaded(p)]]
  BY DEF Questions, H, HitLines
<1> HIDE DEF hits, c
<1>6. Len(Questions(lines)) = c /\ DOMAIN Questions(lines) = 1..c
  BY <1>2, <1>4, <1>5
<1> QED BY <1>1, <1>2, <1>3, <1>4, <1>5, <1>6 DEF hits, c, H

LEMMA NotBlank ==
  ASSUME NEW lines \in Seq(Line), BestPattern(lines) # 0, NEW i \in HitLines(lines)
  PROVE  i \in DOMAIN lines /\ lines[i].kind # "blank"
<1>1. BestPattern(lines) \in 1..3
  BY PatternRight
<1> QED BY <1>1 DEF HitLines, Hits, QuestionPatterns

(* A question goes from the blank lines above its number to where the next *)
(* one begins.                                                             *)
LEMMA SpansRight ==
  ASSUME NEW lines \in Seq(Line), BestPattern(lines) # 0
  PROVE  LET qs == Questions(lines) IN
         /\ Len(qs) \in Nat /\ Len(qs) # 0 /\ DOMAIN qs = 1..Len(qs)
         /\ \A n \in DOMAIN qs :
              /\ qs[n].line \in DOMAIN lines /\ qs[n].from \in 1..qs[n].line
              /\ qs[n].to = IF n = Len(qs) THEN Len(lines) ELSE qs[n + 1].from - 1
         /\ \A m, n \in DOMAIN qs : m < n => qs[m].line < qs[n].from
<1> DEFINE p == BestPattern(lines)
           hits == Sorted(HitLines(lines))
           c == Cardinality(HitLines(lines))
           qs == Questions(lines)
<1>1. /\ c \in Nat /\ c # 0 /\ hits \in [1..c -> HitLines(lines)] /\ Len(hits) = c
      /\ \A m, n \in 1..c : m < n => hits[m] < hits[n]
      /\ qs = [n \in 1..c |->
                [number |-> QuestionNumber(lines[hits[n]]), line |-> hits[n],
                 from |-> MatchStart(lines, p, hits[n]),
                 to |-> SpanEnd(lines, p, hits, n), beheaded |-> Beheaded(p)]]
      /\ Len(qs) = c /\ DOMAIN qs = 1..c
  BY NumberedQuestions
<1> HIDE DEF hits, c, qs, p
<1>2. \A n \in 1..c : hits[n] \in DOMAIN lines /\ lines[hits[n]].kind # "blank"
  BY <1>1, NotBlank
<1>3. \A n \in 1..c : qs[n].line = hits[n] /\ qs[n].from = MatchStart(lines, p, hits[n])
  BY <1>1
<1>4. \A n \in 1..c :
        /\ qs[n].from \in 1..qs[n].line
        /\ \A j \in qs[n].from..(qs[n].line - 1) : lines[j].kind = "blank"
  BY <1>2, <1>3, MatchStartRight
<1>5. ASSUME NEW n \in 1..c
      PROVE  qs[n].to = IF n = c THEN Len(lines) ELSE qs[n + 1].from - 1
  <2>1. qs[n].to = SpanEnd(lines, p, hits, n)
    BY <1>1
  <2>2. n # c => n + 1 \in 1..c
    BY <1>1
  <2>3. n # c => qs[n + 1].from = MatchStart(lines, p, hits[n + 1])
    BY <1>3, <2>2
  <2> QED BY <1>1, <2>1, <2>3 DEF SpanEnd
<1>6. ASSUME NEW m \in 1..c, NEW n \in 1..c, m < n
      PROVE  qs[m].line < qs[n].from
  <2>1. qs[m].line \in Nat /\ qs[n].line \in Nat /\ qs[n].from \in Nat
    BY <1>2, <1>3, <1>4
  <2>2. qs[m].line < qs[n].line /\ lines[qs[m].line].kind # "blank"
    BY <1>1, <1>2, <1>3, <1>6
  <2>3. ~(qs[m].line \in qs[n].from..(qs[n].line - 1))
    BY <1>4, <2>2
  <2> QED BY <2>1, <2>2, <2>3
<1>7. \A n \in 1..c : qs[n].line \in DOMAIN lines
  BY <1>2, <1>3
<1> QED BY <1>1, <1>4, <1>5, <1>6, <1>7 DEF qs

(* Every line from the first number on is in one question.                 *)
LEMMA OneSpan ==
  ASSUME NEW lines \in Seq(Line), BestPattern(lines) # 0, NEW i \in DOMAIN lines,
         i >= Questions(lines)[1].from
  PROVE  \E n \in DOMAIN Questions(lines) :
           {m \in DOMAIN Questions(lines) :
              i \in Questions(lines)[m].from..Questions(lines)[m].to} = {n}
<1> DEFINE qs == Questions(lines)
           c == Len(qs)
           begun == {n \in 1..c : qs[n].from <= i}
           n == Highest(begun)
<1>0. i \in Nat /\ i <= Len(lines) /\ Len(lines) \in Nat /\ DOMAIN lines \in SUBSET Nat
  OBVIOUS
<1>1. /\ c \in Nat /\ c # 0 /\ DOMAIN qs = 1..c
      /\ \A k \in 1..c :
           /\ qs[k].line \in Nat /\ qs[k].from \in Nat /\ qs[k].from <= qs[k].line
           /\ qs[k].to = IF k = c THEN Len(lines) ELSE qs[k + 1].from - 1
      /\ \A k, m \in 1..c : k < m => qs[k].line < qs[m].from
      /\ i \in Nat /\ i <= Len(lines) /\ Len(lines) \in Nat
  <2>1. /\ c \in Nat /\ c # 0 /\ DOMAIN qs = 1..c
        /\ \A k \in 1..c : /\ qs[k].line \in DOMAIN lines /\ qs[k].from \in 1..qs[k].line
                           /\ qs[k].to = IF k = c THEN Len(lines) ELSE qs[k + 1].from - 1
        /\ \A k, m \in 1..c : k < m => qs[k].line < qs[m].from
    BY SpansRight
  <2> HIDE DEF qs, c
  <2>2. \A k \in 1..c : qs[k].line \in Nat /\ qs[k].from \in Nat /\ qs[k].from <= qs[k].line
    BY <1>0, <2>1
  <2> QED BY <1>0, <2>1, <2>2
<1> HIDE DEF qs, c
<1>2. begun \in SUBSET Nat /\ 1 \in begun /\ \A k \in begun : k <= c
  BY <1>1 DEF qs
<1>3. n \in begun /\ \A k \in begun : n >= k
  BY <1>1, <1>2, HighestRight
<1> HIDE DEF n
<1>4. n \in 1..c /\ qs[n].from <= i
  BY <1>3
<1>5. i <= qs[n].to
  <2>1. CASE n = c
    BY <1>1, <1>4, <2>1
  <2>2. CASE n # c
    <3>1. n + 1 \in 1..c /\ n + 1 \notin begun
      BY <1>1, <1>3, <1>4, <2>2
    <3>2. ~(qs[n + 1].from <= i) /\ qs[n + 1].from \in Nat
      BY <1>1, <3>1
    <3> QED BY <1>1, <1>4, <2>2, <3>2
  <2> QED BY <2>1, <2>2
<1>6. ASSUME NEW m \in 1..c, qs[m].from <= i, i <= qs[m].to
      PROVE  m = n
  <2>1. m <= n /\ m \in Nat /\ n \in Nat
    BY <1>1, <1>3, <1>4, <1>6
  <2>2. CASE m < n
    <3>1. m # c /\ m + 1 \in 1..c
      BY <1>1, <1>4, <2>2
    <3>2. qs[m].to = qs[m + 1].from - 1 /\ qs[m + 1].from <= qs[m + 1].line
      BY <1>1, <3>1
    <3>3. qs[m + 1].from <= qs[n].from
      <4>1. CASE m + 1 = n
        BY <1>1, <1>4, <4>1
      <4>2. CASE m + 1 # n
        <5>1. qs[m + 1].line < qs[n].from
          BY <1>1, <1>4, <2>1, <2>2, <3>1, <4>2
        <5> QED BY <1>1, <1>4, <3>1, <3>2, <5>1
      <4> QED BY <4>1, <4>2
    <3> QED BY <1>1, <1>4, <1>6, <3>1, <3>2, <3>3
  <2> QED BY <2>1, <2>2
<1>7. \A m \in 1..c : qs[m].from \in Nat /\ qs[m].to \in Int
  <2> TAKE m \in 1..c
  <2>1. m # c => m + 1 \in 1..c
    BY <1>1
  <2> QED BY <1>1, <2>1
<1>8. \A m \in 1..c : i \in qs[m].from..qs[m].to <=> qs[m].from <= i /\ i <= qs[m].to
  BY <1>1, <1>7
<1>9. {m \in 1..c : i \in qs[m].from..qs[m].to} = {n}
  BY <1>4, <1>5, <1>6, <1>8
<1> QED BY <1>1, <1>4, <1>9 DEF qs

(* A document without numbers is one question, if it is not empty.         *)
LEMMA UnnumberedQuestions ==
  ASSUME NEW lines \in Seq(Line), BestPattern(lines) = 0
  PROVE  \/ Questions(lines) = <<>>
         \/ /\ Len(lines) \in Nat /\ Len(lines) # 0
            /\ Questions(lines) =
                 <<[number |-> NoNumber, line |-> 1, from |-> 1, to |-> Len(lines),
                    beheaded |-> FALSE]>>
<1>1. CASE \A i \in DOMAIN lines : lines[i].kind = "blank"
  BY <1>1 DEF Questions
<1>2. CASE ~\A i \in DOMAIN lines : lines[i].kind = "blank"
  <2>1. Len(lines) \in Nat /\ Len(lines) # 0
    BY <1>2
  <2> QED BY <1>2, <2>1 DEF Questions
<1> QED BY <1>1, <1>2

LEMMA QuestionsTile ==
  ASSUME NEW lines \in Seq(Line), NEW i \in DOMAIN lines, Questions(lines) # <<>>,
         i >= Questions(lines)[1].from
  PROVE  \E n \in DOMAIN Questions(lines) :
           {m \in DOMAIN Questions(lines) :
              i \in Questions(lines)[m].from..Questions(lines)[m].to} = {n}
<1>1. CASE BestPattern(lines) = 0
  <2> DEFINE q == [number |-> NoNumber, line |-> 1, from |-> 1, to |-> Len(lines),
                   beheaded |-> FALSE]
  <2>1. Questions(lines) = <<q>>
    BY <1>1, UnnumberedQuestions
  <2>2. i \in 1..Len(lines) /\ q.from = 1 /\ q.to = Len(lines)
    OBVIOUS
  <2> HIDE DEF q
  <2>3. DOMAIN Questions(lines) = {1} /\ Questions(lines)[1] = q
    BY <2>1
  <2> QED BY <2>2, <2>3
<1>2. CASE BestPattern(lines) # 0
  BY <1>2, OneSpan
<1> QED BY <1>1, <1>2

(* A question names the page of each of its lines.                         *)
LEMMA SourcePagesRight ==
  ASSUME NEW n \in Nat, NEW pg \in [1..n -> Nat], NEW i \in 1..n, NEW from \in Nat, NEW to \in Int,
         from <= i, i <= to
  PROVE  pg[i] \in SourcePages(pg, from, to)
<1> DEFINE on == {j \in DOMAIN pg : pg[j] = pg[i]}
<1>1. on \in SUBSET Nat /\ i \in on /\ \A j \in on : j <= n
  OBVIOUS
<1>2. Lowest(on) \in Nat /\ Lowest(on) <= i
  BY <1>1, LowestRight
<1>3. Highest(on) \in Nat /\ i <= Highest(on)
  BY <1>1, HighestRight
<1>4. FirstLine(pg, pg[i]) <= to /\ from <= LastLine(pg, pg[i])
  BY <1>2, <1>3 DEF FirstLine, LastLine
<1>5. pg[i] \in Range(pg)
  BY DEF Range
<1> QED BY <1>4, <1>5 DEF SourcePages

-----------------------------------------------------------------------------
(* Answer keys.                                                            *)

(* An answer key is a set of lines of the document that have numbers.      *)
LEMMA KeyRight ==
  ASSUME NEW lines \in Seq(Line)
  PROVE  /\ BestKey(lines) \in SUBSET Nat /\ IsFiniteSet(BestKey(lines))
         /\ \A i \in BestKey(lines) :
              /\ i \in DOMAIN lines /\ i <= Len(lines)
              /\ lines[i].num \in Numbers
<1> DEFINE KL(p) == KeyLines(lines, p)
<1>1. BestKey(lines) \in {{}, KL(1), KL(2), KL(3)}
  <2>1. \A best, p : Better(lines, best, p) \in {best, KL(p)}
    BY DEF Better
  <2> HIDE DEF KL
  <2> QED BY <2>1 DEF BestKey
<1>2. ASSUME NEW p \in 1..3
      PROVE  \A i \in KL(p) : i \in DOMAIN lines /\ lines[i].num \in Numbers
  <2> TAKE i \in KL(p)
  <2>1. i \in DOMAIN lines /\ lines[i].kind \in AnswerPatterns[p]
    BY DEF KeyLines, Hits
  <2>2. lines[i] \in Line /\ lines[i].kind \in {"keydot", "keydash", "dot"}
    BY <1>2, <2>1 DEF AnswerPatterns
  <2>3. lines[i].num \in Numbers
    BY <2>2 DEF Line, Plain, Numbered
  <2> QED BY <2>1, <2>3
<1> HIDE DEF KL
<1>3. \A i \in BestKey(lines) : i \in DOMAIN lines /\ lines[i].num \in Numbers
  BY <1>1, <1>2
<1>4. DOMAIN lines = 1..Len(lines) /\ Len(lines) \in Nat /\ IsFiniteSet(1..Len(lines))
  BY FS_Interval
<1>5. BestKey(lines) \in SUBSET (1..Len(lines))
  BY <1>3, <1>4
<1>6. IsFiniteSet(BestKey(lines))
  BY <1>4, <1>5, FS_Subset
<1> QED BY <1>3, <1>4, <1>5, <1>6

LEMMA SameNumberRight ==
  ASSUME NEW lines \in Seq(Line), NEW i \in BestKey(lines)
  PROVE  LET same == SameNumber(lines, BestKey(lines), i) IN
         /\ Lowest(same) \in same /\ Highest(same) \in same
         /\ \A j \in same : Lowest(same) <= j /\ j <= Highest(same)
<1> DEFINE same == SameNumber(lines, BestKey(lines), i)
<1>1. same \in SUBSET Nat /\ i \in same /\ \A j \in same : j <= Len(lines)
  BY KeyRight DEF SameNumber
<1>2. Len(lines) \in Nat
  OBVIOUS
<1> HIDE DEF same
<1>3. /\ Lowest(same) \in same /\ \A j \in same : Lowest(same) <= j
      /\ Highest(same) \in same /\ \A j \in same : Highest(same) >= j
  BY <1>1, <1>2, LowestRight, HighestRight
<1>4. \A j \in same : j <= Highest(same)
  BY <1>1, <1>3
<1> QED BY <1>3, <1>4 DEF same

(* What is found in a text is a dictionary: every number once.             *)
IsDict(dict) ==
  /\ dict \in Seq(Found)
  /\ \A e, f \in DOMAIN dict : dict[e].number = dict[f].number => e = f

LEMMA FoundRight ==
  ASSUME NEW lines \in Seq(Line), NEW source \in AnswerSources
  PROVE  LET dict == FoundAnswers(lines, source)
             key_ == BestKey(lines)
         IN /\ IsDict(dict)
            /\ \A e \in DOMAIN dict :
                 /\ dict[e].source = source /\ dict[e].line \in key_
                 /\ dict[e].number = <<"digit", lines[dict[e].line].num>>
            /\ \A i \in key_ : Has(dict, <<"digit", lines[i].num>>)
<1> DEFINE key_ == BestKey(lines)
           same(i) == SameNumber(lines, key_, i)
           firsts == {i \in key_ : i = Lowest(same(i))}
           order == Sorted(firsts)
           c == Cardinality(firsts)
           dict == FoundAnswers(lines, source)
<1>1. /\ key_ \in SUBSET Nat /\ IsFiniteSet(key_)
      /\ \A i \in key_ : i \in DOMAIN lines /\ lines[i].num \in Numbers
  BY KeyRight
<1>2. firsts \in SUBSET Nat /\ IsFiniteSet(firsts) /\ firsts \in SUBSET key_
  <2>1. firsts \in SUBSET key_
    OBVIOUS
  <2> HIDE DEF firsts, key_
  <2> QED BY <1>1, <2>1, FS_Subset
<1>3. \A i \in key_ : /\ Lowest(same(i)) \in same(i) /\ Highest(same(i)) \in same(i)
                      /\ \A j \in same(i) : Lowest(same(i)) <= j
  BY SameNumberRight
<1>4. \A i \in key_ : \A j \in same(i) :
        j \in key_ /\ lines[j].num = lines[i].num /\ same(j) = same(i)
  BY DEF SameNumber
<1>5. \A i, j \in firsts : lines[i].num = lines[j].num => i = j
  <2> SUFFICES ASSUME NEW i \in firsts, NEW j \in firsts, lines[i].num = lines[j].num
               PROVE  i = j
    OBVIOUS
  <2>1. same(i) = same(j)
    BY <1>2 DEF SameNumber
  <2> QED BY <2>1
<1>6. dict = [e \in 1..Len(order) |->
                [number |-> <<"digit", lines[order[e]].num>>, source |-> source,
                 line |-> Highest(same(order[e])), headed |-> HasHeader(lines)]]
  BY DEF FoundAnswers
<1>7. \A i \in key_ : Lowest(same(i)) \in firsts /\ lines[Lowest(same(i))].num = lines[i].num
  BY <1>3, <1>4
<1> HIDE DEF key_, same, firsts
<1>8. /\ c \in Nat /\ order \in [1..c -> firsts]
      /\ \A m, n \in 1..c : m < n => order[m] < order[n]
      /\ \A i \in firsts : \E n \in 1..c : order[n] = i
  BY <1>2, SortedRight
<1> HIDE DEF order, c, dict
<1>9. Len(order) = c /\ DOMAIN dict = 1..c
  BY <1>6, <1>8
<1>10. ASSUME NEW e \in 1..c
       PROVE  /\ order[e] \in firsts /\ order[e] \in key_
              /\ dict[e] \in Found /\ dict[e].source = source /\ dict[e].line \in key_
              /\ dict[e].number = <<"digit", lines[order[e]].num>>
              /\ lines[dict[e].line].num = lines[order[e]].num
  <2>1. order[e] \in firsts /\ order[e] \in key_
    BY <1>2, <1>8
  <2>2. dict[e] = [number |-> <<"digit", lines[order[e]].num>>, source |-> source,
                   line |-> Highest(same(order[e])), headed |-> HasHeader(lines)]
    BY <1>6, <1>9
  <2>3. /\ Highest(same(order[e])) \in key_
        /\ lines[Highest(same(order[e]))].num = lines[order[e]].num
    BY <1>3, <1>4, <2>1
  <2>4. HasHeader(lines) \in BOOLEAN
    BY DEF HasHeader
  <2> DEFINE n == <<"digit", lines[order[e]].num>>
             l == Highest(same(order[e]))
             h == HasHeader(lines)
  <2>5. n \in {"digit"} \X Numbers /\ l \in Nat /\ h \in BOOLEAN
    BY <1>1, <2>1, <2>3, <2>4
  <2>6. dict[e] = [number |-> n, source |-> source, line |-> l, headed |-> h]
    BY <2>2
  <2> HIDE DEF n, l, h
  <2>7. dict[e] \in Found
    BY <2>5, <2>6 DEF Found
  <2>8. dict[e].number = n /\ dict[e].source = source /\ dict[e].line = l
    BY <2>6
  <2> QED BY <2>1, <2>3, <2>7, <2>8 DEF n, l
<1>11. dict \in Seq(Found)
  BY <1>6, <1>8, <1>9, <1>10
<1>12. ASSUME NEW e \in 1..c, NEW f \in 1..c, dict[e].number = dict[f].number
       PROVE  e = f
  <2>1. lines[order[e]].num = lines[order[f]].num
    BY <1>10, <1>12
  <2>2. order[e] = order[f] /\ order[e] \in Nat
    BY <1>2, <1>5, <1>10, <2>1
  <2> QED BY <1>8, <2>2
<1>13. ASSUME NEW i \in key_
       PROVE  Has(dict, <<"digit", lines[i].num>>)
  <2>1. PICK e \in 1..c : order[e] = Lowest(same(i))
    BY <1>7, <1>8
  <2>2. dict[e].number = <<"digit", lines[i].num>>
    BY <1>7, <1>10, <2>1
  <2> QED BY <1>9, <2>2 DEF Has
<1> QED BY <1>9, <1>10, <1>11, <1>12, <1>13 DEF IsDict, dict, key_

LEMMA EntryRight ==
  ASSUME NEW dict, NEW number, Has(dict, number)
  PROVE  \E e \in DOMAIN dict : dict[e].number = number /\ Entry(dict, number) = dict[e]
BY DEF Has, Entry

LEMMA EntryUnique ==
  ASSUME NEW dict, IsDict(dict), NEW e \in DOMAIN dict
  PROVE  Has(dict, dict[e].number) /\ Entry(dict, dict[e].number) = dict[e]
<1>1. Has(dict, dict[e].number)
  BY DEF Has
<1>2. PICK f \in DOMAIN dict : /\ dict[f].number = dict[e].number
                               /\ Entry(dict, dict[e].number) = dict[f]
  BY <1>1, EntryRight
<1> QED BY <1>1, <1>2 DEF IsDict

(* update: the other dictionary wins.                                      *)
LEMMA AddedRight ==
  ASSUME NEW dict, NEW other, IsDict(other)
  PROVE  /\ IsDict(Added(dict, other))
         /\ \A f \in DOMAIN other :
              Has(dict, other[f].number) \/ Has(Added(dict, other), other[f].number)
         /\ \A e \in DOMAIN Added(dict, other) :
              /\ ~Has(dict, Added(dict, other)[e].number)
              /\ \E f \in DOMAIN other : Added(dict, other)[e] = other[f]
<1> DEFINE I == {f \in DOMAIN other : ~Has(dict, other[f].number)}
           more == Added(dict, other)
           c == Cardinality(I)
           at == Sorted(I)
<1>1. I \in SUBSET DOMAIN other /\ other \in Seq(Found)
  BY DEF IsDict
<1>2. \A f \in I : ~Has(dict, other[f].number)
  OBVIOUS
<1>3. \A f \in DOMAIN other : Has(dict, other[f].number) \/ f \in I
  OBVIOUS
<1>4. more = Kept(other, I)
  BY DEF Added
<1> HIDE DEF I, more
<1>5. /\ more \in Seq(Found) /\ DOMAIN more = 1..c /\ c \in Nat /\ IsFiniteSet(I)
      /\ at \in [1..c -> I] /\ \A n \in 1..c : more[n] = other[at[n]]
      /\ \A m, n \in 1..c : m < n => at[m] < at[n]
  BY <1>1, <1>4, KeptRight
<1>6. I \in SUBSET Nat
  BY <1>1
<1>7. \A f \in I : \E n \in 1..c : at[n] = f
  BY <1>5, <1>6, SortedRight
<1> HIDE DEF at, c
<1>8. ASSUME NEW e \in 1..c, NEW f \in 1..c, more[e].number = more[f].number
      PROVE  e = f
  <2>1. at[e] = at[f] /\ at[e] \in Nat
    BY <1>1, <1>5, <1>6, <1>8 DEF IsDict
  <2> QED BY <1>5, <2>1
<1>9. \A e \in 1..c : ~Has(dict, more[e].number) /\ \E f \in DOMAIN other : more[e] = other[f]
  BY <1>1, <1>2, <1>5
<1>10. ASSUME NEW f \in I
       PROVE  Has(more, other[f].number)
  BY <1>5, <1>7 DEF Has
<1> QED BY <1>3, <1>5, <1>8, <1>9, <1>10 DEF IsDict, more

LEMMA ConcatRight ==
  ASSUME NEW T, NEW s \in Seq(T), NEW t \in Seq(T), NEW m, m = Len(s), NEW n, n = Len(t),
         NEW st, st = s \o t
  PROVE  /\ st \in Seq(T) /\ Len(st) = m + n /\ DOMAIN st = 1..(m + n)
         /\ \A e \in 1..m : st[e] = s[e]
         /\ \A e \in 1..n : st[m + e] = t[e]
         /\ \A e \in (m + 1)..(m + n) : st[e] = t[e - m]
<1>1. /\ st \in Seq(T) /\ Len(st) = m + n
      /\ \A e \in 1..(m + n) : st[e] = IF e <= m THEN s[e] ELSE t[e - m]
      /\ m \in Nat /\ n \in Nat
  BY ConcatProperties
<1>2. DOMAIN st = 1..(m + n)
  BY <1>1
<1>3. \A e \in 1..m : st[e] = s[e]
  BY <1>1
<1>4. ASSUME NEW e \in 1..n
      PROVE  st[m + e] = t[e]
  <2>1. m + e \in 1..(m + n) /\ ~(m + e <= m) /\ m + e - m = e
    BY <1>1
  <2> QED BY <1>1, <2>1
<1>5. \A e \in (m + 1)..(m + n) : st[e] = t[e - m]
  BY <1>1
<1> QED BY <1>1, <1>2, <1>3, <1>4, <1>5

LEMMA UpdateRight ==
  ASSUME NEW dict, NEW other, IsDict(dict), IsDict(other)
  PROVE  /\ IsDict(Update(dict, other))
         /\ \A e \in DOMAIN Update(dict, other) :
              \/ \E f \in DOMAIN dict : Update(dict, other)[e] = dict[f]
              \/ \E f \in DOMAIN other : Update(dict, other)[e] = other[f]
         /\ \A f \in DOMAIN other : \E e \in DOMAIN Update(dict, other) :
              Update(dict, other)[e] = other[f]
         /\ \A f \in DOMAIN dict : Has(Update(dict, other), dict[f].number)
<1> DEFINE first == [e \in 1..Len(dict) |->
                       IF Has(other, dict[e].number) THEN Entry(other, dict[e].number)
                       ELSE dict[e]]
           more == Added(dict, other)
           upd == Update(dict, other)
           m == Len(dict)
           n == Len(more)
<1>1. /\ dict \in Seq(Found) /\ m \in Nat /\ DOMAIN dict = 1..m
      /\ \A e, f \in 1..m : dict[e].number = dict[f].number => e = f
  BY DEF IsDict
<1>2. /\ more \in Seq(Found) /\ n \in Nat /\ DOMAIN more = 1..n
      /\ \A e, f \in 1..n : more[e].number = more[f].number => e = f
      /\ \A f \in DOMAIN other : Has(dict, other[f].number) \/ Has(more, other[f].number)
      /\ \A e \in 1..n : /\ ~Has(dict, more[e].number)
                         /\ \E f \in DOMAIN other : more[e] = other[f]
  BY AddedRight DEF IsDict
<1>3. \A e \in 1..m :
        /\ first[e].number = dict[e].number /\ first[e] \in Found
        /\ Has(other, dict[e].number) =>
             \E f \in DOMAIN other : first[e] = other[f]
        /\ ~Has(other, dict[e].number) => first[e] = dict[e]
  <2> TAKE e \in 1..m
  <2>1. CASE Has(other, dict[e].number)
    <3>1. PICK f \in DOMAIN other : /\ other[f].number = dict[e].number
                                    /\ Entry(other, dict[e].number) = other[f]
      BY <2>1, EntryRight
    <3>2. other[f] \in Found
      BY DEF IsDict
    <3> QED BY <2>1, <3>1, <3>2
  <2>2. CASE ~Has(other, dict[e].number)
    BY <1>1, <2>2
  <2> QED BY <2>1, <2>2
<1>4. first \in Seq(Found) /\ Len(first) = m
  BY <1>1, <1>3
<1>5. upd = first \o more
  BY DEF Update
<1> HIDE DEF first, more, upd, m, n
<1>6. /\ upd \in Seq(Found) /\ Len(upd) = m + n /\ DOMAIN upd = 1..(m + n)
      /\ \A e \in 1..m : upd[e] = first[e]
      /\ \A e \in 1..n : upd[m + e] = more[e]
      /\ \A e \in (m + 1)..(m + n) : upd[e] = more[e - m]
  <2>1. first \in Seq(Found) /\ more \in Seq(Found) /\ m = Len(first) /\ n = Len(more)
    BY <1>2, <1>4 DEF n
  <2> QED BY <2>1, <1>5, ConcatRight
<1>7. \A e \in 1..(m + n) : e \in 1..m \/ (e \in (m + 1)..(m + n) /\ e - m \in 1..n)
  BY <1>1, <1>2
<1>8. ASSUME NEW e \in 1..(m + n), NEW f \in 1..(m + n), upd[e].number = upd[f].number
      PROVE  e = f
  <2>1. CASE e \in 1..m /\ f \in 1..m
    BY <1>1, <1>3, <1>6, <1>8, <2>1
  <2>2. CASE ~(e \in 1..m) /\ ~(f \in 1..m)
    <3>1. e - m = f - m
      BY <1>2, <1>6, <1>7, <1>8, <2>2
    <3> QED BY <1>1, <1>2, <3>1
  <2>3. ASSUME NEW x \in 1..m, NEW y \in (m + 1)..(m + n), y - m \in 1..n,
               upd[x].number = upd[y].number
        PROVE  FALSE
    <3>1. dict[x].number = more[y - m].number
      BY <1>3, <1>6, <2>3
    <3> QED BY <1>1, <1>2, <2>3, <3>1 DEF Has
  <2> QED BY <1>7, <1>8, <2>1, <2>2, <2>3
<1>9. ASSUME NEW e \in 1..(m + n)
      PROVE  (\E f \in DOMAIN dict : upd[e] = dict[f]) \/ (\E f \in DOMAIN other : upd[e] = other[f])
  <2>1. CASE e \in 1..m
    BY <1>1, <1>3, <1>6, <2>1
  <2>2. CASE e \in (m + 1)..(m + n) /\ e - m \in 1..n
    BY <1>2, <1>6, <2>2
  <2> QED BY <1>7, <2>1, <2>2
<1>10. ASSUME NEW f \in DOMAIN other
       PROVE  \E e \in 1..(m + n) : upd[e] = other[f]
  <2>1. ASSUME NEW g \in DOMAIN other, other[g].number = other[f].number
        PROVE  other[g] = other[f]
    BY <2>1 DEF IsDict
  <2>2. CASE Has(dict, other[f].number)
    <3>1. PICK e \in 1..m : dict[e].number = other[f].number
      BY <1>1, <2>2 DEF Has
    <3>2. Has(other, dict[e].number)
      BY <3>1 DEF Has
    <3>3. upd[e] = other[f] /\ e \in 1..(m + n)
      BY <1>1, <1>2, <1>3, <1>6, <2>1, <3>1, <3>2
    <3> QED BY <3>3
  <2>3. CASE Has(more, other[f].number)
    <3>1. PICK e \in 1..n : more[e].number = other[f].number
      BY <1>2, <2>3 DEF Has
    <3>2. more[e] = other[f]
      BY <1>2, <2>1, <3>1
    <3>3. upd[m + e] = other[f] /\ m + e \in 1..(m + n)
      BY <1>1, <1>2, <1>6, <3>2
    <3> QED BY <3>3
  <2> QED BY <1>2, <2>2, <2>3
<1>11. ASSUME NEW f \in DOMAIN dict
       PROVE  Has(upd, dict[f].number)
  BY <1>1, <1>2, <1>3, <1>6 DEF Has
<1> QED BY <1>6, <1>8, <1>9, <1>10, <1>11 DEF IsDict, upd

(* The answers of a document and of the keys linked to it: those of the    *)
(* keys take precedence.                                                   *)
LEMMA RawRight ==
  ASSUME NEW lines \in Seq(Line), NEW linked \in Seq(Line)
  PROVE  LET dict == RawAnswers(lines, linked)
             ofKey == FoundAnswers(linked, "LINKED_DOC")
         IN /\ IsDict(dict)
            /\ \A number : Has(ofKey, number) =>
                 Has(dict, number) /\ Entry(dict, number).source = "LINKED_DOC"
<1> DEFINE dict == RawAnswers(lines, linked)
           own == FoundAnswers(lines, "SAME_DOC")
           ofKey == FoundAnswers(linked, "LINKED_DOC")
<1>1. IsDict(own) /\ IsDict(ofKey) /\ \A f \in DOMAIN ofKey : ofKey[f].source = "LINKED_DOC"
  BY FoundRight DEF AnswerSources
<1>2. dict = Update(own, ofKey)
  BY DEF RawAnswers
<1> HIDE DEF dict, own, ofKey
<1>3. IsDict(dict) /\ \A f \in DOMAIN ofKey : \E e \in DOMAIN dict : dict[e] = ofKey[f]
  BY <1>1, <1>2, UpdateRight
<1>4. ASSUME NEW number, Has(ofKey, number)
      PROVE  Has(dict, number) /\ Entry(dict, number).source = "LINKED_DOC"
  <2>1. PICK f \in DOMAIN ofKey : ofKey[f].number = number
    BY <1>4 DEF Has
  <2>2. PICK e \in DOMAIN dict : dict[e] = ofKey[f]
    BY <1>3
  <2>3. Has(dict, dict[e].number) /\ Entry(dict, dict[e].number) = dict[e]
    BY <1>3, EntryUnique
  <2> QED BY <1>1, <2>1, <2>2, <2>3
<1> QED BY <1>3, <1>4 DEF dict, ofKey

-----------------------------------------------------------------------------
(* Matching.                                                               *)

(* The answers left over are entries of the dictionary, each once, for     *)
(* whose numbers there is no question.                                     *)
LEMMA UnmatchedRight ==
  ASSUME NEW qs, NEW dict, IsDict(dict)
  PROVE  LET left == Unmatched(qs, dict) IN
         /\ left \in Seq(Found) /\ DOMAIN left \in SUBSET Nat /\ Len(left) \in Nat
         /\ \A k \in DOMAIN left :
              /\ k <= Len(left)
              /\ \E e \in DOMAIN dict : left[k] = dict[e]
              /\ \A n \in DOMAIN qs : qs[n].number # left[k].number
         /\ \A j, k \in DOMAIN left : left[j] = left[k] => j = k
<1> DEFINE I == {e \in DOMAIN dict : \A n \in DOMAIN qs : qs[n].number # dict[e].number}
           left == Unmatched(qs, dict)
           c == Cardinality(I)
           at == Sorted(I)
<1>1. /\ I \in SUBSET DOMAIN dict /\ dict \in Seq(Found)
      /\ \A e \in I, n \in DOMAIN qs : qs[n].number # dict[e].number
  BY DEF IsDict
<1>2. left = Kept(dict, I)
  BY DEF Unmatched
<1> HIDE DEF I, left
<1>3. /\ left \in Seq(Found) /\ DOMAIN left = 1..c /\ c \in Nat
      /\ at \in [1..c -> I] /\ \A n \in 1..c : left[n] = dict[at[n]]
      /\ \A m, n \in 1..c : m < n => at[m] < at[n]
  BY <1>1, <1>2, KeptRight
<1> HIDE DEF at, c
<1>4. ASSUME NEW j \in 1..c, NEW k \in 1..c, left[j] = left[k]
      PROVE  j = k
  <2>1. at[j] \in DOMAIN dict /\ at[k] \in DOMAIN dict /\ dict[at[j]] = dict[at[k]]
    BY <1>1, <1>3, <1>4
  <2>2. at[j] = at[k] /\ at[j] \in Nat
    BY <1>1, <2>1 DEF IsDict
  <2> QED BY <1>3, <2>2
<1>5. Len(left) = c
  BY <1>3
<1>6. \A k \in 1..c : /\ \E e \in DOMAIN dict : left[k] = dict[e]
                      /\ \A n \in DOMAIN qs : qs[n].number # left[k].number
  BY <1>1, <1>3
<1> QED BY <1>3, <1>4, <1>5, <1>6 DEF left

(* An answer matched by number is the one of that number; one matched by   *)
(* position was left over, and goes to the question at its place.          *)
LEMMA MatchRight ==
  ASSUME NEW qs, NEW dict, IsDict(dict), NEW number,
         NEW row, row = Match(qs, dict, number), NEW left, left = Unmatched(qs, dict),
         NEW open, open = Unanswered(qs, dict)
  PROVE  /\ row \in Rows
         /\ row.type # "none" => \E e \in DOMAIN dict : row.answer = dict[e]
         /\ row.type = "exact" => row.answer.number = number
         /\ row.type = "positional" =>
              \E h \in DOMAIN left : row.answer = left[h] /\ open[h].number = number
         /\ number # NoNumber /\ Has(dict, number) =>
              row.type = "exact" /\ row.answer = Entry(dict, number)
<1> DEFINE places == Positional(qs, dict, number)
<1>1. CASE number # NoNumber /\ Has(dict, number)
  <2>1. row = [type |-> "exact", answer |-> Entry(dict, number)]
    BY <1>1 DEF Match
  <2>2. PICK e \in DOMAIN dict : dict[e].number = number /\ Entry(dict, number) = dict[e]
    BY <1>1, EntryRight
  <2>3. dict[e] \in Found
    BY DEF IsDict
  <2>4. row \in Rows
    BY <2>1, <2>2, <2>3 DEF Rows
  <2> QED BY <2>1, <2>2, <2>4
<1>2. CASE number # NoNumber /\ ~Has(dict, number) /\ places # {}
  <2> DEFINE h == Highest(places)
  <2>1. row = [type |-> "positional", answer |-> left[h]]
    BY <1>2 DEF Match
  <2>2. /\ left \in Seq(Found) /\ DOMAIN left \in SUBSET Nat /\ Len(left) \in Nat
        /\ \A k \in DOMAIN left : k <= Len(left) /\ \E e \in DOMAIN dict : left[k] = dict[e]
    BY UnmatchedRight
  <2>3. places \in SUBSET DOMAIN left /\ \A k \in places : open[k].number = number
    BY DEF Positional
  <2> HIDE DEF places
  <2>4. h \in places
    BY <1>2, <2>2, <2>3, HighestRight
  <2> HIDE DEF h
  <2>5. left[h] \in Found /\ \E e \in DOMAIN dict : left[h] = dict[e]
    BY <2>2, <2>3, <2>4
  <2>6. row \in Rows
    BY <2>1, <2>5 DEF Rows
  <2> QED BY <1>2, <2>1, <2>3, <2>4, <2>5, <2>6
<1>3. CASE number = NoNumber \/ (~Has(dict, number) /\ places = {})
  <2>1. row = [type |-> "none"]
    BY <1>3 DEF Match
  <2>2. row \in Rows
    BY <2>1 DEF Rows
  <2>3. ~(number # NoNumber /\ Has(dict, number))
    BY <1>3
  <2> QED BY <2>1, <2>2, <2>3
<1> QED BY <1>1, <1>2, <1>3

LEMMA RowRight ==
  ASSUME NEW qs, NEW dict, IsDict(dict), NEW number, NEW row, row = Match(qs, dict, number)
  PROVE  /\ row \in Rows
         /\ row.type # "none" => \E e \in DOMAIN dict : row.answer = dict[e]
         /\ number # NoNumber /\ Has(dict, number) =>
              row.type = "exact" /\ row.answer = Entry(dict, number)
<1> DEFINE left == Unmatched(qs, dict)
           open == Unanswered(qs, dict)
<1>1. left = Unmatched(qs, dict) /\ open = Unanswered(qs, dict)
  OBVIOUS
<1> HIDE DEF left, open
<1> QED BY <1>1, MatchRight

LEMMA RowAnswer ==
  ASSUME NEW qs, NEW dict, IsDict(dict), NEW number, NEW row, row = Match(qs, dict, number),
         row.type # "none",
         NEW left, left = Unmatched(qs, dict), NEW open, open = Unanswered(qs, dict)
  PROVE  \/ row.answer.number = number
         \/ \E h \in DOMAIN left : row.answer = left[h] /\ open[h].number = number
<1>1. row.type \in {"exact", "positional"}
  BY RowRight DEF Rows
<1> QED BY <1>1, MatchRight

-----------------------------------------------------------------------------
(* An answer key at the end of its document.                               *)

KeyOfText == {i \in DOMAIN text : IsKey(i)}

QuestionsFirst == \A i \in DOMAIN text : IsQuestion(i) => i < HeaderLine

(* Its only header is where the search begins, behind all questions.       *)
LEMMA HeaderFound ==
  ASSUME text \in Seq(Line), HasOneKey
  PROVE  HasHeader(text) /\ SearchFrom(text) = HeaderLine /\ HeaderLine \in Nat
<1> DEFINE H == Hits(text, {"header"})
<1>1. IsFiniteSet(H) /\ H \in SUBSET Nat /\ Cardinality(H) = 1
  BY HitsRight DEF HasOneKey
<1>2. \A i : i \in H <=> i \in DOMAIN text /\ text[i].kind = "header"
  BY DEF Hits
<1> HIDE DEF H
<1>3. PICK h : H = {h}
  BY <1>1, FS_Singleton
<1>4. \A i : i \in DOMAIN text /\ text[i].kind = "header" <=> i = h
  BY <1>2, <1>3
<1>5. HeaderLine = h
  BY <1>4 DEF HeaderLine
<1>6. Lowest(H) = h /\ h \in Nat
  BY <1>1, <1>3, LowestRight
<1> QED BY <1>3, <1>5, <1>6 DEF HasHeader, SearchFrom, H

LEMMA OneStyle ==
  ASSUME text \in Seq(Line), HasOneKey
  PROVE  /\ KeyOfText # {}
         /\ \/ \A i \in KeyOfText : text[i].kind = "keydot"
            \/ \A i \in KeyOfText : text[i].kind = "keydash"
<1> DEFINE kinds == {text[i].kind : i \in {j \in DOMAIN text : IsKey(j)}}
<1>1. kinds \in SUBSET {"keydot", "keydash"} /\ Cardinality(kinds) = 1
  BY DEF HasOneKey, IsKey
<1>2. kinds = {text[i].kind : i \in KeyOfText}
  BY DEF KeyOfText
<1> HIDE DEF kinds
<1>3. IsFiniteSet({"keydot", "keydash"})
  <2>1. IsFiniteSet({"keydot"} \cup {"keydash"})
    BY FS_Singleton, FS_Union
  <2> QED BY <2>1
<1>4. IsFiniteSet(kinds)
  BY <1>1, <1>3, FS_Subset
<1>5. PICK k : kinds = {k}
  BY <1>1, <1>4, FS_Singleton
<1> QED BY <1>1, <1>2, <1>5

(* The search finds the key and nothing else.                              *)
LEMMA KeyIsFound ==
  ASSUME text \in Seq(Line), HasOneKey, QuestionsFirst
  PROVE  BestKey(text) = KeyOfText
<1> DEFINE KL(p) == KeyLines(text, p)
           A == KeyOfText
<1>1. /\ SearchFrom(text) = HeaderLine /\ HeaderLine \in Nat
      /\ DOMAIN text \in SUBSET Nat
  BY HeaderFound
<1>2. /\ \A i \in DOMAIN text : i \in A <=> text[i].kind \in {"keydot", "keydash"}
      /\ \A i \in A : i \in DOMAIN text /\ i >= HeaderLine
      /\ \A i \in DOMAIN text : text[i].kind = "dot" => ~(i >= HeaderLine)
  BY <1>1 DEF KeyOfText, IsKey, IsQuestion, HasOneKey, QuestionsFirst
<1>3. /\ \A i : i \in KL(1) <=> i \in DOMAIN text /\ text[i].kind = "keydot" /\ i >= HeaderLine
      /\ \A i : i \in KL(2) <=> i \in DOMAIN text /\ text[i].kind = "keydash" /\ i >= HeaderLine
      /\ \A i : i \in KL(3) <=>
                i \in DOMAIN text /\ text[i].kind \in {"keydot", "dot"} /\ i >= HeaderLine
  BY <1>1 DEF KeyLines, Hits, AnswerPatterns
<1>4. A # {} /\ IsFiniteSet(A)
  <2>1. A = Hits(text, {"keydot", "keydash"})
    BY DEF KeyOfText, IsKey, Hits
  <2> QED BY <2>1, OneStyle, HitsRight
<1>5. Cardinality(A) \in Nat /\ Cardinality(A) > 0
  BY <1>4, FS_CardinalityType, FS_EmptySet
<1>6. Cardinality(NumbersOf(text, {})) = 0
  BY FS_EmptySet DEF NumbersOf
<1>7. Cardinality(NumbersOf(text, A)) \in Nat
  <2> DEFINE num == [i \in A |-> text[i].num]
             Nums == {num[i] : i \in A}
  <2>1. NumbersOf(text, A) = Nums
    BY DEF NumbersOf
  <2>2. num \in Surjection(A, Nums)
    BY DEF Surjection
  <2>3. IsFiniteSet(Nums)
    BY <1>4, <2>2, FS_Surjection
  <2> QED BY <2>1, <2>3, FS_CardinalityType
<1>8. ASSUME NEW p, KL(p) = {}, NEW best, Cardinality(NumbersOf(text, best)) \in Nat
      PROVE  Better(text, best, p) = best
  BY <1>8, FS_EmptySet DEF Better
<1>9. ASSUME NEW p, KL(p) = A
      PROVE  Better(text, {}, p) = A /\ Better(text, A, p) = A
  BY <1>5, <1>6, <1>9 DEF Better
<1> HIDE DEF KL, A
<1>10. CASE \A i \in A : text[i].kind = "keydot"
  <2>1. KL(1) = A /\ KL(2) = {} /\ KL(3) = A
    BY <1>2, <1>3, <1>10
  <2> QED BY <1>7, <1>8, <1>9, <2>1 DEF BestKey, A
<1>11. CASE \A i \in A : text[i].kind = "keydash"
  <2>1. KL(1) = {} /\ KL(2) = A /\ KL(3) = {}
    BY <1>2, <1>3, <1>11
  <2> QED BY <1>6, <1>7, <1>8, <1>9, <2>1 DEF BestKey, A
<1> QED BY <1>10, <1>11, OneStyle DEF A

(* So every answer is a line of the key, and every number of the key has   *)
(* its answer.                                                             *)
LEMMA KeyAnswers ==
  ASSUME text \in Seq(Line), HasOneKey, QuestionsFirst
  PROVE  LET dict == RawAnswers(text, <<>>) IN
         /\ IsDict(dict)
         /\ \A e \in DOMAIN dict :
              /\ dict[e].line \in KeyOfText
              /\ dict[e].number = <<"digit", text[dict[e].line].num>>
         /\ \A i \in KeyOfText : Has(dict, <<"digit", text[i].num>>)
<1> DEFINE own == FoundAnswers(text, "SAME_DOC")
           none == FoundAnswers(<<>>, "LINKED_DOC")
           dict == RawAnswers(text, <<>>)
<1>1. BestKey(text) = KeyOfText
  BY KeyIsFound
<1>2. /\ IsDict(own)
      /\ \A e \in DOMAIN own : /\ own[e].line \in KeyOfText
                               /\ own[e].number = <<"digit", text[own[e].line].num>>
      /\ \A i \in KeyOfText : Has(own, <<"digit", text[i].num>>)
  BY <1>1, FoundRight DEF AnswerSources
<1>3. <<>> \in Seq(Line)
  OBVIOUS
<1>4. IsDict(none) /\ \A e \in DOMAIN none : none[e].line \in BestKey(<<>>)
  BY <1>3, FoundRight DEF AnswerSources
<1>5. \A i \in BestKey(<<>>) : i \in DOMAIN <<>>
  BY <1>3, KeyRight
<1>6. ~\E e \in DOMAIN none : TRUE
  BY <1>4, <1>5
<1>7. dict = Update(own, none)
  BY DEF RawAnswers
<1> HIDE DEF own, none, dict
<1>8. /\ IsDict(dict)
      /\ \A e \in DOMAIN dict : \E f \in DOMAIN own : dict[e] = own[f]
      /\ \A f \in DOMAIN own : Has(dict, own[f].number)
  BY <1>2, <1>4, <1>6, <1>7, UpdateRight
<1>9. ASSUME NEW i \in KeyOfText
      PROVE  Has(dict, <<"digit", text[i].num>>)
  <2>1. PICK f \in DOMAIN own : own[f].number = <<"digit", text[i].num>>
    BY <1>2 DEF Has
  <2> QED BY <1>8, <2>1
<1> QED BY <1>2, <1>8, <1>9 DEF dict

-----------------------------------------------------------------------------
(* The invariant of the stages: each phase holds what the stages before it *)
(* have made of the document.                                              *)

Verdicts == {"ACCEPTED", "MEDIUM", "HIGH"}

StageInv ==
  /\ text \in Seq(Line) /\ key \in Seq(Line)
  /\ page \in [DOMAIN text -> Nat \ {0}] /\ unread \subseteq Nat
  /\ phase \in {"read", "segmented", "associated", "stored", "relinked"}
  /\ questions = IF phase = "read" THEN <<>> ELSE Questions(text)
  /\ phase \in {"read", "segmented"} => key = <<>> /\ raw = <<>> /\ rows = <<>>
  /\ phase \in {"associated", "stored"} =>
       /\ raw = RawAnswers(text, key)
       /\ rows = [n \in DOMAIN questions |-> Match(questions, raw, questions[n].number)]
  /\ phase = "relinked" =>
       /\ raw = RawAnswers(<<>>, key) /\ key # <<>>
       /\ rows \in Seq(Rows) /\ Len(rows) = Len(questions)
       /\ LinkedWins
  /\ scored \in Seq(Verdicts) /\ Len(scored) <= Len(questions)

(* Stage 4 returns questions with lines of the document.                   *)
LEMMA QuestionsType ==
  ASSUME NEW lines \in Seq(Line)
  PROVE  Questions(lines) \in Seq(QuestionRecords)
<1>1. CASE BestPattern(lines) = 0
  <2> DEFINE q == [number |-> NoNumber, line |-> 1, from |-> 1, to |-> Len(lines),
                   beheaded |-> FALSE]
  <2>1. NoNumber \in QuestionNumbers
    BY DEF QuestionNumbers
  <2>2. Len(lines) \in Nat
    OBVIOUS
  <2>3. q \in QuestionRecords
    BY <2>1, <2>2 DEF QuestionRecords
  <2>4. Questions(lines) = <<>> \/ Questions(lines) = <<q>>
    BY <1>1, UnnumberedQuestions
  <2> HIDE DEF q
  <2>5. <<q>> \in Seq(QuestionRecords) /\ <<>> \in Seq(QuestionRecords)
    BY <2>3
  <2> QED BY <2>4, <2>5
<1>2. CASE BestPattern(lines) # 0
  <2> DEFINE p == BestPattern(lines)
             hits == Sorted(HitLines(lines))
             c == Cardinality(HitLines(lines))
             qs == Questions(lines)
             record(n) == [number |-> QuestionNumber(lines[hits[n]]), line |-> hits[n],
                           from |-> MatchStart(lines, p, hits[n]),
                           to |-> SpanEnd(lines, p, hits, n), beheaded |-> Beheaded(p)]
  <2>1. /\ c \in Nat /\ hits \in [1..c -> HitLines(lines)]
        /\ qs = [n \in 1..c |-> record(n)]
    BY <1>2, NumberedQuestions
  <2>2. /\ Len(qs) = c
        /\ \A n \in 1..c :
             /\ qs[n].line \in DOMAIN lines /\ qs[n].from \in 1..qs[n].line
             /\ qs[n].to = IF n = c THEN Len(lines) ELSE qs[n + 1].from - 1
    <3>1. Len(qs) = c /\ DOMAIN qs = 1..c
      BY <1>2, NumberedQuestions
    <3>2. \A n \in DOMAIN qs :
            /\ qs[n].line \in DOMAIN lines /\ qs[n].from \in 1..qs[n].line
            /\ qs[n].to = IF n = Len(qs) THEN Len(lines) ELSE qs[n + 1].from - 1
      BY <1>2, SpansRight
    <3> HIDE DEF qs, c
    <3> QED BY <3>1, <3>2
  <2>3. p \in 1..3
    BY <1>2, PatternRight
  <2>4. ASSUME NEW n \in 1..c
        PROVE  qs[n] \in QuestionRecords
    <3>1. hits[n] \in HitLines(lines)
      BY <2>1
    <3>2. /\ hits[n] \in DOMAIN lines
          /\ lines[hits[n]].kind \in {"q", "dot", "keydot", "roman"}
      BY <2>3, <3>1 DEF HitLines, Hits, QuestionPatterns
    <3>3. lines[hits[n]].num \in Numbers
      BY <3>2 DEF Line, Plain, Numbered
    <3>4. QuestionNumber(lines[hits[n]]) \in QuestionNumbers
      BY <3>3 DEF QuestionNumber, QuestionNumbers
    <3>5. Beheaded(p) \in BOOLEAN
      BY DEF Beheaded
    <3>6. qs[n].line \in Nat \ {0} /\ qs[n].from \in Nat \ {0}
      <4>1. qs[n].line \in 1..Len(lines) /\ Len(lines) \in Nat
        BY <2>2
      <4> HIDE DEF qs, c
      <4> QED BY <2>2, <4>1
    <3>7. qs[n].to \in Nat
      <4>1. CASE n = c
        BY <2>2, <4>1
      <4>2. CASE n # c
        <5>1. n + 1 \in 1..c
          BY <2>1, <4>2
        <5>2. qs[n + 1].line \in 1..Len(lines) /\ Len(lines) \in Nat
          BY <2>2, <5>1
        <5>3. qs[n + 1].from \in 1..qs[n + 1].line /\ qs[n].to = qs[n + 1].from - 1
          BY <2>2, <4>2, <5>1
        <5> HIDE DEF qs, c
        <5> QED BY <5>2, <5>3
      <4> QED BY <4>1, <4>2
    <3>8. qs[n] = record(n)
      BY <2>1
    <3> HIDE DEF qs, p, hits
    <3>9. /\ record(n).line \in Nat \ {0} /\ record(n).from \in Nat \ {0}
          /\ record(n).to \in Nat
      BY <3>6, <3>7, <3>8
    <3> QED BY <3>4, <3>5, <3>8, <3>9 DEF QuestionRecords
  <2> HIDE DEF qs, c
  <2>5. qs = [n \in 1..c |-> qs[n]]
    BY <2>1
  <2> QED BY <2>1, <2>4, <2>5 DEF qs
<1> QED BY <1>1, <1>2

(* Stage 5 has a row for each question.                                    *)
LEMMA MatchedRows ==
  ASSUME NEW qs \in Seq(QuestionRecords), NEW dict, IsDict(dict)
  PROVE  LET row == [n \in DOMAIN qs |-> Match(qs, dict, qs[n].number)] IN
         row \in Seq(Rows) /\ Len(row) = Len(qs)
<1>1. DOMAIN qs = 1..Len(qs) /\ Len(qs) \in Nat
  OBVIOUS
<1>2. \A n \in 1..Len(qs) : Match(qs, dict, qs[n].number) \in Rows
  BY RowRight
<1> QED BY <1>1, <1>2

LEMMA StageTypes ==
  ASSUME StageInv
  PROVE  TypeOK /\ IsDict(raw)
<1>1. questions \in Seq(QuestionRecords)
  BY QuestionsType DEF StageInv
<1>2. <<>> \in Seq(Line) /\ IsDict(<<>>)
  BY DEF IsDict
<1>3. IsDict(raw)
  <2>1. raw = <<>> \/ raw = RawAnswers(text, key) \/ raw = RawAnswers(<<>>, key)
    BY DEF StageInv
  <2>2. text \in Seq(Line) /\ key \in Seq(Line)
    BY DEF StageInv
  <2> QED BY <1>2, <2>1, <2>2, RawRight
<1>4. rows \in Seq(Rows) /\ (phase \in {"associated", "stored", "relinked"} => Len(rows) = Len(questions))
  <2>1. CASE phase \in {"associated", "stored"}
    BY <1>1, <1>3, <2>1, MatchedRows DEF StageInv
  <2>2. CASE phase \notin {"associated", "stored"}
    BY <2>2 DEF StageInv
  <2> QED BY <2>1, <2>2
<1> QED BY <1>1, <1>3, <1>4 DEF StageInv, TypeOK, IsDict, Verdicts

LEMMA StageInit == Init => StageInv
<1> SUFFICES ASSUME Init PROVE StageInv
  OBVIOUS
<1>1. /\ text \in Seq(Line) /\ unread \subseteq Nat /\ page \in [DOMAIN text -> 1..Len(text)]
  BY TextsAssumption DEF Init, IsPaper
<1>2. Len(text) \in Nat
  BY <1>1
<1>3. page \in [DOMAIN text -> Nat \ {0}]
  BY <1>1, <1>2
<1> QED BY <1>1, <1>3 DEF Init, StageInv

(* The numbers of answers are digits.                                      *)
LEMMA KeysNumbered ==
  ASSUME NEW linked \in Seq(Line), NEW number,
         Has(FoundAnswers(linked, "LINKED_DOC"), number)
  PROVE  number # NoNumber
<1> DEFINE ofKey == FoundAnswers(linked, "LINKED_DOC")
<1>1. IsDict(ofKey)
  BY FoundRight DEF AnswerSources
<1>2. PICK e \in DOMAIN ofKey : ofKey[e].number = number
  BY DEF Has
<1>3. ofKey[e] \in Found
  BY <1>1 DEF IsDict
<1>4. number \in {"digit"} \X Numbers
  BY <1>2, <1>3 DEF Found
<1> QED BY <1>4 DEF NoNumber

(* A late link overwrites a row with what it has found by its number.      *)
LEMMA RelinkRows ==
  ASSUME NEW old \in Seq(Rows), NEW qs \in Seq(QuestionRecords), Len(old) = Len(qs),
         NEW sorted, NEW linked \in Seq(Line)
  PROVE  LET dict == RawAnswers(<<>>, linked)
             new == [n \in DOMAIN old |->
                      Rewritten(old[n], Match(sorted, dict, qs[n].number))]
         IN /\ new \in Seq(Rows) /\ Len(new) = Len(qs)
            /\ \A n \in DOMAIN new :
                 Has(FoundAnswers(linked, "LINKED_DOC"), qs[n].number) =>
                   new[n].type = "exact" /\ new[n].answer.source = "LINKED_DOC"
<1> DEFINE dict == RawAnswers(<<>>, linked)
           ofKey == FoundAnswers(linked, "LINKED_DOC")
           match(n) == Match(sorted, dict, qs[n].number)
           new == [n \in DOMAIN old |-> Rewritten(old[n], match(n))]
<1>1. /\ IsDict(dict)
      /\ \A number : Has(ofKey, number) =>
           Has(dict, number) /\ Entry(dict, number).source = "LINKED_DOC"
  <2>1. <<>> \in Seq(Line)
    OBVIOUS
  <2> QED BY <2>1, RawRight
<1>2. DOMAIN old = 1..Len(old) /\ Len(old) \in Nat
  OBVIOUS
<1>3. ASSUME NEW n \in DOMAIN old
      PROVE  /\ match(n) \in Rows
             /\ qs[n].number # NoNumber /\ Has(dict, qs[n].number) =>
                  match(n).type = "exact" /\ match(n).answer = Entry(dict, qs[n].number)
  <2> DEFINE row == match(n)
             number == qs[n].number
  <2>1. row = Match(sorted, dict, number)
    OBVIOUS
  <2> HIDE DEF row, dict, number
  <2>2. row \in Rows /\ (number # NoNumber /\ Has(dict, number) =>
                           row.type = "exact" /\ row.answer = Entry(dict, number))
    BY <1>1, <2>1, RowRight
  <2> QED BY <2>2 DEF row, number
<1>4. \A number : Has(ofKey, number) => number # NoNumber
  BY KeysNumbered
<1> HIDE DEF dict, ofKey, match
<1>5. DOMAIN new = DOMAIN old /\ \A n \in DOMAIN old : new[n] = IF match(n).type # "none" THEN match(n) ELSE old[n]
  BY DEF Rewritten
<1>6. ASSUME NEW n \in DOMAIN old
      PROVE  new[n] \in Rows
  <2>1. match(n) \in Rows
    BY <1>3
  <2>2. old[n] \in Rows
    OBVIOUS
  <2> HIDE DEF new
  <2> QED BY <1>5, <2>1, <2>2
<1>7. new \in Seq(Rows) /\ Len(new) = Len(qs) /\ DOMAIN new = DOMAIN old
  <2>1. new = [n \in 1..Len(old) |-> new[n]]
    BY <1>2
  <2> HIDE DEF new
  <2>2. \A n \in 1..Len(old) : new[n] \in Rows
    BY <1>2, <1>6
  <2>3. new \in Seq(Rows) /\ DOMAIN new = 1..Len(old) /\ Len(new) = Len(old)
    BY <1>2, <2>1, <2>2
  <2> QED BY <1>2, <2>3
<1> HIDE DEF new
<1>8. ASSUME NEW n \in DOMAIN new, Has(ofKey, qs[n].number)
      PROVE  new[n].type = "exact" /\ new[n].answer.source = "LINKED_DOC"
  <2>1. match(n).type = "exact" /\ match(n).answer.source = "LINKED_DOC"
    BY <1>1, <1>3, <1>4, <1>7, <1>8
  <2>2. new[n] = match(n)
    BY <1>5, <1>7, <2>1
  <2> QED BY <2>1, <2>2
<1> QED BY <1>7, <1>8 DEF new, ofKey, dict, match

LEMMA StageRelink ==
  ASSUME StageInv, NEW more \in KeyTexts, Relink(more)
  PROVE  StageInv'
<1> DEFINE new == [n \in DOMAIN rows |->
                     Rewritten(rows[n], Match(ByNumber(questions), RawAnswers(<<>>, key'),
                                              questions[n].number))]
<1>1. /\ phase = "stored" /\ phase' = "relinked" /\ key' \in {key \o more, more \o key} \ {<<>>}
      /\ raw' = RawAnswers(<<>>, key') /\ rows' = new
      /\ UNCHANGED <<text, page, unread, questions, scored>>
  BY DEF Relink, document
<1>2. key' \in Seq(Line) /\ key' # <<>>
  <2>1. key \in Seq(Line) /\ more \in Seq(Line)
    BY TextsAssumption DEF StageInv
  <2>2. key \o more \in Seq(Line) /\ more \o key \in Seq(Line)
    BY <2>1, ConcatProperties
  <2> QED BY <1>1, <2>2
<1>3. questions \in Seq(QuestionRecords) /\ rows \in Seq(Rows) /\ Len(rows) = Len(questions)
  BY <1>1, StageTypes DEF TypeOK
<1>4. /\ new \in Seq(Rows) /\ Len(new) = Len(questions)
      /\ \A n \in DOMAIN new :
           Has(FoundAnswers(key', "LINKED_DOC"), questions[n].number) =>
             new[n].type = "exact" /\ new[n].answer.source = "LINKED_DOC"
  BY <1>2, <1>3, RelinkRows
<1> HIDE DEF new
<1>5. LinkedWins'
  BY <1>1, <1>4 DEF LinkedWins
<1> QED BY <1>1, <1>2, <1>4, <1>5 DEF StageInv

LEMMA StageStep == StageInv /\ [Next]_vars => StageInv'
<1> SUFFICES ASSUME StageInv, [Next]_vars
             PROVE  StageInv'
  OBVIOUS
<1>1. CASE Segment
  <2>1. <<>> \in Seq(Rows)
    OBVIOUS
  <2>2. Len(scored) = 0 /\ scored \in Seq(Verdicts)
    BY <1>1 DEF Segment, StageInv
  <2>3. questions' \in Seq(QuestionRecords)
    BY <1>1, QuestionsType DEF Segment, StageInv
  <2>4. Len(scored) <= Len(questions')
    BY <2>2, <2>3
  <2> QED BY <1>1, <2>2, <2>4 DEF Segment, StageInv, document
<1>2. ASSUME NEW linked \in KeyTexts, Associate(linked)
      PROVE  StageInv'
  <2>1. linked \in Seq(Line)
    BY TextsAssumption
  <2> QED BY <1>2, <2>1 DEF Associate, StageInv, document
<1>3. ASSUME NEW more \in KeyTexts, Relink(more)
      PROVE  StageInv'
  BY <1>3, StageRelink
<1>4. CASE ScoreQuestion
  <2> DEFINE n == Len(scored) + 1
  <2>1. PICK b \in BodiesOf(questions[n]), ocr \in AverageOcr(questions[n]) :
          scored' = Append(scored, Verdict(Confidence(questions[n], b, ocr, rows[n])))
    BY <1>4 DEF ScoreQuestion
  <2> DEFINE v == Verdict(Confidence(questions[n], b, ocr, rows[n]))
  <2>2. v \in Verdicts
    BY DEF Verdict, Verdicts
  <2>3. scored \in Seq(Verdicts) /\ n \in DOMAIN questions /\ questions \in Seq(QuestionRecords)
    BY <1>4, StageTypes DEF ScoreQuestion, StageInv, TypeOK
  <2>4. scored' = Append(scored, v)
    BY <2>1
  <2> HIDE DEF v
  <2>5. scored' \in Seq(Verdicts) /\ Len(scored') <= Len(questions)
    BY <2>2, <2>3, <2>4
  <2> QED BY <1>4, <2>5 DEF ScoreQuestion, StageInv, document
<1>5. CASE Finish
  BY <1>5 DEF Finish, StageInv, document
<1>6. CASE UNCHANGED vars
  BY <1>6 DEF vars, document, StageInv, LinkedWins
<1>7. CASE Next
  BY <1>1, <1>2, <1>3, <1>4, <1>5, <1>7 DEF Next
<1> QED BY <1>6, <1>7

LEMMA StageAlways == Spec => []StageInv
  BY StageInit, StageStep, PTL DEF Spec

-----------------------------------------------------------------------------
(* What the stages guarantee.                                              *)

LEMMA StageTile == StageInv => SpansTile
<1> SUFFICES ASSUME StageInv, NEW i \in DOMAIN text, questions # <<>>, i >= questions[1].from
             PROVE  LET of == {n \in DOMAIN questions :
                                 i \in questions[n].from..questions[n].to}
                    IN Cardinality(of) = 1 /\ \A n \in of : page[i] \in PagesOf(questions[n])
  BY DEF SpansTile
<1> DEFINE of == {n \in DOMAIN questions : i \in questions[n].from..questions[n].to}
<1>1. questions = Questions(text) /\ text \in Seq(Line) /\ page \in [DOMAIN text -> Nat]
  BY DEF StageInv
<1>2. PICK n \in DOMAIN questions : of = {n}
  BY <1>1, QuestionsTile
<1>3. Cardinality(of) = 1
  BY <1>2, FS_Singleton
<1>4. ASSUME NEW k \in of
      PROVE  page[i] \in PagesOf(questions[k])
  <2>1. questions[k] \in QuestionRecords /\ i \in questions[k].from..questions[k].to
    BY <1>1, QuestionsType
  <2> DEFINE from == questions[k].from
             to == questions[k].to
  <2>2. from \in Nat /\ to \in Int
    BY <2>1 DEF QuestionRecords
  <2>3. Len(text) \in Nat /\ DOMAIN text = 1..Len(text)
    BY <1>1
  <2> HIDE DEF from, to
  <2>4. from <= i /\ i <= to
    BY <2>1, <2>2, <2>3 DEF from, to
  <2>5. page[i] \in SourcePages(page, from, to)
    BY <1>1, <2>2, <2>3, <2>4, SourcePagesRight
  <2> QED BY <2>5 DEF PagesOf, from, to
<1> QED BY <1>3, <1>4

LEMMA StageOnce == StageInv => AnswersOnce
<1> SUFFICES ASSUME StageInv, phase \in {"associated", "stored"},
                    NEW m \in DOMAIN rows, NEW n \in DOMAIN rows,
                    rows[m].type # "none", rows[n].type # "none",
                    rows[m].answer = rows[n].answer
             PROVE  questions[m].number = questions[n].number
  BY DEF AnswersOnce
<1> DEFINE left == Unmatched(questions, raw)
           open == Unanswered(questions, raw)
<1>0. left = Unmatched(questions, raw) /\ open = Unanswered(questions, raw)
  OBVIOUS
<1>1. /\ rows = [k \in DOMAIN questions |-> Match(questions, raw, questions[k].number)]
      /\ IsDict(raw)
  BY StageTypes DEF StageInv
<1>2. ASSUME NEW k \in DOMAIN rows, rows[k].type # "none"
      PROVE  \/ rows[k].answer.number = questions[k].number
             \/ \E h \in DOMAIN left : rows[k].answer = left[h] /\ open[h].number = questions[k].number
  <2>1. k \in DOMAIN questions /\ rows[k] = Match(questions, raw, questions[k].number)
    BY <1>1
  <2> DEFINE row == rows[k]
             number == questions[k].number
  <2>2. row = Match(questions, raw, number) /\ row.type # "none"
    BY <1>2, <2>1
  <2> HIDE DEF row, number, left, open
  <2>3. row.answer.number = number \/ \E h \in DOMAIN left : row.answer = left[h] /\ open[h].number = number
    BY <1>0, <1>1, <2>2, RowAnswer
  <2> QED BY <2>3 DEF row, number
<1>3. /\ \A h \in DOMAIN left : \A k \in DOMAIN questions :
           questions[k].number # left[h].number
      /\ \A h, k \in DOMAIN left : left[h] = left[k] => h = k
  BY <1>1, UnmatchedRight
<1>4. m \in DOMAIN questions /\ n \in DOMAIN questions
  BY <1>1
<1> HIDE DEF left, open
<1> QED BY <1>2, <1>3, <1>4

LEMMA StageLinked == StageInv => LinkedWins
<1> SUFFICES ASSUME StageInv PROVE LinkedWins
  OBVIOUS
<1>1. CASE phase \in {"read", "segmented"}
  BY <1>1 DEF StageInv, LinkedWins
<1>2. CASE phase \in {"associated", "stored"}
  <2> SUFFICES ASSUME NEW n \in DOMAIN rows,
                      Has(FoundAnswers(key, "LINKED_DOC"), questions[n].number)
               PROVE  rows[n].type = "exact" /\ rows[n].answer.source = "LINKED_DOC"
    BY DEF LinkedWins
  <2> DEFINE number == questions[n].number
             ofKey == FoundAnswers(key, "LINKED_DOC")
  <2>1. /\ text \in Seq(Line) /\ key \in Seq(Line) /\ raw = RawAnswers(text, key)
        /\ rows[n] = Match(questions, raw, number)
    BY <1>2 DEF StageInv
  <2>2. Has(raw, number) /\ Entry(raw, number).source = "LINKED_DOC" /\ IsDict(raw)
    BY <2>1, RawRight
  <2>3. number # NoNumber
    BY <2>1, KeysNumbered
  <2> DEFINE row == rows[n]
  <2>4. row = Match(questions, raw, number)
    BY <2>1
  <2> HIDE DEF row, number, ofKey
  <2>5. row.type = "exact" /\ row.answer = Entry(raw, number)
    BY <2>2, <2>3, <2>4, RowRight
  <2> QED BY <2>2, <2>5 DEF row
<1>3. CASE phase = "relinked"
  BY <1>3 DEF StageInv
<1> QED BY <1>1, <1>2, <1>3 DEF StageInv

LEMMA StageKey == StageInv => KeyAtEndFound
<1> SUFFICES ASSUME StageInv, key = <<>>, HasOneKey, QuestionsFirst
             PROVE  KeyFound
  BY DEF KeyAtEndFound, QuestionsFirst
<1>1. CASE phase \in {"read", "segmented"}
  BY <1>1 DEF StageInv, KeyFound
<1>2. CASE phase \in {"associated", "stored"}
  <2>1. /\ text \in Seq(Line) /\ raw = RawAnswers(text, <<>>)
        /\ rows = [n \in DOMAIN questions |-> Match(questions, raw, questions[n].number)]
    BY <1>2 DEF StageInv
  <2>2. /\ IsDict(raw)
        /\ \A e \in DOMAIN raw : /\ raw[e].line \in KeyOfText
                                 /\ raw[e].number = <<"digit", text[raw[e].line].num>>
        /\ \A i \in KeyOfText : Has(raw, <<"digit", text[i].num>>)
    BY <2>1, KeyAnswers
  <2>3. ASSUME NEW n \in DOMAIN rows, rows[n].type # "none"
        PROVE  IsKey(rows[n].answer.line)
    <3>1. \E e \in DOMAIN raw : rows[n].answer = raw[e]
      <4> DEFINE row == rows[n]
      <4>1. row = Match(questions, raw, questions[n].number) /\ row.type # "none"
        BY <2>1, <2>3
      <4> HIDE DEF row
      <4>2. \E e \in DOMAIN raw : row.answer = raw[e]
        BY <2>2, <4>1, RowRight
      <4> QED BY <4>2 DEF row
    <3> QED BY <2>2, <3>1 DEF KeyOfText
  <2>4. ASSUME NEW n \in DOMAIN rows, NEW i \in DOMAIN text, IsKey(i),
               questions[n].number = <<"digit", text[i].num>>
        PROVE  rows[n].type = "exact" /\ rows[n].answer.line = i
    <3> DEFINE number == <<"digit", text[i].num>>
    <3>1. number # NoNumber
      BY DEF NoNumber
    <3>2. i \in KeyOfText
      BY <2>4 DEF KeyOfText
    <3>3. Has(raw, number)
      BY <2>2, <3>2
    <3> DEFINE row == rows[n]
    <3>4. row = Match(questions, raw, number)
      BY <2>1, <2>4
    <3>5. row.type = "exact" /\ row.answer = Entry(raw, number)
      <4> HIDE DEF row, number
      <4> QED BY <2>2, <3>1, <3>3, <3>4, RowRight
    <3>6. PICK e \in DOMAIN raw : raw[e].number = number /\ Entry(raw, number) = raw[e]
      BY <3>3, EntryRight
    <3>7. raw[e].line \in DOMAIN text /\ IsKey(raw[e].line) /\ text[raw[e].line].num = text[i].num
      BY <2>2, <3>6 DEF KeyOfText
    <3>8. raw[e].line = i
      BY <2>4, <3>7 DEF HasOneKey
    <3> QED BY <3>5, <3>6, <3>8
  <2> QED BY <2>3, <2>4 DEF KeyFound
<1> QED BY <1>1, <1>2 DEF StageInv

(* stage4_segmentation.py, stage5_answer_key.py, stage6_confidence.py:     *)
(* every question has one row, and what the stages hand on has its type.   *)
THEOREM StagesTyped == Spec => []TypeOK
<1>1. StageInv => TypeOK
  BY StageTypes
<1> QED BY <1>1, StageAlways, PTL

(* _segment_questions: for every text, the spans of the questions tile it  *)
(* from the first number on, and each names the pages of its lines.        *)
THEOREM SpansAlwaysTile == Spec => []SpansTile
  BY StageTile, StageAlways, PTL

(* _match_answers_to_questions: for every text, no line of a key answers   *)
(* questions of two numbers.                                               *)
THEOREM AnswersUsedOnce == Spec => []AnswersOnce
  BY StageOnce, StageAlways, PTL

(* stage5_answer_key.py: for every text and all keys linked to it, early   *)
(* or late, the linked answer of a number is the one that is stored.       *)
THEOREM LinkedAnswersWin == Spec => []LinkedWins
  BY StageLinked, StageAlways, PTL

(* _find_answer_key_in_text: whatever the numbers and the length of the    *)
(* text, a key under the only header behind the questions is found as it   *)
(* is.                                                                     *)
THEOREM KeysAtEndFound == Spec => []KeyAtEndFound
  BY StageKey, StageAlways, PTL

-----------------------------------------------------------------------------
(* The flags of stage 6.                                                   *)

TextInv == text \in Seq(Line) /\ page \in [DOMAIN text -> 1..Len(text)]

(* Stage 5 has no answer for a question without a number, and nothing is   *)
(* scored before stage 6.                                                  *)
FlagInv ==
  /\ TextInv
  /\ scored \in Seq(Verdicts)
  /\ phase \in {"read", "segmented"} => scored = <<>>
  /\ phase = "associated" =>
       \A n \in DOMAIN questions :
         questions[n].number = NoNumber => rows[n].type = "none"
  /\ UnnumberedFlagged
  /\ EmptyTextFlagged
  /\ UnreadPageFlagged

-----------------------------------------------------------------------------
(* What stage 6 finds in a question.                                       *)

LEMMA TextFinite ==
  ASSUME TextInv
  PROVE  DOMAIN text = 1..Len(text) /\ IsFiniteSet(1..Len(text))
<1>1. Len(text) \in Nat /\ DOMAIN text = 1..Len(text)
  BY DEF TextInv
<1> QED BY <1>1, FS_Interval

LEMMA OptionCount ==
  ASSUME TextInv, NEW q
  PROVE  Cardinality(Options(text, q)) \in Nat
<1>1. Options(text, q) \in SUBSET (1..Len(text))
  BY TextFinite DEF Options, OptionLines, Hits
<1> QED BY <1>1, TextFinite, FS_Subset, FS_CardinalityType

LEMMA PagesFinite ==
  ASSUME TextInv, NEW q
  PROVE  IsFiniteSet(PagesOf(q))
<1>1. Range(page) \in SUBSET (1..Len(text))
  BY DEF TextInv, Range
<1>2. PagesOf(q) \in SUBSET (1..Len(text))
  BY <1>1 DEF PagesOf, SourcePages
<1> QED BY <1>2, TextFinite, FS_Subset

LEMMA BodyRight ==
  ASSUME TextInv, NEW q, NEW b \in BodiesOf(q)
  PROVE  /\ b.options \in Nat
         /\ ~HasText(text, q) => b.empty
<1> DEFINE n == Cardinality(Options(text, q))
           none == ~HasText(text, q)
<1>1. n \in Nat
  BY OptionCount
<1>2. CASE n # 0
  <2>1. b \in [type : {"MCQ"}, options : {n}, empty : {none}, starts : BOOLEAN, ends : {TRUE}]
    BY <1>2 DEF BodiesOf
  <2> HIDE DEF n, none
  <2>2. b.options = n /\ b.empty = none
    BY <2>1
  <2>3. none => b.empty
    BY <2>2
  <2> QED BY <1>1, <2>2, <2>3 DEF none
<1>3. CASE n = 0 /\ HasText(text, q)
  <2>1. b \in [type : {"TRUE_FALSE", "OTHER"}, options : {0}, empty : {FALSE},
                starts : BOOLEAN, ends : BOOLEAN]
    BY <1>3 DEF BodiesOf
  <2>2. b.options = 0
    BY <2>1
  <2> QED BY <1>3, <2>2
<1>4. CASE n = 0 /\ ~HasText(text, q)
  <2>1. b = EmptyBody
    BY <1>4 DEF BodiesOf
  <2> QED BY <2>1 DEF EmptyBody
<1> QED BY <1>2, <1>3, <1>4

(* The average is 0 to 1, and at most .5 if half of the pages are unread.  *)
LEMMA AverageRight ==
  ASSUME TextInv, NEW q, NEW ocr \in AverageOcr(q)
  PROVE  /\ ocr \in 0..100
         /\ 2 * Cardinality(PagesOf(q) \ unread) <= Cardinality(PagesOf(q)) => ocr \in 0..50
<1>1. CASE PagesOf(q) = {}
  BY <1>1 DEF AverageOcr
<1>2. CASE PagesOf(q) # {}
  <2> DEFINE n == Cardinality(PagesOf(q))
             m == Cardinality(PagesOf(q) \ unread)
  <2>1. ocr \in 0..100 /\ ocr * n <= 100 * m
    BY <1>2, OcrAssumption DEF AverageOcr
  <2>2. n \in Nat /\ n # 0 /\ m \in Nat
    BY <1>2, PagesFinite, FS_CardinalityType, FS_EmptySet, FS_Difference
  <2> HIDE DEF n, m
  <2>3. ASSUME 2 * m <= n, ocr > 50
        PROVE  FALSE
    <3>1. 100 * m <= 50 * n
      BY <2>2, <2>3
    <3>2. (ocr - 50) * n > 0
      BY <2>1, <2>2, <2>3
    <3>3. (ocr - 50) * n = ocr * n - 50 * n
      BY <2>1, <2>2
    <3>4. ocr * n \in Nat
      BY <2>1, <2>2
    <3> DEFINE total == ocr * n
    <3> HIDE DEF total
    <3>5. total \in Nat /\ total <= 100 * m /\ total - 50 * n > 0
      BY <2>1, <3>2, <3>3, <3>4 DEF total
    <3> QED BY <2>2, <3>1, <3>5
  <2>4. 2 * m <= n => ocr \in 0..50
    BY <2>1, <2>3
  <2> QED BY <2>1, <2>4 DEF n, m
<1> QED BY <1>1, <1>2

-----------------------------------------------------------------------------
(* What the weights make of it.                                            *)

(* The signals stay between 0 and 1; an answer's stays below .95.          *)
LEMMA SignalBounds ==
  ASSUME NEW q, NEW b, b.options \in Nat, NEW row
  PROVE  /\ NumberSignal(q) \in 0..100
         /\ OptionSignal(b) \in 0..100
         /\ BoundarySignal(b) \in 0..100
         /\ AnswerSignal(b, row) \in 0..95
<1>1. NumberSignal(q) \in 0..100
  BY DEF NumberSignal
<1>2. OptionSignal(b) \in 0..100
  BY DEF OptionSignal
<1>3. BoundarySignal(b) \in 0..100
  BY DEF BoundarySignal
<1>4. AnswerSignal(b, row) \in 0..95
  BY DEF AnswerSignal
<1> QED BY <1>1, <1>2, <1>3, <1>4

(* The sum of the weighted signals stays below the threshold.              *)
LEMMA NotAccepted ==
  ASSUME NEW q, NEW b, NEW ocr, NEW row,
         Confidence(q, b, ocr, row) \in 0..8499
  PROVE  Verdict(Confidence(q, b, ocr, row)) # "ACCEPTED"
<1> DEFINE conf == Confidence(q, b, ocr, row)
<1>1. conf \in 0..8499
  OBVIOUS
<1> HIDE DEF conf
<1>2. Verdict(conf) # "ACCEPTED"
  BY <1>1 DEF Verdict, AutoAccept, ReviewThreshold
<1> QED BY <1>2 DEF conf

(* A question without a number reaches .785 at best, one without text and  *)
(* one half of whose pages are unread .8425.                               *)
LEMMA FlaggedBound ==
  ASSUME TextInv, NEW q, NEW b \in BodiesOf(q), NEW ocr \in AverageOcr(q), NEW row,
         \/ q.number = NoNumber /\ row.type = "none"
         \/ ~HasText(text, q)
         \/ 2 * Cardinality(PagesOf(q) \ unread) <= Cardinality(PagesOf(q))
  PROVE  Verdict(Confidence(q, b, ocr, row)) # "ACCEPTED"
<1> DEFINE m == NumberSignal(q)
           p == OptionSignal(b)
           c == BoundarySignal(b)
           a == AnswerSignal(b, row)
<1>1. ocr \in 0..100 /\ m \in 0..100 /\ p \in 0..100 /\ c \in 0..100 /\ a \in 0..95
  BY BodyRight, AverageRight, SignalBounds
<1>2. ocr <= 50 \/ c = 0 \/ (m = 30 /\ a <= 50)
  <2>1. CASE q.number = NoNumber /\ row.type = "none"
    BY <2>1 DEF NumberSignal, AnswerSignal
  <2>2. CASE ~HasText(text, q)
    BY <2>2, BodyRight DEF BoundarySignal
  <2>3. CASE 2 * Cardinality(PagesOf(q) \ unread) <= Cardinality(PagesOf(q))
    BY <2>3, AverageRight
  <2> QED BY <2>1, <2>2, <2>3
<1>3. Confidence(q, b, ocr, row) = 30 * ocr + 20 * m + 20 * p + 15 * c + 15 * a
  BY DEF Confidence
<1> HIDE DEF m, p, c, a
<1> DEFINE sum == 30 * ocr + 20 * m + 20 * p + 15 * c + 15 * a
<1>4. sum \in 0..8499
  <2>1. CASE ocr <= 50
    BY ONLY <1>1, <2>1
  <2>2. CASE c = 0
    BY ONLY <1>1, <2>2
  <2>3. CASE m = 30 /\ a <= 50
    BY ONLY <1>1, <2>3
  <2> HIDE DEF sum
  <2> QED BY ONLY <1>2, <2>1, <2>2, <2>3
<1> QED BY <1>3, <1>4, NotAccepted

-----------------------------------------------------------------------------
(* The invariant.                                                          *)

LEMMA FlagInit == Init => FlagInv
<1> SUFFICES ASSUME Init PROVE FlagInv
  OBVIOUS
<1>1. TextInv
  BY TextsAssumption DEF Init, IsPaper, TextInv
<1> QED BY <1>1 DEF Init, FlagInv, UnnumberedFlagged, EmptyTextFlagged, UnreadPageFlagged

(* Stage 5 leaves a question without a number without an answer.           *)
LEMMA FlagAssociate ==
  ASSUME FlagInv, NEW linked, Associate(linked)
  PROVE  FlagInv'
<1>1. scored' = <<>> /\ TextInv'
  BY DEF FlagInv, TextInv, Associate, document
<1>2. \A n \in DOMAIN questions' :
        questions'[n].number = NoNumber => rows'[n].type = "none"
  BY DEF Associate, Match
<1>3. phase' = "associated"
  BY DEF Associate
<1> QED
  BY <1>1, <1>2, <1>3 DEF FlagInv, UnnumberedFlagged, EmptyTextFlagged, UnreadPageFlagged

(* The properties speak of the document, the questions and their verdicts. *)
Doubtful(q) ==
  \/ q.number = NoNumber
  \/ ~HasText(text, q)
  \/ 2 * Cardinality(PagesOf(q) \ unread) <= Cardinality(PagesOf(q))

LEMMA DoubtfulFlagged ==
  (\A n \in DOMAIN scored : Doubtful(questions[n]) => scored[n] # "ACCEPTED")
    <=> UnnumberedFlagged /\ EmptyTextFlagged /\ UnreadPageFlagged
BY DEF Doubtful, UnnumberedFlagged, EmptyTextFlagged, UnreadPageFlagged

(* Stage 6 appends the verdict of a question the bounds apply to.          *)
LEMMA FlagScore ==
  ASSUME FlagInv, ScoreQuestion
  PROVE  FlagInv'
<1> DEFINE n == Len(scored) + 1
<1>1. PICK b \in BodiesOf(questions[n]), ocr \in AverageOcr(questions[n]) :
        scored' = Append(scored, Verdict(Confidence(questions[n], b, ocr, rows[n])))
  BY DEF ScoreQuestion
<1> DEFINE v == Verdict(Confidence(questions[n], b, ocr, rows[n]))
<1>2. /\ phase = "associated" /\ phase' = phase /\ n \in DOMAIN questions
      /\ UNCHANGED <<text, page, unread, questions, rows>>
  BY DEF ScoreQuestion, document
<1>3. scored \in Seq(Verdicts) /\ v \in Verdicts
  BY DEF FlagInv, Verdict, Verdicts
<1>4. Doubtful(questions[n]) => v # "ACCEPTED"
  <2>1. questions[n].number = NoNumber => rows[n].type = "none"
    BY <1>2 DEF FlagInv
  <2> HIDE DEF n
  <2> QED BY <1>1, <2>1, FlaggedBound DEF FlagInv, Doubtful
<1>5. \A i \in DOMAIN scored : Doubtful(questions[i]) => scored[i] # "ACCEPTED"
  BY DoubtfulFlagged DEF FlagInv
<1> HIDE DEF v
<1>6. /\ scored' \in Seq(Verdicts) /\ DOMAIN scored' = 1..n /\ scored'[n] = v
      /\ DOMAIN scored = 1..(n - 1) /\ n \in Nat
      /\ \A i \in DOMAIN scored : scored'[i] = scored[i]
  BY <1>1, <1>3 DEF v
<1>7. ASSUME NEW i \in DOMAIN scored', Doubtful(questions[i])
      PROVE  scored'[i] # "ACCEPTED"
  <2>1. CASE i = n
    BY <1>4, <1>6, <1>7, <2>1
  <2>2. CASE i # n
    <3>1. i \in DOMAIN scored /\ scored'[i] = scored[i]
      BY <1>6, <2>2
    <3> QED BY <1>5, <1>7, <3>1
  <2> QED BY <2>1, <2>2
<1>8. (UnnumberedFlagged /\ EmptyTextFlagged /\ UnreadPageFlagged)'
  BY <1>2, <1>7 DEF Doubtful, UnnumberedFlagged, EmptyTextFlagged, UnreadPageFlagged, PagesOf
<1> QED BY <1>2, <1>6, <1>8 DEF FlagInv, TextInv

(* Every step keeps the invariant.                                         *)
LEMMA FlagStep == FlagInv /\ [Next]_vars => FlagInv'
<1> SUFFICES ASSUME FlagInv, [Next]_vars
             PROVE  FlagInv'
  OBVIOUS
<1> USE DEF FlagInv, TextInv, UnnumberedFlagged, EmptyTextFlagged, UnreadPageFlagged,
            PagesOf, document
<1>1. CASE Segment
  BY <1>1 DEF Segment
<1>2. ASSUME NEW linked \in KeyTexts, Associate(linked)
      PROVE  FlagInv'
  BY <1>2, FlagAssociate
<1>3. ASSUME NEW more \in KeyTexts, Relink(more)
      PROVE  FlagInv'
  BY <1>3 DEF Relink
<1>4. CASE ScoreQuestion
  BY <1>4, FlagScore
<1>5. CASE Finish
  BY <1>5 DEF Finish
<1>6. CASE UNCHANGED vars
  BY <1>6 DEF vars
<1>7. CASE Next
  BY <1>1, <1>2, <1>3, <1>4, <1>5, <1>7 DEF Next
<1> QED BY <1>6, <1>7

LEMMA FlagAlways == Spec => []FlagInv
  BY FlagInit, FlagStep, PTL DEF Spec

(* stage6_confidence.py: a document whose questions carry no number is     *)
(* always reviewed, for every text and every OCR confidence.               *)
THEOREM UnnumberedReviewed == Spec => []UnnumberedFlagged
<1>1. FlagInv => UnnumberedFlagged
  BY DEF FlagInv
<1> QED BY <1>1, FlagAlways, PTL

(* stage6_confidence.py: a question without text, such as a line of the    *)
(* answer key that stage 4 takes for a question, is always reviewed.       *)
THEOREM EmptyTextsReviewed == Spec => []EmptyTextFlagged
<1>1. FlagInv => EmptyTextFlagged
  BY DEF FlagInv
<1> QED BY <1>1, FlagAlways, PTL

(* stage6_confidence.py: a question half of whose source pages have no OCR *)
(* confidence is always reviewed.                                          *)
THEOREM UnreadPagesReviewed == Spec => []UnreadPageFlagged
<1>1. FlagInv => UnreadPageFlagged
  BY DEF FlagInv
<1> QED BY <1>1, FlagAlways, PTL

=============================================================================

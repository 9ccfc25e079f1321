----------------------------- MODULE MCScoring -----------------------------
(* Constants of the Scoring runs. *)
EXTENDS Scoring, TLC

(* The numbers are "2" and "10", and the roman numerals "ii" and "x": as    *)
(* strings, "10" < "2" < "ii" < "x".                                       *)
StringOrder == (<<"digit", 10>> :> 1) @@ (<<"digit", 2>> :> 2)
                 @@ (<<"roman", 2>> :> 3) @@ (<<"roman", 10>> :> 4)

(* One line of each kind, and two numbers for the kinds that collide. *)
PaperLines ==
  [kind : {"blank", "prose", "header"}, num : {0}]
    \cup [kind : {"q", "roman", "keydash"}, num : {2}]
    \cup [kind : {"dot", "keydot"}, num : {2, 10}]

OnePage(lines) == [lines |-> lines, page |-> [i \in DOMAIN lines |-> 1], unread |-> {}]

(* Texts on one to three pages, any of which OCR may have failed on. *)
PagedLines == [kind : {"blank", "prose"}, num : {0}] \cup [kind : {"q", "dot"}, num : {2}]
                \cup [kind : {"keydot"}, num : {2}]

Layouts(m) ==
  {f \in [1..m -> 1..m] : f[1] = 1 /\ \A i \in 2..m : f[i] \in {f[i - 1], f[i - 1] + 1}}

Paged ==
  {p \in UNION {[lines : [1..m -> PagedLines], page : Layouts(m), unread : SUBSET (1..m)] :
                  m \in 1..3} : p.unread \subseteq Range(p.page)}

(* Questions with one to four options, whole or on two pages. *)
OptionLinesOf == {"paren", "letter", "prose"}

WithOptions ==
  LET line(k) == [kind |-> k, num |-> IF k \in {"dot", "keydot", "keydash"} THEN 2 ELSE 0] IN
  {[lines |-> <<line(k), line(a), line(b), line(c), line(d)>>,
    page |-> <<1, 1, p, p, p>>, unread |-> {}] :
     k \in {"dot", "keydot", "prose"}, a, b, c, d \in OptionLinesOf, p \in {1, 2}}

AllPapers == {OnePage(lines) : lines \in Texts(PaperLines, 3)} \cup Paged \cup WithOptions

KeyLineKinds == [kind : {"header"}, num : {0}] \cup [kind : {"keydot"}, num : {2, 10}]

Keys == Texts(KeyLineKinds, 2)

=============================================================================

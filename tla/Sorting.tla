------------------------------ MODULE Sorting ------------------------------
(***************************************************************************)
(* The order of numbers, as the matches of a regular expression come by    *)
(* their place in a text and the rows of a listing by their time.          *)
(***************************************************************************)
EXTENDS Naturals, FiniteSets, Sequences

Lowest(S) == CHOOSE i \in S : \A j \in S : i <= j
Highest(S) == CHOOSE i \in S : \A j \in S : i >= j

(* How many elements of S there are up to i. *)
Place(S, i) == Cardinality({j \in S : j <= i})

(* The elements of S from the lowest to the highest. *)
Sorted(S) == [n \in 1..Cardinality(S) |-> CHOOSE i \in S : Place(S, i) = n]

(* What a sequence has at the places in I, in its order. *)
Kept(s, I) == [n \in 1..Cardinality(I) |-> s[Sorted(I)[n]]]
=============================================================================

--------------------------- MODULE MCAnswerLinking ---------------------------
(* Two keys, two questions and two link requests with any targets: two for *)
(* one key, or one for each.                                               *)
EXTENDS AnswerLinking

CONSTANTS k1, k2, q1, q2, ra, rb

=============================================================================

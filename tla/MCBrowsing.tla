----------------------------- MODULE MCBrowsing -----------------------------
EXTENDS Browsing, TLC

CONSTANTS exam, book, alice, bob, c1, c2

MCOwner == [d \in Docs |-> alice]
MCNumQuestions == [d \in Docs |-> IF d = exam THEN 3 ELSE 0]
MCFlagged == {<<exam, 2>>}
MCAttempts == [d \in Docs |-> IF d = exam THEN 2 ELSE 0]
(* The last two questions of the exam have the same number. *)
MCNumber == [q \in Questions |-> IF q[2] = 3 THEN 2 ELSE q[2]]
MCListings ==
  {[table |-> "documents", filter |-> f] : f \in {"QUEUED"}}
  \cup {[table |-> "items", filter |-> f] : f \in {"open"}}
  \cup {[table |-> "questions", filter |-> exam]}

ClientSymmetry == Permutations(Clients)
=============================================================================

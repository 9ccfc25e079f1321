------------------------------ MODULE MCIntake ------------------------------
(* Constants of the Intake run. *)
EXTENDS Intake

PdfUploads ==
  [kind : {"pdf"}, size : {1, 3, 4}, health : {"sound", "damaged", "corrupt"},
   pages : {0, 1, 3}, textual : {{2, 3}}, width : {1}, height : {1}, orientation : {1}]

(* Narrow pictures lose their short edge when the long one is cut. *)
ImageUploads ==
  UNION {[kind : {"jpeg", "png"}, size : {1, 3}, health : {"sound", "damaged"},
          pages : {1}, textual : {{}}, width : {d[1]}, height : {d[2]},
          orientation : Orientations] : d \in {<<1, 1>>, <<5, 2>>, <<2, 5>>, <<9, 1>>}}

Rejected ==
  [kind : {"pdf", "png"}, size : {0, 5}, health : {"sound"}, pages : {1}, textual : {{}},
   width : {1}, height : {1}, orientation : {1}]
    \cup [kind : {"other"}, size : {1}, health : {"sound"}, pages : {1}, textual : {{}},
          width : {1}, height : {1}, orientation : {1}]

Files == PdfUploads \cup ImageUploads \cup Rejected

=============================================================================

----------------------------- MODULE MCPipeline -----------------------------
(* Constants of the Pipeline runs, and the mutants of its definitions.     *)
EXTENDS Pipeline, TLC

CONSTANTS exam, book, w1, w2

(* Two pages and two questions: enough for a prefix that is neither empty  *)
(* nor whole.                                                              *)
One == [d \in Docs |-> 1]
Two == [d \in Docs |-> 2]

(* Workers are interchangeable; used only where no liveness is checked.    *)
WorkerSymmetry == Permutations(Workers)

=============================================================================

--------------------------- MODULE MCKnowledgeBase ---------------------------
(* Two trainings and a plain request, one crash, three nodes: the default    *)
(* network and one more for each training.                                   *)
EXTENDS KnowledgeBase, TLC

\* Trainings are alike, and so are the concepts they teach.
Symmetry == Permutations(Trainers)
=============================================================================

------------------------------ MODULE MCOpQueue -----------------------------
(* Instances of OpQueue for TLC. *)
EXTENDS OpQueue, TLC

(* Sound where all tasks are of one class and all workers of one pool. *)
Symmetry == Permutations(Tasks) \cup Permutations(Workers)
=============================================================================

---------------------------- MODULE MCTaskControl ---------------------------
(* Instances of TaskControl for TLC. *)
EXTENDS TaskControl, TLC

(* Sound for safety: ids and requests are interchangeable. *)
Symmetry == Permutations(Ids) \cup Permutations(Callers)
=============================================================================

---------------------------- MODULE MCKeyRetention ----------------------------
(* The instance for TLC: a session west of UTC, at UTC and east of it.     *)
EXTENDS KeyRetention, TLC

MCOffsets == {-1, 0, 1}

(* Applies are interchangeable, and so are processes.                      *)
Symmetry == Permutations(Applies) \cup Permutations(Replicas)
===============================================================================

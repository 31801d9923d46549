----------------------------- MODULE MCLocalPolicy -----------------------------
(* An instance of LocalPolicy for TLC: the threads are interchangeable.    *)
EXTENDS LocalPolicy, TLC

Symmetry == Permutations(Threads)
===============================================================================

------------------------------- MODULE MCFold -------------------------------
(* Fold for TLC: the callers of the fold command are interchangeable.      *)
EXTENDS Fold, TLC

Symmetry == Permutations(Callers)
=============================================================================

---------------------------- MODULE MCExactCache ----------------------------
(* Finite instances of ExactCache: processes and entries are model values.  *)
EXTENDS ExactCache, TLC

Symmetry == Permutations(Procs)
=============================================================================

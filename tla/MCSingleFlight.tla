--------------------------- MODULE MCSingleFlight ---------------------------
(* Finite instances of SingleFlight: processes and tokens are model values. *)
EXTENDS SingleFlight, TLC

Symmetry == Permutations(Procs)
=============================================================================

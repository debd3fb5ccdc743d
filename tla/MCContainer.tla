----------------------------- MODULE MCContainer -----------------------------
(* Model-checking instances of Container: futures of a kind are              *)
(* interchangeable.                                                          *)
EXTENDS Container

Symmetry == Permutations(Getters) \cup Permutations(Putters)

=============================================================================

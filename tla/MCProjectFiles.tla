-------------------------- MODULE MCProjectFiles --------------------------
(* Small instances of ProjectFiles for TLC. *)
EXTENDS ProjectFiles, TLC

Symmetry == Permutations(Callers)

=============================================================================

--------------------------- MODULE MCUpdateStatus ---------------------------
(* Small instances of UpdateStatus for TLC. *)
EXTENDS UpdateStatus, TLC

Symmetry == Permutations(Endpoints) \cup Permutations(Tags) \cup Permutations(Checks)

=============================================================================

----------------------------- MODULE MCRemoval -----------------------------
(* Small instances of Removal for TLC. *)
EXTENDS Removal, TLC

\* Every container uses everything.
AllUsed == [c \in Containers |-> Resources]

Symmetry == Permutations(Tokens) \cup Permutations(Own) \cup Permutations(Contents)

=============================================================================

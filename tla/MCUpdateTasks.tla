--------------------------- MODULE MCUpdateTasks ---------------------------
(* Small instances of UpdateTasks for TLC. *)
EXTENDS UpdateTasks, TLC

\* Handlers are alike, and so are ids that nobody has drawn yet.
Symmetry == Permutations(Requests) \cup Permutations(Tasks) \cup Permutations(Projects)

=============================================================================

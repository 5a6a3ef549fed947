---------------------------- MODULE ProjectLedger ----------------------------
(***************************************************************************)
(* What the removal gate and the task table promise together, without the  *)
(* gate, the table, the goroutines and the mutexes: a project that is      *)
(* being updated exists, is updated once at a time, and no project is      *)
(* deleted while any project is being updated.  Each step is one atomic    *)
(* decision.                                                               *)
(***************************************************************************)
CONSTANT Projects

VARIABLES
  exists,   \* projects on disk
  busy      \* projects with an update queued or running

Init == exists \in SUBSET Projects /\ busy = {}

Create(p) ==
  /\ p \notin exists
  /\ exists' = exists \cup {p} /\ UNCHANGED busy

BeginUpdate(p) ==
  /\ p \in exists \ busy
  /\ busy' = busy \cup {p} /\ UNCHANGED exists

EndUpdate(p) ==
  /\ p \in busy
  /\ busy' = busy \ {p} /\ UNCHANGED exists

Delete(p) ==
  /\ p \in exists /\ busy = {}
  /\ exists' = exists \ {p} /\ UNCHANGED busy

Next == \E p \in Projects : Create(p) \/ BeginUpdate(p) \/ EndUpdate(p) \/ Delete(p)

Spec == Init /\ [][Next]_<<exists, busy>>

=============================================================================

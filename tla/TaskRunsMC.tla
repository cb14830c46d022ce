----------------------------- MODULE TaskRunsMC -----------------------------
(* TaskRuns for TLC: run ids and call slots are interchangeable. *)
EXTENDS TaskRuns, TLC

Symmetry == Permutations(RunIds) \cup Permutations(Calls)

=============================================================================

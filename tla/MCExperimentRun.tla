--------------------------- MODULE MCExperimentRun ---------------------------
(* ExperimentRun for TLC: run processes, and commands, are interchangeable. *)
EXTENDS ExperimentRun, TLC

Symmetry == Permutations(Runs) \cup Permutations(Commands)

=============================================================================

----------------------------- MODULE MCPidFile ------------------------------
(* Model values for PidFile. *)
EXTENDS PidFile, TLC

CONSTANTS p1, p2, p3

Symmetry == Permutations(Procs)

=============================================================================

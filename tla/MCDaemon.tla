------------------------------ MODULE MCDaemon ------------------------------
(* Constants of Daemon and Query for TLC.                                   *)
EXTENDS Daemon, Query, TLC

CONSTANTS r1, r2, m1, m2

Symmetry == Permutations(Provisionable) \cup Permutations(Macs)

=============================================================================

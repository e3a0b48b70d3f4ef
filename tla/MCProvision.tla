---------------------------- MODULE MCProvision ----------------------------
(* Constants of Provision and Query for TLC.                                *)
EXTENDS Query, TLC

CONSTANTS r1, r2, r3, m1, m2, m3

\* Remotes and MACs are interchangeable: no operator orders or names them.
Symmetry == Permutations(Provisionable) \cup Permutations(Macs)

=============================================================================

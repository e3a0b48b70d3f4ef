----------------------------- MODULE MCHashMap ------------------------------
(* Hash functions for HashMap: numbers as keys, three of them colliding in a *)
(* table of four slots, two in one of eight; the probing of a colliding key  *)
(* wraps around in both.  The fourth key has a bucket of its own, so that    *)
(* tombstones can fill the table.                                            *)
EXTENDS HashMap

MCKeys == 1 .. 4
MCHash == [k \in MCKeys |-> CASE k = 1 -> 7 [] k = 2 -> 15 [] k = 3 -> 3 [] OTHER -> 12]

=============================================================================

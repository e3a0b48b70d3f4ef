----------------------------- MODULE Dictionary -----------------------------
(***************************************************************************)
(* What a map promises its callers (hashmap.h): a function from the keys   *)
(* that are in it to their values.                                         *)
(***************************************************************************)
EXTENDS Functions

CONSTANTS Keys, Values

VARIABLE dict

Init == dict = <<>>

\* hashmap_insert: add k, or replace its value.
Put(k, v) == dict' = [x \in DOMAIN dict \cup {k} |-> IF x = k THEN v ELSE dict[x]]

\* hashmap_remove and hashmap_iter_remove.
Drop(k) == dict' = Restrict(dict, DOMAIN dict \ {k})

\* hashmap_remove_all.
Clear == dict' = <<>>

Next ==
  \/ \E k \in Keys, v \in Values : Put(k, v)
  \/ \E k \in DOMAIN dict : Drop(k)
  \/ Clear

Spec == Init /\ [][Next]_dict

=============================================================================

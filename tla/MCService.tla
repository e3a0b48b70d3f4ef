----------------------------- MODULE MCService ------------------------------
(* Model values for Service. *)
EXTENDS Service

CONSTANTS c1, c2, c3

=============================================================================

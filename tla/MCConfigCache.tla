----------------------------- MODULE MCConfigCache ---------------------------
(* Small instances of ConfigCache for the model checker. *)
EXTENDS ConfigCache

CONSTANTS q1, q2, l1, l2, l3, x1, x2
=============================================================================

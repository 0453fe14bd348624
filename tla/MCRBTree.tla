------------------------------ MODULE MCRBTree ------------------------------
(* RBTree for TLC: the comparators a client may give. *)
EXTENDS RBTree

Ascending(a, b) == a - b

Descending(a, b) == b - a
=============================================================================

----------------------------- MODULE MCSimpleTree -----------------------------
(* A tree of rbtree-simple by itself, kept in the order of its keys. *)
EXTENDS SimpleTree

Ascending(a, b) == a - b
=============================================================================

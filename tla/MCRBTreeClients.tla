--------------------------- MODULE MCRBTreeClients ---------------------------
(***************************************************************************)
(* RBTreeClients for TLC: trees in the order of their keys, and the bounds *)
(* of each client.                                                         *)
(***************************************************************************)
EXTENDS RBTreeClients

CONSTANTS t, u, a, b

Ascending(x, y) == x - y

Bound(trees, keys, vals, nodes) ==
  [trees |-> trees, keys |-> keys, vals |-> vals, nodes |-> nodes]

ClientBounds ==
  [one   |-> Bound({t}, {1, 2}, {a}, 4),
   two   |-> Bound({t, u}, {1}, {a, b}, 3),
   queue |-> Bound({t}, {1, 2}, {a}, 6),
   grow  |-> Bound({t}, 1 .. 3, {a}, 8)]
=============================================================================

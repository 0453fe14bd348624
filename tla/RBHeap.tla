------------------------------- MODULE RBHeap -------------------------------
(***************************************************************************)
(* The nodes of container/rbtree and the functions of rbtree_inline.h.  A  *)
(* heap maps nodes to their structs                                        *)
(*                                                                         *)
(*     struct rbtree_node { size, parent, child[2], key, val }             *)
(*                                                                         *)
(* whose parent word packs the parent's address with two bits: here it is  *)
(* the three fields up, idx (which child of up this node is) and red.      *)
(* Tail stands for every missing child and head is the parent of every     *)
(* root; both are ordinary structs, shared by all trees, whose words the   *)
(* code overwrites like those of any other node.                           *)
(***************************************************************************)
EXTENDS Integers, Sequences, FiniteSets

CONSTANTS
  Nodes,        \* addresses of nodes
  head, tail,   \* the addresses of rbtree_head and rbtree_tail
  Unallocated   \* what the heap has where there is no node, and its address

ASSUME SentinelsAssumption == head # tail /\ head \notin Nodes /\ tail \notin Nodes

NoChildren == [i \in 0 .. 1 |-> tail]

(* rbtree_node_create, with the key and value that elem_insert stores. *)
FreshNode(key, val) ==
  [size |-> 1, up |-> head, idx |-> 0, red |-> FALSE,
   child |-> NoChildren, key |-> key, val |-> val]

(* The initialisers of the sentinels; the tail's parent is null.           *)
TailNode == [size |-> 0, up |-> Unallocated, idx |-> 0, red |-> FALSE, child |-> NoChildren]

HeadNode == [size |-> 0, up |-> head, idx |-> 0, red |-> TRUE, child |-> NoChildren]

EmptyHeap ==
  [n \in Nodes \cup {head, tail} |->
     IF n = tail THEN TailNode ELSE IF n = head THEN HeadNode ELSE Unallocated]

Allocated(h) == {n \in Nodes : h[n] # Unallocated}

parent(h, n) == h[n].up

sibling(h, n) == h[h[n].up].child[1 - h[n].idx]

uncle(h, n) == sibling(h, h[n].up)

is_red(h, n) == h[n].red

set_red(h, n) == [h EXCEPT ![n].red = TRUE]

set_black(h, n) == [h EXCEPT ![n].red = FALSE]

(* The size that a node's children give it. *)
resize(h, n) == [h EXCEPT ![n].size = h[h[n].child[0]].size + h[h[n].child[1]].size + 1]

(* n gets the child c, which keeps its colour, and a size. *)
link_child(h, n, i, c, size) ==
  [h EXCEPT ![n].child[i] = c, ![n].size = size, ![c].up = n, ![c].idx = i]

attach_child(h, n, i, c) ==
  link_child(h, n, i, c, h[c].size + h[h[n].child[1 - i]].size + 1)

(* A rotation: p gets the child 1 - i of n in place of its child i, which  *)
(* is n; n gets p, and gp gets n.  The sizes are those that attach_child   *)
(* finds when it is called in this order.                                  *)
rotate(h, gp, p, n, i) ==
  LET c  == h[n].child[1 - i]
      g  == h[p].idx
      ps == h[c].size + h[h[p].child[1 - i]].size + 1
      ns == ps + h[h[n].child[i]].size + 1
      gs == ns + h[h[gp].child[1 - g]].size + 1
  IN  link_child(link_child(link_child(h, p, i, c, ps), n, 1 - i, p, ns), gp, g, n, gs)

(* Mutant of rotate_borrow: the node goes up and not its sibling. *)
rotate_lend(h, gp, p, node, sib) == rotate(h, gp, p, node, h[node].idx)

(* The sibling of node takes the parent's place, the parent takes node down. *)
rotate_borrow(h, gp, p, node, sib) == rotate(h, gp, p, sib, 1 - h[node].idx)

(* Node takes its parent's place. *)
rotate_return(h, gp, p, node) == rotate(h, gp, p, node, h[node].idx)

-----------------------------------------------------------------------------
(* Where pointers are followed to: the nodes, and the tail behind them. *)
Places(h) == Allocated(h) \cup {tail}

(* The loops that go from place to place: from x on to next, until stop. *)
Follow(stop, next, x) ==
  LET from[y \in DOMAIN next] == IF stop[y] THEN y ELSE from[next[y]] IN from[x]

(* The nodes below r in the order of the tree. *)
NodesInOrder(h, r) ==
  LET below[n \in Places(h)] ==
        IF n = tail THEN <<>>
        ELSE below[h[n].child[0]] \o <<n>> \o below[h[n].child[1]]
  IN  below[r]

(* The keys and values in the order of the tree. *)
InOrder(h, r) ==
  LET s == NodesInOrder(h, r) IN [i \in DOMAIN s |-> <<h[s[i]].key, h[s[i]].val>>]

(* The black nodes on every path down from r, or 0 when paths differ. *)
BlackHeight(h, r) ==
  LET below[n \in Places(h)] ==
        IF n = tail THEN 1
        ELSE LET l == below[h[n].child[0]]
                 m == below[h[n].child[1]]
             IN  IF l = 0 \/ l # m THEN 0 ELSE IF h[n].red THEN l ELSE l + 1
  IN  below[r]
=============================================================================

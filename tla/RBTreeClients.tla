---------------------------- MODULE RBTreeClients ----------------------------
(***************************************************************************)
(* RBTree under one of several clients, chosen at the start, each within   *)
(* bounds of its own: "one" makes any calls on a tree, "two" makes any     *)
(* calls on two trees in turn, "queue" uses a tree as a priority queue and *)
(* "grow" only adds to a tree.                                             *)
(***************************************************************************)
EXTENDS RBTree

CONSTANT Bounds   \* for each client: its trees, keys, values and number of nodes

VARIABLE client

client_vars == <<vars, client>>

Within(b) ==
  /\ \A t \in Trees \ b.trees : root'[t] = NoTree
  /\ \A n \in Allocated(heap') : heap'[n].key \in b.keys /\ heap'[n].val \in b.vals
  /\ Cardinality(Allocated(heap')) <= b.nodes

ClientsInit == Init /\ client \in DOMAIN Bounds

ClientsNext ==
  /\ \/ client = "one"   /\ Next
     \/ client = "two"   /\ Next
     \/ client = "queue" /\ PriorityNext
     \/ client = "grow"  /\ GrowNext
  /\ Within(Bounds[client])
  /\ UNCHANGED client

(* A program does not stop inside a call. *)
ClientsSpec ==
  ClientsInit /\ [][ClientsNext]_client_vars /\ WF_client_vars(Loops /\ UNCHANGED client)

-----------------------------------------------------------------------------
(* A priority queue gives its elements up first to last, even when the     *)
(* tree is out of balance; see TakesFirst.                                 *)
QueuesTakeFirst ==
  [][client = "queue" => \A t \in Trees : TakesFirstOf(t)]_client_vars

(* The trees of a program that only adds to them are red-black trees       *)
(* between calls; see RedBlack.                                            *)
GrowsRedBlack == client = "grow" => RedBlack

(* All along an insertion into such a tree only the node that the loop is  *)
(* at may have a red parent; see OneRedRed.                                *)
GrowsOneRedRed == client = "grow" => OneRedRed
=============================================================================

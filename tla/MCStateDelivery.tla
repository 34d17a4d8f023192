-------------------------- MODULE MCStateDelivery ---------------------------
(* Instances of StateDelivery for TLC: both leaves and the node above one  *)
(* of them match the pattern.                                              *)
EXTENDS StateDelivery

CONSTANTS a, b, node, all

NodeLeaves == [n \in Nodes |-> {a}]
OnePattern == [s \in Patterns |-> {a, b, node}]
=============================================================================

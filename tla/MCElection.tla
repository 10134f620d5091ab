----------------------------- MODULE MCElection -----------------------------
(* Instances of Election for TLC: which scores the nodes may compute. *)
EXTENDS Election

(* Every node bids, no two nodes can have the same score. *)
DistinctBids == [n \in Nodes |-> {n - 1}]

(* Every node bids the same score. *)
EqualBids == [n \in Nodes |-> {0}]

(* The same, but node 1 may turn out not to be eligible. *)
OneMayWatch == [n \in Nodes |-> IF n = 1 THEN {NoBid, 0} ELSE {n - 1}]
=============================================================================

------------------------------- MODULE MCSync -------------------------------
(* Instances of Sync for TLC. *)
EXTENDS Sync

CONSTANTS n1, n2, n3

(* The periodic loop of every node. *)
Loops == {<<n1, "loop">>, <<n2, "loop">>, <<n3, "loop">>}

(* The two goroutines of the node whose removals are watched; the others
   answer. *)
MCThreads == {<<n2, "loop">>, <<n2, "event">>}
MCWatched == {<<n2, n3>>}
=============================================================================

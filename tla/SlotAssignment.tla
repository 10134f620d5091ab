--------------------------- MODULE SlotAssignment ---------------------------
(***************************************************************************)
(* What the election of the replicas of a capsule promises, with nodes,    *)
(* messages and time left out: every replica slot is given to one node, a  *)
(* node takes at most one slot of the capsule, and a slot that has a host  *)
(* keeps it.                                                               *)
(***************************************************************************)
CONSTANTS Nodes, Slots, Nil

VARIABLE owner     \* owner[s]: the node that runs replica s, or Nil

Init == owner = [s \in Slots |-> Nil]

Win(s, n) ==
  /\ owner[s] = Nil
  /\ \A t \in Slots : owner[t] # n
  /\ owner' = [owner EXCEPT ![s] = n]

Next == \E s \in Slots, n \in Nodes : Win(s, n)

Spec == Init /\ [][Next]_owner
=============================================================================

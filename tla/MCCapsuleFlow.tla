---------------------------- MODULE MCCapsuleFlow ----------------------------
(* CapsuleFlow on two nodes: a capsule of one replica to which anything
   happens, and one of two replicas that is neither updated nor deleted. *)
EXTENDS CapsuleFlow

CONSTANTS n1, n2

MCNodes == {n1, n2}
MCCreators == {n1}
MCLookups == {n1}
MCDisturb == <<Disturbances, Disturbances \ {"update"}>>
MCCalm == <<{}, {}>>
MCUpdates == <<{"update"}>>
=============================================================================

-------------------------- MODULE MCCapsuleManager --------------------------
(* Instances of CapsuleManager for TLC: what arrives by gossip. *)
EXTENDS CapsuleManager, TLC

CONSTANTS c1, sp1, n1

(* A re-announcement by the originator as it was at creation, one by a node
   that saw the capsule assigned, and one with a status that is none. *)
McMesh == {[id |-> c1, status |-> st, spec |-> sp1,
            replicas |-> [s \in Slots |-> IF st = "assigned" THEN n1 ELSE Nil]] :
             st \in {"created", "assigned", "unknown"}}

NoMesh == {}
NoMirror == {}
Sym == Permutations(Objs) \cup Permutations(Threads)
McMirrored == {"announced", "assigned"}
=============================================================================

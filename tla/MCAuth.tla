------------------------------- MODULE MCAuth -------------------------------
(* Instances of Auth for TLC. *)
EXTENDS Auth

CONSTANTS n1, n2, n3

(* A node starts a cluster of its own, or knows of both members. *)
MCBootstraps == {{}, {n1, n2}}
=============================================================================

------------------------------ MODULE MCHealth ------------------------------
(* Instances of Health for TLC: what the nodes outside the model may say. *)
EXTENDS Health

Anything == ({"score"} \X Scores) \cup ({"alive", "ping", "crossed"} \X {0})

(* A small cluster detects a failure sooner than a large one. *)
McSuspect == [b \in Bands |-> IF b = "small" THEN 1 ELSE 2]
McQuarantine == [b \in Bands |-> IF b = "small" THEN 2 ELSE 3]
=============================================================================
